------------------------------ MODULE NdsCart -------------------------------
(***************************************************************************)
(* The two ports of a DS gamecard (nds/src/cart.rs): the serial port of    *)
(* its save chip, and the port its blocks are read from.                   *)
(***************************************************************************)
EXTENDS Integers, SequencesExt

(* The save chip behind a DS gamecard's serial port (nds/src/cart.rs,      *)
(* write_auxspidata): the width of its addresses is guessed from the       *)
(* commands it is given, and an infrared card's commands come behind a     *)
(* prefix. The game's driver knows its chip, and `ref` is what it has      *)
(* stored; a command is clocked byte by byte and released at its end.      *)
CONSTANTS
  Digit,      (* an address byte's values: 256 in the code; the chip has Digit^2 cells *)
  Chips,      (* of "tiny", "eeprom", "flash" and "infrared": the cards tried *)
  MaxStored   (* bound: writes and erases *)

VARIABLE
  save  (* [chip, cells, ref, width, ir, held, await, irOp, command, addr, *)
        (* phase, enabled, dirty, epoch, asked, answer, known, stored]      *)

WREN == 6
WRDI == 4
RDSR == 5
RDID == 159
READ == 3
RDHI == 11
PROGRAM == 2
WRHI == 10
PAGE_ERASE == 219
CHIP_ERASE == 199
Addressed == {READ, RDHI, PROGRAM, WRHI}

Cells == 0 .. Digit * Digit - 1
Erased == 255

BackupInit ==
  \E chip \in Chips :
    save = [chip |-> chip, cells |-> [a \in Cells |-> Erased], ref |-> [a \in Cells |-> Erased],
            width |-> 2, ir |-> FALSE, held |-> FALSE, await |-> FALSE, irOp |-> FALSE,
            command |-> 0, addr |-> 0, phase |-> 0, enabled |-> FALSE, dirty |-> FALSE,
            epoch |-> 0, asked |-> 0, answer |-> Erased, known |-> FALSE, stored |-> 0]

Wrapped(a) == a % (Digit * Digit)
PageOf(a) == {c \in Cells : c \div Digit = a \div Digit}

Changed(s, cells) == [s EXCEPT !.cells = cells, !.dirty = TRUE, !.epoch = @ + 1]

(* erase_region, erase_chip.                                               *)
Erase(s, where) ==
  IF s.enabled THEN Changed(s, [a \in Cells |-> IF a \in where THEN Erased ELSE s.cells[a]])
  ELSE s

(* start_backup_command: what a command does by itself.                    *)
Begin(s, byte) ==
  LET b == [s EXCEPT !.command = byte, !.phase = 0, !.addr = 0, !.held = TRUE, !.answer = 0]
  IN  CASE byte = WREN -> [b EXCEPT !.enabled = TRUE]
        [] byte = WRDI -> [b EXCEPT !.enabled = FALSE]
        [] byte = RDID -> [b EXCEPT !.width = 3]
        [] byte = RDHI -> [b EXCEPT !.width = IF @ = 3 THEN 3 ELSE 1]
        [] byte = CHIP_ERASE -> Erase(b, Cells)
        [] OTHER -> b

(* An address byte; with the last, a tiny chip's page and a page's erase.  *)
AddressByte(s, byte) ==
  LET a == s.addr * Digit + byte
      q == [s EXCEPT !.addr = IF s.phase = s.width /\ s.width = 1 /\ s.command \in {RDHI, WRHI}
                              THEN a + Digit ELSE a]
  IN  IF s.command = PAGE_ERASE /\ s.phase = s.width THEN Erase(q, PageOf(Wrapped(a))) ELSE q

Status(s) == (IF s.enabled THEN 2 ELSE 0) + (IF s.width = 1 THEN 240 ELSE 0)

(* A byte after the command.                                               *)
Continue(s, byte) ==
  LET p == [s EXCEPT !.phase = @ + 1, !.answer = 0]
      a == Wrapped(s.addr)
  IN  CASE s.command = PAGE_ERASE \/ (s.command \in Addressed /\ p.phase <= s.width) ->
             AddressByte(p, byte)
        [] s.command \in {READ, RDHI} /\ p.phase > s.width ->
             [p EXCEPT !.answer = s.cells[a], !.addr = @ + 1]
        [] s.command \in {PROGRAM, WRHI} /\ p.phase > s.width /\ s.enabled ->
             [Changed(p, [s.cells EXCEPT ![a] = byte]) EXCEPT !.addr = @ + 1]
        [] s.command = RDSR -> [p EXCEPT !.answer = Status(s)]
        [] OTHER -> p

(* Mutant: the prefix does not tell the width of an infrared card.         *)
FirstByteNarrow(s, byte) ==
  CASE byte = 0 -> [s EXCEPT !.held = TRUE, !.answer = 0, !.await = TRUE, !.ir = TRUE]
    [] byte # 0 /\ s.ir -> [s EXCEPT !.held = TRUE, !.answer = 0, !.irOp = TRUE]
    [] OTHER -> Begin(s, byte)

FirstByte(s, byte) ==
  CASE byte = 0 -> [s EXCEPT !.held = TRUE, !.answer = 0, !.await = TRUE, !.ir = TRUE,
                             !.width = IF s.ir THEN @ ELSE 3]
    [] byte # 0 /\ s.ir -> [s EXCEPT !.held = TRUE, !.answer = 0, !.irOp = TRUE]
    [] OTHER -> Begin(s, byte)

(* write_auxspidata, up to the release of the chip.                        *)
Clocked(s, byte) ==
  CASE ~s.held -> FirstByte(s, byte)
    [] s.held /\ s.await -> Begin([s EXCEPT !.await = FALSE], byte)
    [] s.held /\ ~s.await /\ s.irOp -> [s EXCEPT !.answer = 0]
    [] OTHER -> Continue(s, byte)

(* The last byte comes with the select bit clear and ends the command.     *)
Released(s) ==
  [s EXCEPT !.enabled = @ /\ s.command \notin {PROGRAM, WRHI, PAGE_ERASE, CHIP_ERASE},
            !.held = FALSE, !.await = FALSE, !.irOp = FALSE, !.command = 0]

Command(s, bytes) == Released(FoldLeft(Clocked, s, bytes))
-----------------------------------------------------------------------------
(* The driver: the bytes it sends for a cell, and what it knows it did.    *)
Address(chip, a) ==
  CASE chip = "tiny" -> <<a % Digit>>
    [] chip = "eeprom" -> <<a \div Digit, a % Digit>>
    [] OTHER -> <<0, a \div Digit, a % Digit>>

Opcode(chip, a, low, high) == IF chip = "tiny" /\ a >= Digit THEN high ELSE low
Sent(bytes) == IF save.chip = "infrared" THEN <<0>> \o bytes ELSE bytes

(* A flash driver identifies its chip first, a tiny chip's reads the high  *)
(* page; the other two have nothing to ask.                                *)
Probe ==
  /\ ~save.known
  /\ save' = [(CASE save.chip = "flash" -> Command(save, <<RDID, 0, 0>>)
                 [] save.chip = "tiny" -> Command(save, <<RDHI, 0, 0>>)
                 [] OTHER -> save) EXCEPT !.known = TRUE, !.answer = Erased, !.asked = 0]

Ready(s) == s.known /\ s.stored < MaxStored

Store ==
  \E a \in Cells, v \in {0, 1}, armed \in BOOLEAN :
    LET ready == IF armed THEN Command(save, Sent(<<WREN>>)) ELSE Command(save, Sent(<<WRDI>>))
        done == Command(ready, Sent(<<Opcode(save.chip, a, PROGRAM, WRHI)>>
                                      \o Address(save.chip, a) \o <<v>>))
    IN  /\ Ready(save)
        /\ save' = [done EXCEPT !.ref = IF armed THEN [@ EXCEPT ![a] = v] ELSE @,
                                !.stored = @ + 1, !.asked = a,
                                !.answer = IF armed THEN v ELSE save.ref[a]]

EraseWhole ==
  /\ Ready(save) /\ save.chip \in {"flash", "infrared"}
  /\ LET done == Command(Command(save, Sent(<<WREN>>)), Sent(<<CHIP_ERASE>>))
     IN  save' = [done EXCEPT !.ref = [a \in Cells |-> Erased], !.stored = @ + 1,
                              !.answer = Erased]

ErasePage ==
  \E a \in Cells :
    /\ Ready(save) /\ save.chip \in {"flash", "infrared"}
    /\ LET done == Command(Command(save, Sent(<<WREN>>)),
                           Sent(<<PAGE_ERASE>> \o Address(save.chip, a)))
       IN  save' = [done EXCEPT !.ref = [c \in Cells |-> IF c \in PageOf(a) THEN Erased ELSE save.ref[c]],
                                !.stored = @ + 1, !.asked = a, !.answer = Erased]

Load ==
  \E a \in Cells :
    /\ save.known
    /\ save' = [Command(save, Sent(<<Opcode(save.chip, a, READ, RDHI)>>
                                     \o Address(save.chip, a) \o <<0>>)) EXCEPT !.asked = a]

(* The infrared port is not told from a save command by its later bytes.   *)
Infrared ==
  /\ save.chip = "infrared" /\ save.ir
  /\ save' = [Command(save, <<WREN, CHIP_ERASE>>) EXCEPT !.answer = save.ref[save.asked]]

(* The host persists what it sees, and clears the mark.                    *)
Persist == save.dirty /\ save' = [save EXCEPT !.dirty = FALSE]

BackupNext == Probe \/ Store \/ EraseWhole \/ ErasePage \/ Load \/ Infrared \/ Persist
-----------------------------------------------------------------------------
BackupTypeOK == save.width \in 1 .. 3 /\ ~save.held /\ save.command = 0

(* Whatever chip the card has, once it could be told, the chip holds what  *)
(* the driver stored and answers a read with it; a write that was not      *)
(* enabled, and the infrared port, change nothing.                         *)
RecordsReadBack == save.cells = save.ref /\ (save.known => save.answer = save.ref[save.asked])

(* The contents never change without the mark and the count the host waits *)
(* on.                                                                     *)
MarkedStep == save'.cells # save.cells => save'.dirty /\ save'.epoch > save.epoch
ChangesAreMarked == [][MarkedStep]_save
-----------------------------------------------------------------------------
(* Gamecard blocks and DMA on one processor of the DS (nds/src/cart.rs,    *)
(* dma.rs and the handlers of system.rs): a block is started, its data are *)
(* withheld for the card's latency, the completion event releases them and *)
(* drives the channels that wait for the card, and a reader takes the rest *)
(* from the data port. Channels may instead run at once, or at a blank.    *)
CONSTANTS
  Channels,    (* in priority order: 0 .. 3 in the code *)
  Blocks,      (* the block lengths tried, in words; 0 carries no data *)
  Latencies,   (* transfer_delay's values *)
  Counts,      (* lengths of a transfer *)
  MaxTime,     (* bound: time stops there *)
  MaxWrites    (* bound: register writes *)

VARIABLE
  card  (* [time, words, ready, due, events, got, asked, irq, irqOn, ch,   *)
        (* writes]: events holds the completions' times, asked and got the *)
        (* words the block has and those of it handed out                  *)

Timings == {"immediate", "blank", "cart"}
NoChannel == [on |-> FALSE, timing |-> "immediate", repeat |-> FALSE, port |-> TRUE, count |-> 1,
              left |-> 0]

CardInit ==
  card = [time |-> 0, words |-> 0, ready |-> FALSE, due |-> 0, events |-> <<>>, got |-> 0,
          asked |-> 0, irq |-> FALSE, irqOn |-> TRUE, ch |-> [c \in Channels |-> NoChannel],
          writes |-> 0]

Busy(s) == s.words > 0
Waiting(s, c) == s.ch[c].on /\ s.ch[c].timing = "cart"

(* read_data: nothing until the block is ready; the last word completes it.*)
ReadData(s) ==
  IF s.words = 0 \/ ~s.ready THEN s
  ELSE [s EXCEPT !.words = @ - 1, !.got = @ + 1]

(* complete: a repeating channel waits for its next period, the rest end.  *)
Completed(ch) ==
  IF ch.repeat /\ ch.timing # "immediate" THEN [ch EXCEPT !.left = ch.count]
  ELSE [ch EXCEPT !.on = FALSE, !.left = 0]

(* run_dma_channel: the whole count, from the port or from the memory.     *)
RunChannel(s, c) ==
  LET moved[n \in 0 .. s.ch[c].left] ==
        IF n = 0 THEN s
        ELSE IF s.ch[c].port THEN ReadData(moved[n - 1]) ELSE moved[n - 1]
  IN  [moved[s.ch[c].left] EXCEPT !.ch[c] = Completed(@)]

(* Mutant: one request is served for the whole block.                      *)
DrainOnce(s, c) == IF Busy(s) /\ Waiting(s, c) THEN RunChannel(s, c) ELSE s

(* The completion keeps serving a channel while it makes progress.         *)
Drain(s, c) ==
  LET step[n \in 0 .. s.words] ==
        IF n = 0 THEN s
        ELSE LET r == step[n - 1]
             IN  IF Busy(r) /\ Waiting(r, c) THEN RunChannel(r, c) ELSE r
  IN  step[s.words]

DrainAll(s) ==
  LET step[n \in 0 .. Cardinality(Channels)] == IF n = 0 THEN s ELSE Drain(step[n - 1], n - 1)
  IN  step[Cardinality(Channels)]
-----------------------------------------------------------------------------
Writes == card.writes < MaxWrites
Written(s) == [s EXCEPT !.writes = @ + 1]

(* write_romctrl with the start bit, by a driver that waits for Busy to    *)
(* fall: begin_transfer, and the completion's event.                       *)
StartBlock ==
  \E n \in Blocks, delay \in Latencies :
    /\ Writes /\ ~Busy(card)
    /\ card' = Written([card EXCEPT !.words = n, !.ready = (n = 0), !.got = 0, !.asked = n,
                                    !.due = card.time + delay,
                                    !.events = Append(@, card.time + delay)])

(* DMAxCNT_H: the enabling edge latches the count, and a channel that does *)
(* not wait runs at once.                                                  *)
WriteControl ==
  \E c \in Channels, t \in Timings, n \in Counts, repeat, port, on \in BOOLEAN :
    LET was == card.ch[c]
        edge == on /\ ~was.on
        ch == [on |-> on, timing |-> t, repeat |-> repeat, count |-> n,
               port |-> IF edge THEN port ELSE was.port, left |-> IF edge THEN n ELSE was.left]
        s == Written([card EXCEPT !.ch[c] = ch])
    IN  /\ Writes
        /\ card' = IF edge /\ t = "immediate" THEN RunChannel(s, c) ELSE s

ReadPort == Busy(card) /\ card' = ReadData(card)

(* The PPU's events start the channels of their period, in order.          *)
Blank ==
  LET step[n \in 0 .. Cardinality(Channels)] ==
        IF n = 0 THEN card
        ELSE LET r == step[n - 1]
             IN  IF r.ch[n - 1].on /\ r.ch[n - 1].timing = "blank" THEN RunChannel(r, n - 1) ELSE r
  IN  /\ step[Cardinality(Channels)] # card
      /\ card' = step[Cardinality(Channels)]

(* CartTransferComplete, due.                                              *)
TransferComplete ==
  \E i \in DOMAIN card.events :
    /\ card.events[i] <= card.time
    /\ card' = [DrainAll([card EXCEPT !.ready = TRUE])
                  EXCEPT !.events = RemoveAt(card.events, i), !.irq = @ \/ card.irqOn]

SetIrq == Writes /\ card' = Written([card EXCEPT !.irqOn = ~@])
Acknowledge == card.irq /\ card' = [card EXCEPT !.irq = FALSE]

(* Time passes up to the next event.                                       *)
Tick ==
  /\ card.time < MaxTime
  /\ \A i \in DOMAIN card.events : card.events[i] > card.time
  /\ card' = [card EXCEPT !.time = @ + 1]

CardNext ==
  \/ StartBlock \/ WriteControl \/ ReadPort \/ TransferComplete \/ SetIrq \/ Acknowledge
  \/ Blank \/ Tick

-----------------------------------------------------------------------------
CardTypeOK == card.words \in 0 .. card.asked /\ card.time \in 0 .. MaxTime

(* Each word of a block is handed out once: what is left and what was      *)
(* handed out make the block, whoever took it and in whatever portions.    *)
WordsOnce == card.words + card.got = card.asked

(* When the completion of a block has run, a repeating channel that waited *)
(* for the card at its port has emptied the block.                         *)
DrainStep ==
  TransferComplete /\ (\E c \in Channels : Waiting(card, c) /\ card.ch[c].port
                                            /\ card.ch[c].repeat /\ card.ch[c].left > 0)
    => ~Busy(card')
WaitingChannelDrains == [][DrainStep]_card

(* cart.rs:438-440: a reader that polls for the data waits out the card's  *)
(* latency, so they are not released before it; but the completion of a    *)
(* block without data, which is never Busy, releases the block after it.   *)
DataWaitsItsLatency == Busy(card) /\ card.ready => card.time >= card.due
-----------------------------------------------------------------------------
Init == BackupInit /\ CardInit
Next == (BackupNext /\ UNCHANGED card) \/ (CardNext /\ UNCHANGED save)
Spec == Init /\ [][Next]_<<save, card>>
=============================================================================

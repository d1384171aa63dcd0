----------------------------- MODULE GbaBackups -----------------------------
(***************************************************************************)
(* The GBA cartridge's backup chips with a protocol: the Flash             *)
(* (crates/gba/src/cartridge/flash.rs) and the serial EEPROM (eeprom.rs).  *)
(***************************************************************************)
EXTENDS Integers, Sequences, SequencesExt

(* The Flash backup chip (crates/gba/src/cartridge/flash.rs): its command  *)
(* state machine, driven one byte write at a time. An address is one of    *)
(* the two command addresses or "0000", each in a sector of its own; a     *)
(* cell is kept for each of them in each bank.                             *)
CONSTANT Sizes  (* of {"K64", "K128"} *)

VARIABLE
  flash  (* [size, data, phase, erase_armed, id_mode, bank, dirty, spell,    *)
         (* setUp, unsaved]: the chip, and (history) how much of a command   *)
         (* the latest writes spell, whether an erase was set up and neither *)
         (* carried out nor broken off, and whether data changed since it    *)
         (* was saved                                                        *)

Addresses == {"0000", "2AAA", "5555"}
Commands == {"AA", "55", "80", "90", "F0", "A0", "B0", "10", "30"}
Bytes == {"00", "FF"}       (* data; "FF" is what erased flash reads *)

Banks(size) == IF size = "K128" THEN {0, 1} ELSE {0}
Erased(size) == [b \in Banks(size) |-> [a \in Addresses |-> "FF"]]

FlashInit ==
  \E s \in Sizes :
    flash = [size |-> s, data |-> Erased(s), phase |-> "Ready", erase_armed |-> FALSE,
             id_mode |-> FALSE, bank |-> 0, dirty |-> FALSE, spell |-> <<>>,
             setUp |-> FALSE, unsaved |-> FALSE]

(* Any write that is no part of a sequence. *)
Broken(f) == [f EXCEPT !.phase = "Ready", !.erase_armed = FALSE]

(* Mutant: a byte is programmed into bank 0 whatever bank is mapped. *)
ProgramBankZero(f, a, v) ==
  [f EXCEPT !.phase = "Ready", !.dirty = @ \/ f.data[0][a] # v, !.data[0][a] = v]

Program(f, a, v) ==
  [f EXCEPT !.phase = "Ready", !.dirty = @ \/ f.data[f.bank][a] # v, !.data[f.bank][a] = v]

(* The bank number is the low bit of what is written to address 0. *)
SelectBank(f, a, v) ==
  [f EXCEPT !.phase = "Ready",
            !.bank = IF a # "0000" THEN @ ELSE IF v = "FF" THEN 1 ELSE 0]

(* run_command. *)
RunCommand(f, a, cmd) ==
  CASE cmd \in {"90", "F0"} -> [f EXCEPT !.id_mode = (cmd = "90"), !.phase = "Ready"]
    [] cmd = "A0" -> [f EXCEPT !.phase = "WriteByte"]
    [] cmd = "B0" /\ f.size = "K128" -> [f EXCEPT !.phase = "BankSelect"]
    [] cmd = "80" -> [f EXCEPT !.erase_armed = TRUE, !.phase = "Ready"]
    [] cmd = "10" /\ f.erase_armed ->
         [Broken(f) EXCEPT !.data = Erased(f.size), !.dirty = TRUE]
    [] cmd = "30" /\ f.erase_armed ->
         [Broken(f) EXCEPT !.data[f.bank][a] = "FF", !.dirty = TRUE]
    [] OTHER -> Broken(f)

(* write8. *)
Write8(f, a, v) ==
  CASE f.phase = "WriteByte"  -> Program(f, a, v)
    [] f.phase = "BankSelect" -> SelectBank(f, a, v)
    [] f.phase = "Ready" /\ a = "5555" /\ v = "AA"  -> [f EXCEPT !.phase = "Unlock"]
    [] f.phase = "Unlock" /\ a = "2AAA" /\ v = "55" -> [f EXCEPT !.phase = "Command"]
    [] f.phase = "Command" -> RunCommand(f, a, v)
    [] OTHER -> Broken(f)

(* The data sheet's commands that change data: the values of their writes, *)
(* the unlock writes at their two addresses.                               *)
Unlocking == <<"AA", "55">>
Spells ==
  {Unlocking \o <<"A0">>, Unlocking \o <<"80">> \o Unlocking, Unlocking \o <<"80">>}

At(v) == CASE v = "AA" -> {"5555"} [] v = "55" -> {"2AAA"} [] OTHER -> Addresses

(* The longest end of what was written that begins one of them.            *)
Spelled(s, a, v) ==
  LET all == IF a \in At(v) THEN Append(s, v) ELSE <<>>
      ends == {SubSeq(all, i, Len(all)) : i \in 1 .. Len(all) + 1}
      begun == {e \in ends : \E spell \in Spells : IsPrefix(e, spell)}
  IN  CHOOSE e \in begun : \A o \in begun : Len(o) <= Len(e)

(* Writes that spell an erase's setup; one that carries an erase out; and  *)
(* one that fits no command, after some that did.                          *)
Sets(s) == IsSuffix(Append(Unlocking, "80"), s)
CarriesOut(s, v) == IsSuffix(Unlocking, s) /\ v \in {"10", "30"}
BreaksOff(s, next) ==
  s # <<>> /\ next = <<>> /\ \A end \in {Unlocking, <<"A0">>} : ~IsSuffix(end, s)

SetUp(f, v, next) ==
  Sets(next) \/ (f.setUp /\ ~CarriesOut(f.spell, v) /\ ~BreaksOff(f.spell, next))

(* The game writes a byte; values that mean nothing to the phase are one.  *)
Write ==
  \E a \in Addresses :
  \E v \in IF flash.phase \in {"WriteByte", "BankSelect"} THEN Bytes
           ELSE IF flash.phase = "Command" THEN Commands ELSE {"AA", "55"} :
    LET f == Write8(flash, a, v)
        next == Spelled(flash.spell, a, v)
    IN  flash' = [f EXCEPT !.spell = next, !.setUp = SetUp(flash, v, next),
                           !.unsaved = @ \/ f.data # flash.data]

(* The host writes the save file and marks the chip clean, or loads one.   *)
FlashSaved ==
  /\ flash.dirty
  /\ flash' = [flash EXCEPT !.dirty = FALSE, !.unsaved = FALSE]

FlashNext == Write \/ FlashSaved

-----------------------------------------------------------------------------
FlashTypeOK ==
  /\ flash.phase \in {"Ready", "Unlock", "Command", "WriteByte", "BankSelect"}
  /\ flash.bank \in Banks(flash.size)
  /\ flash.data \in [Banks(flash.size) -> [Addresses -> Bytes]]

(* The save changes only under a command unlocked by the writes before it, *)
(* and only where it says: a program command changes the one cell it       *)
(* addresses, in the bank that is mapped; an erase has a setup of its own, *)
(* which no earlier erase has used up and no break in the sequence has     *)
(* ended, and erases the chip or a sector; however the game broke off,     *)
(* switched banks and identified the chip.                                 *)
CommandedChange ==
  flash'.data # flash.data =>
    \/ /\ IsSuffix(Unlocking, flash.spell) /\ flash.setUp
       /\ \/ flash'.data = Erased(flash.size)
          \/ \E a \in Addresses : flash'.data = [flash.data EXCEPT ![flash.bank][a] = "FF"]
    \/ /\ IsSuffix(Append(Unlocking, "A0"), flash.spell)
       /\ \E a \in Addresses, v \in Bytes :
            flash'.data = [flash.data EXCEPT ![flash.bank][a] = v]
ChangesAreCommanded == [][CommandedChange]_flash

(* What a save file does not hold yet is marked dirty. *)
UnsavedIsDirty == flash.unsaved => flash.dirty

(* flash.rs: "True while an erase command is mid-sequence (a second unlock *)
(* is required before the erase target is written)": an erase is set up by *)
(* the command before its unlock.                                          *)
ErasesAreSetUp ==
  [][flash'.data # flash.data /\ IsSuffix(Unlocking, flash.spell) =>
       IsPrefix(Append(Unlocking, "80"), flash.spell)]_flash
-----------------------------------------------------------------------------
(* The serial EEPROM (crates/gba/src/cartridge/eeprom.rs, and the window   *)
(* it answers in, bus.rs): one bit per DMA transfer, the command in the    *)
(* burst of writes, the address width inferred from the burst's length.    *)
(* Address and data are scaled down: widths Small and Large for 6 and 14   *)
(* bits, Data for the 64 bits of a block, Lead for the 4 bits before them. *)
Small == 1
Large == 2
Data == 2
Lead == 1
Bits == {0, 1}
Blocks(width) == 0 .. 2 ^ width - 1
Blank == 2 ^ Data - 1

VARIABLE
  eeprom  (* [chip, data, width, input, output, left, dirty, cells, sent,   *)
          (* asked, unsaved]: the width of the chip the game was made for, the     *)
          (* model's blocks and detected width (0: not yet), the burst so   *)
          (* far as <<number, length>>, the bits to clock out, and          *)
          (* (history) what a real chip of that width would hold, the burst *)
          (* as sent, the block last read, and whether a change is unsaved  *)

EepromInit ==
  \E w \in {Small, Large} :
    eeprom = [chip |-> w, data |-> [b \in Blocks(Small) |-> Blank], width |-> 0,
              input |-> <<0, 0>>, output |-> 0, left |-> 0, dirty |-> FALSE,
              cells |-> [b \in Blocks(w) |-> Blank], sent |-> <<>>, asked |-> 0, unsaved |-> FALSE]

(* set_width, the first time a command executes. *)
Detected(e) ==
  LET len == e.input[2]
      w == IF len \in {2 + Large + 1, 2 + Large + Data + 1} THEN Large ELSE Small
  IN  IF e.width # 0 THEN e
      ELSE [e EXCEPT !.width = w,
                     !.data = [b \in Blocks(w) |-> IF b \in DOMAIN @ THEN @[b] ELSE Blank]]

Field(number, shift, bits) == (number \div 2 ^ shift) % 2 ^ bits

(* Mutant: the data of a write is taken without skipping the stop bit. *)
ExecuteKeepsStop(e0) ==
  LET e == Detected(e0)
      number == e.input[1]  len == e.input[2]  aw == e.width
      block == Field(number, len - 2 - aw, aw)
      command == Field(number, len - 2, 2)
  IN  IF len < 2 + aw THEN e
      ELSE CASE command = 3 -> [e EXCEPT !.output = e.data[block], !.left = Lead + Data]
             [] command = 2 /\ len > 2 + aw + Data ->
                  LET value == Field(number, 0, Data)
                  IN  [e EXCEPT !.data[block] = value, !.left = 0,
                                !.dirty = @ \/ e.data[block] # value]
             [] OTHER -> e

(* execute: the fields of the burst by shifts from its last bit. *)
Execute(e0) ==
  LET e == Detected(e0)
      number == e.input[1]  len == e.input[2]  aw == e.width
      block == Field(number, len - 2 - aw, aw)
      command == Field(number, len - 2, 2)
  IN  IF len < 2 + aw THEN e
      ELSE CASE command = 3 -> [e EXCEPT !.output = e.data[block], !.left = Lead + Data]
             [] command = 2 /\ len > 2 + aw + Data ->
                  LET value == Field(number, 1, Data)
                  IN  [e EXCEPT !.data[block] = value, !.left = 0,
                                !.dirty = @ \/ e.data[block] # value]
             [] OTHER -> e
-----------------------------------------------------------------------------
(* The two bursts a game sends to a chip of its width.                     *)
ReadLength == 2 + eeprom.chip + 1
WriteLength == 2 + eeprom.chip + Data + 1

BurstWhole == Len(eeprom.sent) =
  IF Len(eeprom.sent) >= 2 /\ eeprom.sent[2] = 0 THEN WriteLength ELSE ReadLength

(* write_bit: a write after an output phase begins the next command. A     *)
(* command begins with a 1 and ends with a 0.                              *)
WriteBit ==
  /\ ~BurstWhole
  /\ \E bit \in Bits :
       /\ eeprom.sent = <<>> => bit = 1
       /\ eeprom' = [eeprom EXCEPT
            !.output = 0, !.left = 0, !.asked = 0, !.input = <<2 * @[1] + bit, @[2] + 1>>,
            !.sent = Append(@, bit)]

(* What the sent bits mean, read from the front. *)
Number(bits) == FoldLeft(LAMBDA n, b : 2 * n + b, 0, bits)
SentBlock == Number(SubSeq(eeprom.sent, 3, 2 + eeprom.chip))
SentData == Number(SubSeq(eeprom.sent, 3 + eeprom.chip, 2 + eeprom.chip + Data))

(* read_bit: runs the command if there is one, then clocks out a bit. A    *)
(* ready chip reads 1.                                                     *)
ReadBit ==
  /\ eeprom.sent = <<>> \/ BurstWhole
  /\ LET e == IF eeprom.input[2] = 0 THEN eeprom
              ELSE [Execute(eeprom) EXCEPT !.input = <<0, 0>>]
         writes == eeprom.sent # <<>> /\ eeprom.sent[2] = 0
     IN  eeprom' = [e EXCEPT !.left = IF @ = 0 THEN 0 ELSE @ - 1, !.sent = <<>>,
                             !.asked = IF eeprom.sent # <<>> THEN SentBlock ELSE @,
                             !.cells = IF writes THEN [@ EXCEPT ![SentBlock] = SentData] ELSE @,
                             !.unsaved = @ \/ (writes /\ eeprom.cells[SentBlock] # SentData)]

(* The host saves: the file is the blocks, and load sizes the chip by it.  *)
EepromSaved ==
  /\ eeprom.dirty
  /\ eeprom' = [eeprom EXCEPT !.dirty = FALSE, !.unsaved = FALSE]

Restart ==
  /\ ~eeprom.dirty /\ eeprom.width # 0 /\ eeprom.sent = <<>>
  /\ eeprom' = [eeprom EXCEPT
       !.width = IF DOMAIN eeprom.data = Blocks(Small) THEN Small ELSE Large,
       !.input = <<0, 0>>, !.output = 0, !.left = 0]

EepromNext == WriteBit \/ ReadBit \/ EepromSaved \/ Restart

-----------------------------------------------------------------------------
EepromTypeOK ==
  /\ eeprom.width \in {0, Small, Large} /\ eeprom.left \in 0 .. Lead + Data
  /\ DOMAIN eeprom.data \in {Blocks(Small), Blocks(Large)}
  /\ eeprom.dirty \in BOOLEAN

(* A game that sends the bursts of its chip finds a memory: every block    *)
(* holds what was last written to it, the width having been inferred from  *)
(* the first burst alone, whichever command that was, and across restarts; *)
(* and a change that no file holds yet is marked dirty.                    *)
IsAMemory ==
  /\ \A b \in DOMAIN eeprom.cells :
       eeprom.cells[b] = IF b \in DOMAIN eeprom.data THEN eeprom.data[b] ELSE Blank
  /\ eeprom.left > 0 => eeprom.output = eeprom.cells[eeprom.asked]
  /\ eeprom.unsaved => eeprom.dirty
  /\ eeprom.width \in {0, eeprom.chip}
-----------------------------------------------------------------------------
Init == FlashInit /\ EepromInit
Next == (FlashNext /\ UNCHANGED eeprom) \/ (EepromNext /\ UNCHANGED flash)
Spec == Init /\ [][Next]_<<flash, eeprom>>
=============================================================================

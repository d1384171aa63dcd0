----------------------------- MODULE GbaCartridge -----------------------------
(***************************************************************************)
(* A GBA cartridge's backup across runs of the program: which chip the     *)
(* cartridge is given (cartridge/mod.rs, backup.rs), what the game writes  *)
(* to it, and the .sav and .sav.meta files a host keeps (SaveStore.swift,  *)
(* read_meta_save_type and write_save in main.rs, behind the facade's      *)
(* save calls).  A chip's bytes are a few cells, each with the write that  *)
(* it holds; a chip twice as large has twice as many.  The second part is  *)
(* the clock chip on the cartridge's pins.                                 *)
(***************************************************************************)
EXTENDS Integers, SequencesExt

CONSTANT MaxValue   (* values a game writes are 1 .. MaxValue *)

VARIABLE
  cartridge  (* [rom, chip, sav, meta, host, atomic, kept, cut]: rom, what *)
             (* the image names and the EEPROM its board has; chip, what   *)
             (* the game finds; sav and meta, the files; atomic, whether   *)
             (* the host replaces a file whole (iOS) or overwrites it in   *)
             (* place (the desktop); and history: kept, what the last      *)
             (* flush put into the save file, cut, whether a file was left *)
             (* in pieces since                                            *)

SaveTypes == {"None", "Sram", "Flash64", "Flash128", "Eeprom512", "Eeprom8k"}
Blank == 0
NoFile == <<>>

BackupSize(t) ==
  CASE t = "None" -> 0 [] t = "Sram" -> 1 [] t = "Flash64" -> 2 [] t = "Flash128" -> 4
    [] t = "Eeprom512" -> 1 [] t = "Eeprom8k" -> 2

Markers == {"EEPROM_V", "FLASH1M_V", "FLASH512_V", "SRAM_V"}

DetectSaveType(markers) ==
  CASE "EEPROM_V" \in markers -> "Eeprom512"
    [] "EEPROM_V" \notin markers /\ "FLASH1M_V" \in markers -> "Flash128"
    [] markers \cap {"EEPROM_V", "FLASH1M_V"} = {} /\ "FLASH512_V" \in markers -> "Flash64"
    [] markers = {"SRAM_V"} -> "Sram"
    [] OTHER -> "None"

IsEeprom(t) == t \in {"Eeprom512", "Eeprom8k"}
BlankCells(n) == [k \in 1 .. n |-> Blank]

(* make_backup: either EEPROM starts out as the small one.                 *)
MakeBackup(t) ==
  [type |-> t, dirty |-> FALSE,
   data |-> BlankCells(BackupSize(IF IsEeprom(t) THEN "Eeprom512" ELSE t))]

(* save_type: an EEPROM's is the size it has.                              *)
SaveType(chip) ==
  IF ~IsEeprom(chip.type) THEN chip.type
  ELSE IF Len(chip.data) > BackupSize("Eeprom512") THEN "Eeprom8k" ELSE "Eeprom512"

Fitted(bytes, n) == [k \in 1 .. n |-> IF k <= Len(bytes) THEN bytes[k] ELSE Blank]

(* Mutant: an EEPROM keeps its size when a file is loaded.                 *)
LoadFixed(chip, bytes) ==
  [chip EXCEPT !.data = Fitted(bytes, Len(chip.data)), !.dirty = FALSE]

(* Backup::load: the bytes, cut or filled to the chip; the length of an    *)
(* EEPROM's file says how large it is.                                     *)
Load(chip, bytes) ==
  LET n == IF ~IsEeprom(chip.type) THEN Len(chip.data)
           ELSE BackupSize(IF Len(bytes) > BackupSize("Eeprom512") THEN "Eeprom8k"
                           ELSE "Eeprom512")
  IN  IF chip.type = "None" THEN chip
      ELSE [chip EXCEPT !.data = Fitted(bytes, n), !.dirty = FALSE]

(* A game's write to cell k; a command of 14 address bits grows an EEPROM. *)
Grown(chip, large) ==
  IF IsEeprom(chip.type) /\ large /\ Len(chip.data) < BackupSize("Eeprom8k")
  THEN [chip EXCEPT !.data = Fitted(@, BackupSize("Eeprom8k"))] ELSE chip

Write8(chip, large, k, v) ==
  LET g == Grown(chip, large)
  IN  IF k > Len(g.data) \/ g.data[k] = v THEN g
      ELSE [g EXCEPT !.data[k] = v, !.dirty = TRUE]

(* The start of a run: load_rom, the type a sidecar names, the bytes.      *)
Started(c) ==
  LET detected == MakeBackup(DetectSaveType(c.rom.markers))
      hinted == IF c.meta = "absent" THEN detected ELSE MakeBackup(c.meta)
  IN  IF c.sav = NoFile THEN hinted ELSE Load(hinted, c.sav)

(* A player may have put a sidecar beside the image before the first run.  *)
BackupInit ==
  \E markers \in SUBSET Markers, large \in BOOLEAN, meta \in {"absent"} \cup SaveTypes,
     atomic \in BOOLEAN :
    cartridge = [rom |-> [markers |-> markers, large |-> large],
                 chip |-> MakeBackup("Sram"), sav |-> NoFile, meta |-> meta,
                 host |-> "off", atomic |-> atomic, kept |-> [type |-> "None", data |-> NoFile],
                 cut |-> FALSE]
-----------------------------------------------------------------------------
Start ==
  /\ cartridge.host = "off"
  /\ cartridge' = [cartridge EXCEPT !.chip = Started(cartridge), !.host = "on"]

GameWrites ==
  /\ cartridge.host = "on"
  /\ \E k \in 1 .. 4, v \in 1 .. MaxValue :
       cartridge' = [cartridge EXCEPT !.chip = Write8(@, cartridge.rom.large, k, v)]

(* flushIfDirty and write_save: the file, then its sidecar, then the flag. *)
(* An empty dump writes nothing.                                           *)
Flushing == cartridge.host = "on" /\ cartridge.chip.dirty /\ cartridge.chip.data # <<>>

FlushSave ==
  /\ Flushing
  /\ cartridge' = [cartridge EXCEPT !.sav = cartridge.chip.data, !.host = "saved",
                     !.kept = [type |-> SaveType(cartridge.chip), data |-> cartridge.chip.data]]

FlushMeta ==
  /\ cartridge.host = "saved"
  /\ cartridge' = [cartridge EXCEPT !.meta = SaveType(cartridge.chip), !.host = "on",
                                    !.chip.dirty = FALSE, !.cut = FALSE]

(* The sidecar cannot be written: iOS calls it best-effort and clears the  *)
(* flag all the same, the desktop's loop does not.                         *)
FlushMetaFails ==
  /\ cartridge.host = "saved"
  /\ cartridge' = [cartridge EXCEPT !.host = "on", !.chip.dirty = ~cartridge.atomic]

(* A write in place ends half-way, by an error or with the program: the    *)
(* save file has the first bytes, the sidecar no name that can be read.    *)
SaveCutShort ==
  /\ Flushing /\ ~cartridge.atomic
  /\ \E n \in 0 .. Len(cartridge.chip.data) - 1, host \in {"on", "off"} :
       cartridge' = [cartridge EXCEPT !.sav = SubSeq(cartridge.chip.data, 1, n),
                                      !.host = host, !.cut = TRUE]

MetaCutShort ==
  /\ cartridge.host = "saved" /\ ~cartridge.atomic
  /\ \E host \in {"on", "off"} :
       cartridge' = [cartridge EXCEPT !.meta = "absent", !.host = host, !.cut = TRUE]

(* The program ends or is killed, between the two files as well.           *)
Quit == cartridge.host # "off" /\ cartridge' = [cartridge EXCEPT !.host = "off"]

BackupNext ==
  \/ Start \/ GameWrites \/ FlushSave \/ FlushMeta \/ FlushMetaFails
  \/ SaveCutShort \/ MetaCutShort \/ Quit
-----------------------------------------------------------------------------
BackupTypeOK == /\ SaveType(cartridge.chip) \in SaveTypes
          /\ cartridge.meta \in {"absent"} \cup SaveTypes
          /\ cartridge.host \in {"off", "on", "saved"}

(* Every run starts from the chip and the bytes the last flush put on      *)
(* file, whatever the image names, the sidecar said before or the moment   *)
(* at which the run before ended, between the two files as well; but for   *)
(* an end inside a write of the desktop, which loses what it overwrites,   *)
(* until the next flush.                                                   *)
SaveSurvivesRestart ==
  cartridge.host # "off" /\ ~cartridge.chip.dirty /\ cartridge.sav # NoFile /\ ~cartridge.cut =>
    /\ cartridge.chip.data = cartridge.kept.data
    /\ SaveType(cartridge.chip) = cartridge.kept.type
-----------------------------------------------------------------------------
(* The clock chip on a GBA cartridge's GPIO pins (cartridge/rtc.rs) and a  *)
(* driver that talks to it bit by bit.  A register byte is a sequence of   *)
(* bits, lowest first; the bytes of the time all carry the parity of the   *)
(* second they were read at, which is what the properties tell apart.      *)
CONSTANT TimeBytes   (* bytes of the time register; 3, and 7 with the date *)

VARIABLE
  rtc  (* the chip: [sck, cs, phase, shift, reg, left, out, index, sio,    *)
       (* control, second]; the driver: [plan, level, sent, got, taken]    *)

Bytes(v) == [b \in 1 .. 8 |-> v]
Bits == {0, 1}

(* Control bytes of interest: 24-hour mode, and every bit set.             *)
Hour24 == <<0, 0, 0, 0, 0, 0, 1, 0>>
ControlBytes == {Hour24, Bytes(1)}
Writable == <<0, 1, 0, 1, 0, 1, 1, 0>>
Masked(byte) == [b \in 1 .. 8 |-> byte[b] * Writable[b]]

Registers == {"reset", "control", "time"}
Number(reg) == CASE reg = "reset" -> <<0, 0, 0>> [] reg = "control" -> <<0, 0, 1>>
                 [] reg = "time" -> <<0, 1, 1>>
Header == <<0, 1, 1, 0>>

(* The command byte as it goes over the line, highest bit first; some      *)
(* cartridges send it the other way round.                                 *)
Command(plan) ==
  LET c == Header \o Number(plan.reg) \o <<IF plan.read THEN 1 ELSE 0>>
  IN  IF plan.reversed THEN Reverse(c) ELSE c

NoPlan == [reg |-> "reset", read |-> FALSE, reversed |-> FALSE, byte |-> Hour24]
Plans == [reg : Registers, read : BOOLEAN, reversed : BOOLEAN, byte : ControlBytes]

RegisterLength(reg) == CASE reg = "control" -> 1 [] reg = "time" -> TimeBytes [] OTHER -> 0

(* read_register: taken whole when the command is decoded.                 *)
ReadRegister(c, reg) ==
  CASE reg = "control" -> c.control
    [] reg = "time" -> FlattenSeq([k \in 1 .. TimeBytes |-> Bytes(c.second)])
    [] OTHER -> <<>>

ClockInit ==
  rtc = [sck |-> 0, cs |-> 0, phase |-> "idle", shift |-> <<>>, reg |-> "reset", left |-> 0,
         out |-> <<>>, index |-> 0, sio |-> 0, control |-> Hour24, second |-> 0,
         plan |-> NoPlan,
         level |-> "idle", sent |-> 0, got |-> <<>>, taken |-> 0]

Decoded(shift) ==
  LET cmd == IF SubSeq(shift, 1, 4) = Header THEN shift ELSE Reverse(shift)
  IN  [reg |-> CHOOSE r \in Registers : Number(r) = SubSeq(cmd, 5, 7), read |-> cmd[8] = 1]

DecodeCommand(c) ==
  LET d == Decoded(c.shift)
  IN  IF d.reg = "reset"
      THEN [c EXCEPT !.reg = "reset", !.control = Bytes(0), !.phase = "idle", !.shift = <<>>]
      ELSE IF d.read
      THEN [c EXCEPT !.reg = d.reg, !.out = ReadRegister(c, d.reg), !.index = 0, !.sio = 0,
                     !.phase = "read", !.shift = <<>>, !.taken = c.second]
      ELSE [c EXCEPT !.reg = d.reg, !.left = RegisterLength(d.reg), !.shift = <<>>,
                     !.phase = "write"]

(* Mutant: output bits are presented on the rising edge with the rest.     *)
StepRising(c, sck, sio, cs) ==
  IF c.phase = "read" /\ sck = 1 /\ c.sck = 0
  THEN [c EXCEPT !.sck = 1, !.cs = cs, !.phase = IF cs = 0 THEN "idle" ELSE @,
                 !.sio = IF c.index < Len(c.out) THEN c.out[c.index + 1] ELSE 0,
                 !.index = @ + 1]
  ELSE [c EXCEPT !.sck = sck, !.cs = cs]

StoreByte(c) == IF c.reg = "control" THEN [c EXCEPT !.control = Masked(c.shift)] ELSE c

(* step: chip select frames a command; bits go in on the rising edge and   *)
(* come out on the falling one.                                            *)
Step(c, sck, sio, cs) ==
  LET f == [c EXCEPT !.cs = cs, !.sck = sck,
                     !.phase = IF cs = 0 THEN "idle" ELSE IF c.cs = 0 THEN "command" ELSE @,
                     !.shift = IF cs = 1 /\ c.cs = 0 THEN <<>> ELSE @]
      rising == sck = 1 /\ c.sck = 0
      falling == sck = 0 /\ c.sck = 1
      in == [f EXCEPT !.shift = Append(@, sio)]
      stored == [StoreByte(in) EXCEPT !.shift = <<>>, !.left = @ - 1]
  IN  CASE f.phase = "command" /\ rising ->
             IF Len(in.shift) = 8 THEN DecodeCommand(in) ELSE in
        [] f.phase = "write" /\ rising ->
             IF Len(in.shift) < 8 THEN in
             ELSE IF stored.left = 0 THEN [stored EXCEPT !.phase = "idle"] ELSE stored
        [] f.phase = "read" /\ falling ->
             [f EXCEPT !.sio = IF f.index < Len(f.out) THEN f.out[f.index + 1] ELSE 0,
                       !.index = @ + 1]
        [] OTHER -> f
-----------------------------------------------------------------------------
(* The driver: the clock high, then select, then for every bit the clock low with the bit, and  *)
(* high; a bit it reads it samples while the clock is high.  It may give up*)
(* at any point by lowering the select line.                               *)
Params(plan) == 8 * RegisterLength(plan.reg)

BitToSend(r) ==
  LET k == r.sent + 1
  IN  IF k <= 8 THEN Command(r.plan)[k]
      ELSE IF r.plan.read THEN 0 ELSE r.plan.byte[1 + ((k - 9) % 8)]

Select ==
  /\ rtc.level = "idle"
  /\ \E plan \in Plans :
       /\ plan.read => plan.byte = Hour24
       /\ rtc' = Step(Step([rtc EXCEPT !.plan = plan, !.sent = 0, !.got = <<>>, !.level = "low"],
                            1, 0, 0), 1, 0, 1)

ClockLow ==
  /\ rtc.level = "low" /\ rtc.sent < 8 + Params(rtc.plan)
  /\ rtc' = [Step(rtc, 0, BitToSend(rtc), 1) EXCEPT !.level = "high"]

ClockHigh ==
  /\ rtc.level = "high"
  /\ LET s == Step(rtc, 1, BitToSend(rtc), 1)
     IN  rtc' = [s EXCEPT !.level = "low", !.sent = @ + 1,
                          !.got = IF rtc.plan.read /\ rtc.sent >= 8 THEN Append(@, s.sio) ELSE @]

Complete(r) == r.sent = 8 + Params(r.plan)

(* The output of an ended read is overwritten before it is used again.     *)
Forgotten(r) ==
  [r EXCEPT !.level = "idle", !.plan = NoPlan, !.sent = 0, !.got = <<>>, !.out = <<>>,
            !.index = 0, !.taken = 0, !.second = 0]

Release ==
  /\ rtc.level = "low"
  /\ rtc' = IF Complete(rtc) THEN [Step(rtc, 1, 0, 0) EXCEPT !.level = "done"]
            ELSE Forgotten(Step(rtc, 1, 0, 0))

Rest == rtc.level = "done" /\ rtc' = Forgotten(rtc)

Second == rtc.plan.reg = "time" /\ rtc' = [rtc EXCEPT !.second = 1 - @]

ClockNext == Select \/ ClockLow \/ ClockHigh \/ Release \/ Rest \/ Second
-----------------------------------------------------------------------------
ClockTypeOK == /\ rtc.phase \in {"idle", "command", "read", "write"}
          /\ rtc.control \in [1 .. 8 -> Bits] /\ rtc.sio \in Bits
          /\ Len(rtc.shift) < 8

(* A driver that goes through with its command reads the register's bytes  *)
(* in order, all of one second however long the line is busy, and writes   *)
(* the bits of the control register it may write; one that gives up leaves *)
(* no half-written byte behind, and the next command starts clean.         *)
CommandsAreWhole ==
  /\ rtc.level = "done" =>
       /\ rtc.plan.read /\ rtc.plan.reg = "time" =>
            rtc.got = FlattenSeq([k \in 1 .. TimeBytes |-> Bytes(rtc.taken)])
       /\ rtc.plan.read /\ rtc.plan.reg = "control" => rtc.got = rtc.control
       /\ ~rtc.plan.read /\ rtc.plan.reg = "control" => rtc.control = Masked(rtc.plan.byte)
       /\ rtc.plan.reg = "reset" => rtc.control = Bytes(0)
  /\ rtc.control \in {Bytes(0)} \cup {Masked(byte) : byte \in ControlBytes}
-----------------------------------------------------------------------------
Init == BackupInit /\ ClockInit
Next == (BackupNext /\ UNCHANGED rtc) \/ (ClockNext /\ UNCHANGED cartridge)
Spec == Init /\ [][Next]_<<cartridge, rtc>>
=============================================================================

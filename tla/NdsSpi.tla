------------------------------- MODULE NdsSpi -------------------------------
(***************************************************************************)
(* The SPI bus of the ARM7 and its three devices (nds/src/spi.rs), byte by *)
(* byte.  They share one chip select, and with it one unfinished command.  *)
(* The program sends transactions of a device, whole or broken off by      *)
(* disabling the bus.  The clock chip, which hangs on pins of its own, is   *)
(* the second part.                                                        *)
(***************************************************************************)
EXTENDS Integers, SequencesExt

CONSTANTS
  Size,      (* cells of the firmware flash, a power of 2 up to 256 *)
  Registers, (* of the power chip: 8 in the code *)
  Bytes,     (* data a program writes *)
  Pixels     (* <<x, y>> of the lower screen where the pen goes down *)

VARIABLE
  spi  (* [on, device, hold, command, address, phase, wel, flash, pmic, index, *)
       (*  reading, fresh, pen, at, output, plan, sent, got, before]           *)

READ == 3
WREN == 6
WRDI == 4
RDSR == 5
PROGRAM == 2
Lifted == <<>>
Cells == 0 .. Size - 1

(* firmware.rs: the calibration of a direct boot's settings and its use.   *)
Calibration == <<[adc1 |-> 512, scr1 |-> 32, adc2 |-> 3584, scr2 |-> 224],
                 [adc1 |-> 512, scr1 |-> 32, adc2 |-> 3584, scr2 |-> 144]>>
Trunc(a, b) == IF a < 0 THEN -((-a) \div b) ELSE a \div b
Clamp(v) == IF v < 0 THEN 0 ELSE IF v > 4095 THEN 4095 ELSE v
Adc(c, v) == Clamp(c.adc1 + Trunc((v - c.scr1) * (c.adc2 - c.adc1), c.scr2 - c.scr1))
TouchAdc(pixel) == [axis \in 1 .. 2 |-> Adc(Calibration[axis], pixel[axis])]

SpiInit ==
  \E flash \in [Cells -> Bytes] :
    spi = [on |-> FALSE, device |-> "power", hold |-> FALSE, command |-> 0, address |-> 0,
           phase |-> 0, wel |-> FALSE, flash |-> flash, pmic |-> [r \in 0 .. Registers - 1 |-> 0],
           index |-> 0, reading |-> FALSE, fresh |-> TRUE, pen |-> Lifted, at |-> Lifted,
           output |-> 0, plan |-> <<>>, sent |-> <<>>, got |-> <<>>, before |-> <<>>]

Programming(s) == s.command = PROGRAM

(* Mutant: the release forgets the command byte of the power chip.         *)
DeselectKeepsFresh(s) ==
  [s EXCEPT !.command = 0, !.address = 0, !.phase = 0,
            !.wel = @ /\ ~(Programming(s) /\ s.phase >= 3)]

Deselect(s) ==
  [s EXCEPT !.command = 0, !.address = 0, !.phase = 0, !.fresh = TRUE,
            !.wel = @ /\ ~(Programming(s) /\ s.phase >= 3)]

(* The transfers: the new state and the byte clocked in.                   *)
Reply(s, byte) == [s EXCEPT !.got = Append(@, byte)]

PowerTransfer(s, value) ==
  IF s.fresh
  THEN Reply([s EXCEPT !.reading = value >= 128, !.index = value % 128, !.fresh = FALSE], 0)
  ELSE LET r == s.index % Registers
           t == [s EXCEPT !.index = @ + 1]
       IN  IF s.reading THEN Reply(t, s.pmic[r]) ELSE Reply([t EXCEPT !.pmic[r] = value], 0)

(* A control byte samples the pen; the result leaves high bits first.      *)
Position(s, channel) ==
  CASE s.pen = Lifted -> 0
    [] channel = 1 -> s.pen[2]
    [] channel = 5 -> s.pen[1]
    [] OTHER -> 0

TouchTransfer(s, value) ==
  IF value >= 128
  THEN Reply([s EXCEPT !.output = Position(s, (value \div 16) % 8) * 8], 0)
  ELSE Reply([s EXCEPT !.output = (@ * 256) % 65536], s.output \div 256)

(* The address of three bytes reaches the cells of the flash by its last.  *)
Cell(s) == s.address % Size
AddressByte(s, value) == Reply([s EXCEPT !.address = value, !.phase = @ + 1], 0)
Past(s) == [s EXCEPT !.address = @ + 1]

FirmwareTransfer(s, value) ==
  CASE s.command = 0 ->
         Reply([s EXCEPT !.command = value, !.phase = 0,
                         !.wel = IF value \in {WREN, WRDI} THEN value = WREN ELSE @], 0)
    [] s.command \in {READ, PROGRAM} /\ s.phase < 3 -> AddressByte(s, value)
    [] s.command = READ -> Reply(Past(s), s.flash[Cell(s)])
    [] Programming(s) -> Reply(IF s.wel THEN Past([s EXCEPT !.flash[Cell(s)] = value]) ELSE s, 0)
    [] s.command = RDSR -> Reply(s, IF s.wel THEN 2 ELSE 0)
    [] OTHER -> Reply(s, 0)

WriteCnt(s, on, device, hold) ==
  LET t == [s EXCEPT !.on = on, !.device = device, !.hold = hold]
  IN  IF on THEN t ELSE Deselect(t)

WriteData(s, value) ==
  LET t == CASE s.device = "flash" -> FirmwareTransfer(s, value)
             [] s.device = "power" -> PowerTransfer(s, value)
             [] OTHER -> TouchTransfer(s, value)
  IN  IF ~s.on THEN s ELSE IF s.hold THEN t ELSE Deselect(t)
-----------------------------------------------------------------------------
Stored == SetToSeqs(Bytes)     (* each byte once, in any order *)
Lists ==
  [flash |-> {<<WREN>>, <<WRDI>>, <<RDSR, 0>>} \cup {<<READ, 0, 0, a, 0, 0>> : a \in Cells}
               \cup {<<PROGRAM, 0, 0, a>> \o data : a \in Cells, data \in Stored},
   power |-> {<<128 + r, 0, 0>> : r \in 0 .. Registers - 1}
               \cup {<<r>> \o data : r \in 0 .. Registers - 1, data \in Stored},
   touch |-> {<<128 + 16 * channel, 0, 0>> : channel \in {1, 5}}]
Devices == DOMAIN Lists

Start ==
  \E device \in Devices : \E list \in Lists[device] :
    /\ spi.plan = <<>>
    /\ spi' = [WriteCnt(spi, TRUE, device, TRUE) EXCEPT
                 !.plan = list, !.sent = <<>>, !.got = <<>>,
                 !.before = <<spi.flash, spi.wel, spi.pmic>>]

(* The hold is taken off before the last byte.                             *)
SendByte ==
  /\ spi.plan # <<>>
  /\ LET s == WriteCnt(spi, TRUE, spi.device, Len(spi.plan) > 1)
         first == spi.sent = <<>> /\ spi.device = "touch"
     IN  spi' = [WriteData(s, Head(spi.plan)) EXCEPT
                   !.plan = Tail(@), !.sent = Append(@, Head(spi.plan)),
                   !.at = IF first THEN spi.pen ELSE @]

BreakOff ==
  spi.plan # <<>> /\ spi.sent # <<>> /\ spi' = [WriteCnt(spi, FALSE, spi.device, FALSE) EXCEPT !.plan = <<>>]

(* The host moves the pen or lifts it, whatever the bus is doing.          *)
SetTouch ==
  \E pen \in {TouchAdc(p) : p \in Pixels} \cup {Lifted} :
    pen # spi.pen /\ spi' = [spi EXCEPT !.pen = pen]

SpiNext == Start \/ SendByte \/ BreakOff \/ SetTouch
-----------------------------------------------------------------------------
Idle == spi.plan = <<>> /\ spi.sent # <<>>
SpiTypeOK == spi.phase \in 0 .. 3 /\ Len(spi.got) = Len(spi.sent)

(* A transaction does, whatever came before it on the bus and however much *)
(* of it came, what its own bytes say to the device's memory as it found   *)
(* it: a program what follows its address, if the latch was set; a read    *)
(* the cells from its address on; the pen where it was at the control byte.*)
Data(k) == SubSeq(spi.sent, k + 1, Len(spi.sent))
Filled(mem, size, a, data) ==
  [c \in 0 .. size - 1 |-> FoldLeftDomain(LAMBDA v, i : IF (a + i - 1) % size = c THEN data[i] ELSE v, mem[c], data)]
Taken(mem, size, a, k) ==
  \A i \in k + 1 .. Len(spi.got) : spi.got[i] = mem[(a + i - k - 1) % size]

TransactionsAreWhole ==
  Idle =>
    LET flash == spi.before[1]
        latch == spi.before[2]
        pmic == spi.before[3]
        c == spi.sent[1]
        n == Len(spi.sent)
        programs == spi.device = "flash" /\ c = PROGRAM
    IN  /\ spi.flash = IF programs /\ latch /\ n > 4 THEN Filled(flash, Size, spi.sent[4], Data(4)) ELSE flash
        /\ spi.wel = IF spi.device # "flash" THEN latch
                     ELSE c = WREN \/ (latch /\ c # WRDI /\ ~(programs /\ n >= 4))
        /\ spi.pmic = IF spi.device = "power" /\ c < 128 THEN Filled(pmic, Registers, c, Data(1)) ELSE pmic
        /\ spi.device = "flash" /\ c = READ /\ n > 4 => Taken(flash, Size, spi.sent[4], 4)
        /\ spi.device = "flash" /\ c = RDSR /\ n > 1 => spi.got[2] = IF latch THEN 2 ELSE 0
        /\ spi.device = "power" /\ c >= 128 => Taken(pmic, Registers, c - 128, 1)
        /\ spi.device = "touch" /\ n = 3 =>
             spi.got[2] * 32 + spi.got[3] \div 8 = IF spi.at = Lifted THEN 0 ELSE spi.at[IF c = 144 THEN 2 ELSE 1]
-----------------------------------------------------------------------------
(* The DS's clock chip (nds/rtc.rs): the calendar the one-second event     *)
(* advances, and the serial transfers that read and set it, a byte at a    *)
(* time.  The date is held against the GBA chip's civil_from_days          *)
(* (gba/cartridge/rtc.rs), which computes it from the days since 1970.     *)
(* A day has Hours hours, the afternoon from Noon on, and an hour one      *)
(* second: minutes and seconds carry like hours do.                        *)
CONSTANTS
  Hours, Noon,          (* 24 and 12                                       *)
  FirstDay, LastDay,    (* days since 1970 that the model counts           *)
  MaxTicks,             (* seconds that may pass within one transfer       *)
  Modes                 (* hour modes a game sets: 12 and 24               *)

VARIABLE
  clock  (* [datetime, mode, transfer], and history: day, hour; of a       *)
         (* transfer, the register as the command found it and the ticks   *)

Bcd(v) == <<v \div 10, v % 10>>
FromBcd(b) == 10 * b[1] + b[2]

(* civil_from_days and the weekday of datetime_bcd.                        *)
CivilFromDays(days) ==
  LET z == days + 719468
      era == z \div 146097
      doe == z % 146097
      yoe == (doe - (doe \div 1460) + (doe \div 36524) - (doe \div 146096)) \div 365
      doy == doe - (365 * yoe + (yoe \div 4) - (yoe \div 100))
      mp == (5 * doy + 2) \div 153
      month == IF mp < 10 THEN mp + 3 ELSE mp - 9
      year == yoe + era * 400 + (IF month <= 2 THEN 1 ELSE 0)
  IN  <<year % 100, month, doy - ((153 * mp + 2) \div 5) + 1>>

Weekday(days) == (days + 4) % 7

(* set_datetime, from the host's clock.                                    *)
HourField(hour24, mode) ==
  [bcd |-> IF mode = 24 THEN Bcd(hour24) ELSE Bcd(hour24 % Noon), pm |-> hour24 >= Noon]

SetDatetime(days, hour) ==
  LET c == CivilFromDays(days)
  IN  [year |-> Bcd(c[1]), month |-> Bcd(c[2]), day |-> Bcd(c[3]), weekday |-> Weekday(days),
       hour |-> [bcd |-> Bcd(hour), pm |-> hour >= Noon]]

NoTransfer == [at |-> "idle", bytes |-> <<>>, taken |-> <<>>, whole |-> <<>>, ticks |-> 0]

ClockInit == clock = [datetime |-> SetDatetime(FirstDay, 0), mode |-> 24, day |-> FirstDay, hour |-> 0,
                 transfer |-> NoTransfer]

DaysInMonth(month, year) ==
  CASE month = 2 -> IF year % 4 = 0 THEN 29 ELSE 28
    [] month \in {4, 6, 9, 11} -> 30
    [] OTHER -> 31

(* Mutant: the month turns over on its last day.                           *)
NextDayEarly(t) ==
  LET year == FromBcd(t.year)  month == FromBcd(t.month)  day == FromBcd(t.day) + 1
      turns == day >= DaysInMonth(month, year)
  IN  [t EXCEPT !.weekday = (@ + 1) % 7, !.day = Bcd(IF turns THEN 1 ELSE day),
                !.month = Bcd(IF turns THEN (month % 12) + 1 ELSE month),
                !.year = Bcd(IF turns /\ month = 12 THEN (year + 1) % 100 ELSE year)]

NextDay(t) ==
  LET year == FromBcd(t.year)  month == FromBcd(t.month)  day == FromBcd(t.day) + 1
      turns == day > DaysInMonth(month, year)
  IN  [t EXCEPT !.weekday = (@ + 1) % 7, !.day = Bcd(IF turns THEN 1 ELSE day),
                !.month = Bcd(IF turns THEN (month % 12) + 1 ELSE month),
                !.year = Bcd(IF turns /\ month = 12 THEN (year + 1) % 100 ELSE year)]

(* tick_second, the carry into the hour and the day.                       *)
TickSecond(t, mode) ==
  LET hour24 == (FromBcd(t.hour.bcd) + 1) % Hours
      h == [t EXCEPT !.hour = HourField(hour24, mode)]
  IN  IF hour24 # 0 THEN h ELSE NextDay(h)

RegisterBytes(t) == <<t.year, t.month, t.day, t.weekday, t.hour>>
-----------------------------------------------------------------------------
Tick ==
  /\ ~(clock.day = LastDay /\ clock.hour = Hours - 1)
  /\ clock.transfer.ticks < MaxTicks
  /\ clock' = [clock EXCEPT !.datetime = TickSecond(@, clock.mode),
                            !.transfer.ticks = IF clock.transfer.at = "idle" THEN 0 ELSE @ + 1,
                            !.hour = (@ + 1) % Hours,
                            !.day = IF clock.hour = Hours - 1 THEN @ + 1 ELSE @]

(* A read command takes the register's bytes when its last bit is in; they *)
(* go out one by one, and lowering the select line ends the transfer.      *)
ReadCommand ==
  /\ clock.transfer.at = "idle"
  /\ clock' = [clock EXCEPT !.transfer = [NoTransfer EXCEPT !.at = "read",
                              !.bytes = RegisterBytes(clock.datetime), !.whole = RegisterBytes(clock.datetime)]]

ReadByte ==
  /\ clock.transfer.at = "read" /\ clock.transfer.bytes # <<>>
  /\ clock' = [clock EXCEPT !.transfer.bytes = Tail(@),
                            !.transfer.taken = Append(@, Head(clock.transfer.bytes))]

(* A write is collected, and applied when the line is lowered.             *)
WriteCommand ==
  /\ clock.transfer.at = "idle"
  /\ \E mode \in Modes \ {clock.mode} :
       clock' = [clock EXCEPT !.transfer = [NoTransfer EXCEPT !.at = "write", !.bytes = <<mode>>]]

WriteByte ==
  /\ clock.transfer.at = "write" /\ clock.transfer.bytes # <<>>
  /\ clock' = [clock EXCEPT !.transfer.taken = clock.transfer.bytes, !.transfer.bytes = <<>>]

Applied(c) ==
  IF c.transfer.at = "write" /\ c.transfer.taken # <<>>
  THEN [c EXCEPT !.mode = c.transfer.taken[1]] ELSE c

Release ==
  /\ clock.transfer.at # "idle"
  /\ clock' = [Applied(clock) EXCEPT !.transfer = NoTransfer]

ClockNext == Tick \/ ReadCommand \/ ReadByte \/ WriteCommand \/ WriteByte \/ Release
-----------------------------------------------------------------------------
ClockTypeOK == clock.mode \in {12, 24} /\ clock.transfer.at \in {"idle", "read", "write"}

(* The calendar that is counted second by second is the one that is        *)
(* computed from the days since 1970, leap years and month ends included,  *)
(* and a game reads all of it as it was at one moment.                     *)
CalendarsAgree ==
  /\ clock.datetime = SetDatetime(clock.day, clock.hour)
  /\ Len(clock.transfer.taken) = 5 => clock.transfer.taken = clock.transfer.whole

(* In either mode the half of the day is the hour's: the comment on        *)
(* tick_second says that the flag stays correct across noon and midnight.  *)
HalfOfDayKept == clock.datetime.hour.pm = (clock.hour >= Noon)
-----------------------------------------------------------------------------
Init == SpiInit /\ ClockInit
Next == (SpiNext /\ UNCHANGED clock) \/ (ClockNext /\ UNCHANGED spi)
Spec == Init /\ [][Next]_<<spi, clock>>
=============================================================================

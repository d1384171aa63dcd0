-------------------------------- MODULE GbaDma --------------------------------
(***************************************************************************)
(* The GBA's DMA channel (dma.rs, and the run_*, trigger_* methods of      *)
(* bus.rs) beside the display whose lines start it (ppu/timing.rs, the PPU *)
(* half of Gba::handle in machine.rs).  Addresses count units.  Lines and  *)
(* VBlankLine scale the 228 lines and line 160; capture starts at line 2   *)
(* and ends two lines into the blank, as in the code.                      *)
(***************************************************************************)
EXTENDS Integers, Sequences

CONSTANTS
  Lines, VBlankLine,   (* the display's lines, and the first of the blank  *)
  Counts,              (* values a program writes to the count register    *)
  Starts,              (* values it writes to the address registers        *)
  MaxRuns              (* transfers of one arming that are followed        *)

VARIABLE
  dma  (* [line, hblank, irqs, id, reg, control, internal, enabled,        *)
       (*  pending, start, runs, moved, due]: irqs are the last step's, the*)
       (*  last four are history                                           *)

Timings == {"Immediate", "VBlank", "HBlank", "Special"}
Steps == {1, -1}
Registers == {[source |-> a, dest |-> a, count |-> n] : a \in Starts, n \in Counts}
Controls == [enable : BOOLEAN, timing : Timings, repeat : BOOLEAN,
             from : Steps, to : Steps, reloads : BOOLEAN]

(* Destination control 3 increments, and starts over on a repeat.          *)
Off == [enable |-> FALSE, timing |-> "Immediate", repeat |-> FALSE,
        from |-> 1, to |-> 1, reloads |-> FALSE]
Jobs == {c \in Controls : c.enable /\ (c.reloads => c.to = 1)}
Writable == Jobs \cup {Off}

Init ==
  \E id \in {0, 3}, r \in Registers :
    dma = [line |-> 0, hblank |-> FALSE, irqs |-> {}, id |-> id, reg |-> r, control |-> Off,
           internal |-> r, enabled |-> FALSE, pending |-> FALSE,
           start |-> r, runs |-> 0, moved |-> 0, due |-> 0]

(* A step of 0 is left out: it is a place kept trivially.                  *)

(* write_control: an enable edge latches the registers; the rest of the    *)
(* word takes effect at once.                                              *)
WriteControl(d, c) ==
  LET edge == c.enable /\ ~d.enabled
  IN  [d EXCEPT !.control = c, !.enabled = c.enable,
                !.internal = IF edge THEN d.reg ELSE @,
                !.pending = @ \/ (edge /\ c.timing = "Immediate"),
                !.start = IF edge THEN d.reg ELSE @,
                !.runs = IF edge = c.enable THEN 0 ELSE @,
                !.moved = IF edge = c.enable THEN 0 ELSE @,
                !.due = IF edge = c.enable THEN (IF edge /\ c.timing = "Immediate" THEN 1 ELSE 0) ELSE @]

Repeats(d) == d.control.repeat /\ d.control.timing # "Immediate"

(* Mutant: a repeat starts the source over with the count.                 *)
RunChannelRewinds(d) ==
  [d EXCEPT !.runs = @ + 1, !.moved = @ + d.internal.count,
            !.internal = [source |-> d.reg.source,
                          dest |-> d.internal.dest + d.control.to * d.internal.count,
                          count |-> IF Repeats(d) THEN d.reg.count ELSE d.internal.count],
            !.enabled = Repeats(d), !.control.enable = Repeats(d)]

(* run_dma_channel: the whole block at once, then the pointers of a repeat *)
(* or the end of the job.                                                  *)
RunChannel(d) ==
  LET n == d.internal.count
      dest == d.internal.dest + d.control.to * n
  IN  [d EXCEPT
         !.runs = @ + 1, !.moved = @ + n,
         !.internal = [source |-> d.internal.source + d.control.from * n,
                       dest |-> IF Repeats(d) /\ d.control.reloads THEN d.reg.dest ELSE dest,
                       count |-> IF Repeats(d) THEN d.reg.count ELSE n],
         !.start.dest = IF Repeats(d) /\ d.control.reloads THEN d.reg.dest ELSE @,
         !.enabled = Repeats(d), !.control.enable = @ /\ Repeats(d),
         !.irqs = @ \cup {"Dma"}]

RunPending(d) == IF d.pending THEN RunChannel([d EXCEPT !.pending = FALSE]) ELSE d

Trigger(d, timing) == IF d.enabled /\ d.control.timing = timing THEN RunChannel(d) ELSE d

(* trigger_video_capture, which is the third channel's.                    *)
VideoCapture(d) ==
  IF d.id # 3 \/ ~(d.enabled /\ d.control.timing = "Special") THEN d
  ELSE IF d.line = VBlankLine + 2
       THEN [d EXCEPT !.enabled = FALSE, !.control.enable = FALSE]
  ELSE IF d.line \in 2 .. VBlankLine + 1 THEN RunChannel(d)
  ELSE d

(* on_hblank and on_line_start, with what Gba::handle runs after them.     *)
Raise(d, source) == [d EXCEPT !.irqs = @ \cup {source}]

HBlanked(d) ==
  LET h == Raise([d EXCEPT !.hblank = TRUE], "HBlank")
  IN  VideoCapture(IF h.line < VBlankLine THEN Trigger(h, "HBlank") ELSE h)

LineStarted(d) ==
  LET l == (d.line + 1) % Lines
      s == [d EXCEPT !.line = l, !.hblank = FALSE]
  IN  IF l = VBlankLine THEN Trigger(Raise(s, "VBlank"), "VBlank") ELSE s

(* What the job is for, line by line (history): the transfers that its     *)
(* timing asks for while it is on.                                         *)
Wanted(d, line, hblank) ==
  LET c == d.control
  IN  IF d.enabled /\ \/ c.timing = "HBlank" /\ hblank /\ line < VBlankLine
                      \/ c.timing = "VBlank" /\ ~hblank /\ line = VBlankLine
                      \/ c.timing = "Special" /\ d.id = 3 /\ hblank /\ line \in 2 .. VBlankLine + 1
      THEN [d EXCEPT !.due = @ + 1] ELSE d
-----------------------------------------------------------------------------
(* A program that leaves the shape of a running job alone, or turns it off;*)
(* the address and count registers it writes whenever it likes.            *)
WriteRegister ==
  \E r \in Registers : dma' = [dma EXCEPT !.reg = r, !.irqs = {}]

Control ==
  \E c \in Writable :
    /\ dma.enabled /\ c.enable => c = dma.control
    /\ dma' = RunPending(WriteControl([dma EXCEPT !.irqs = {}], c))

HBlank ==
  /\ ~dma.hblank /\ dma.runs < MaxRuns
  /\ dma' = HBlanked(Wanted([dma EXCEPT !.irqs = {}], dma.line, TRUE))

LineStart ==
  /\ dma.hblank /\ dma.runs < MaxRuns
  /\ dma' = LineStarted(Wanted([dma EXCEPT !.irqs = {}], (dma.line + 1) % Lines, FALSE))

Next == WriteRegister \/ Control \/ HBlank \/ LineStart
Spec == Init /\ [][Next]_dma
-----------------------------------------------------------------------------
TypeOK ==
  /\ dma.line \in 0 .. Lines - 1 /\ dma.hblank \in BOOLEAN
  /\ dma.control \in Controls /\ dma.reg \in Registers
  /\ dma.irqs \subseteq {"HBlank", "VBlank", "Dma"} /\ ~dma.pending

(* A job runs once for every line its timing names and, without a repeat,  *)
(* once in all; whatever the program does to the registers meanwhile, the  *)
(* source goes on from the last unit that was read, and so does the        *)
(* destination unless it is to start over.  The enable bit a program reads *)
(* back tells whether the channel will run again.                          *)
JobKeepsItsPlace ==
  /\ dma.enabled = dma.control.enable
  /\ dma.runs = dma.due
  /\ dma.enabled /\ ~Repeats(dma) => dma.runs = 0
  /\ dma.enabled =>
       /\ dma.internal.source = dma.start.source + dma.control.from * dma.moved
       /\ dma.internal.dest = dma.start.dest
                              + (IF dma.control.reloads THEN 0 ELSE dma.control.to * dma.moved)
=============================================================================

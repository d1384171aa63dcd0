------------------------------ MODULE NdsFrame ------------------------------
(***************************************************************************)
(* A frame of the DS: the scanline events of its video unit (nds/src/      *)
(* ppu.rs) under the handler of nds/src/system.rs, with the 3D engine's    *)
(* sealed and rendered frames (gpu3d/src/lib.rs), and the DMA channels     *)
(* that wait for a blank (nds/src/dma.rs).                                 *)
(***************************************************************************)
EXTENDS Integers, FiniteSets

CONSTANTS
  Lines,      (* scanlines of a frame: 263 in the code *)
  Height,     (* the visible ones: 192 *)
  Matches,    (* V-count settings a program tries *)
  Counts,     (* lengths of a transfer *)
  Steps,      (* source steps: of -1, 0, 1 *)
  MaxFrames,  (* bound: frames *)
  MaxWrites   (* bound: register writes, swaps included *)

VARIABLES
  frame,  (* [line, half, count, dispstat, raised, power, mode, with3d,    *)
          (*  sealed, rendered, screens, writes]: half, that the line is   *)
          (*  in its H-blank; raised, what the last event asked of each    *)
          (*  core; and (history) due, the sealed frame as V-blank began   *)
  blank   (* [line, half, count, ch, writes]: the timeline and a channel   *)
          (*  of each core                                                 *)

Cores == {"arm9", "arm7"}
Started == [line |-> 0, half |-> FALSE, count |-> 0]

(* on LineStart: the next line; V-blank begins with line Height.           *)
NextLine(t) == (t.line + 1) % Lines
Turned(t) ==
  [t EXCEPT !.line = NextLine(t), !.half = FALSE,
            !.count = IF NextLine(t) = Height THEN @ + 1 ELSE @]
EntersBlank(t) == NextLine(t) = Height
MayTurn(t) == t.half /\ t.count + (IF EntersBlank(t) THEN 1 ELSE 0) <= MaxFrames
Visible(t) == t.line < Height
-----------------------------------------------------------------------------
Off == [vblank |-> FALSE, hblank |-> FALSE, vcount |-> FALSE, setting |-> 0]
NoFrame == -1
Black == [kind |-> "black", three |-> NoFrame]
Engines == {"a", "b"}

FrameInit ==
  frame = [line |-> 0, half |-> FALSE, count |-> 0, dispstat |-> [c \in Cores |-> Off],
           raised |-> [c \in Cores |-> {}], power |-> [lcds |-> TRUE, a |-> TRUE, b |-> TRUE],
           mode |-> [e \in Engines |-> "off"], with3d |-> FALSE, sealed |-> 0, rendered |-> 0,
           screens |-> [e \in Engines |-> Black], writes |-> 0, due |-> 0]

(* Each event first renders a 3D frame that was sealed since the last one. *)
RenderFrame(f) == [f EXCEPT !.rendered = f.sealed]

(* An engine's picture by its display mode; the bitmap of a VRAM block is  *)
(* the main engine's alone, and only it has the 3D engine for its BG0.     *)
Picture(f, e) ==
  CASE f.mode[e] = "graphics" ->
         [kind |-> "graphics", three |-> IF e = "a" /\ f.with3d THEN f.rendered ELSE NoFrame]
    [] f.mode[e] = "vram" /\ e = "a" -> [kind |-> "vram", three |-> NoFrame]
    [] OTHER -> Black
Powered(f, e) == f.power.lcds /\ f.power[e]
Screens(f) == [e \in Engines |-> IF Powered(f, e) THEN Picture(f, e) ELSE Black]

HandleLineStart(f) ==
  LET t == Turned(RenderFrame(f))
  IN  IF EntersBlank(f) THEN [t EXCEPT !.screens = Screens(t), !.due = t.sealed] ELSE t

LineStart ==
  /\ MayTurn(frame)
  /\ LET f == HandleLineStart(frame)
         asked(d) == {i \in {"vblank", "vcount"} :
                        d[i] /\ IF i = "vblank" THEN EntersBlank(frame) ELSE f.line = d.setting}
     IN  frame' = [f EXCEPT !.raised = [c \in Cores |-> asked(f.dispstat[c])]]

HBlank ==
  /\ ~frame.half
  /\ frame' = [RenderFrame(frame) EXCEPT
                 !.half = TRUE,
                 !.raised = [c \in Cores |-> IF frame.dispstat[c].hblank THEN {"hblank"} ELSE {}]]

Written == frame.writes < MaxWrites
Write(f) == frame' = [f EXCEPT !.writes = @ + 1]

WriteDispstat ==
  \E c \in Cores, on \in SUBSET {"vblank", "hblank", "vcount"}, setting \in Matches :
    /\ Written
    /\ Write([frame EXCEPT !.dispstat[c] =
                [vblank |-> "vblank" \in on, hblank |-> "hblank" \in on, vcount |-> "vcount" \in on,
                 setting |-> setting]])
WriteDispcnt ==
  \E e \in Engines, mode \in {"off", "graphics", "vram"}, with3d \in BOOLEAN :
    /\ Written
    /\ Write([frame EXCEPT !.mode[e] = mode, !.with3d = IF e = "a" THEN with3d ELSE @])
SetPowcnt == \E bit \in {"lcds", "a", "b"} : Written /\ Write([frame EXCEPT !.power[bit] = ~@])

(* SwapBuffers seals what was built since the last one.                    *)
Swap == Written /\ Write([frame EXCEPT !.sealed = @ + 1])

FrameNext == LineStart \/ HBlank \/ WriteDispstat \/ WriteDispcnt \/ SetPowcnt \/ Swap
-----------------------------------------------------------------------------
Timings(c) == IF c = "arm9" THEN {"immediate", "vblank", "hblank", "gxfifo"} ELSE {"immediate", "vblank"}
NoJob == [on |-> FALSE, timing |-> "immediate", repeat |-> FALSE, reload |-> FALSE, step |-> 1,
          count |-> 1, source |-> 0, dest |-> 0, left |-> 0, ran |-> 0, clean |-> FALSE,
          armed |-> 0]

BlankInit ==
  blank = [line |-> 0, half |-> FALSE, count |-> 0, ch |-> [c \in Cores |-> NoJob], writes |-> 0]

(* complete: the source goes on where it stopped, the destination too or   *)
(* from its register; the base registers are 0 here.                       *)
Completed(ch, source, dest) ==
  LET moved == [ch EXCEPT !.source = source, !.dest = dest, !.ran = @ + 1]
  IN  IF ch.repeat /\ ch.timing # "immediate"
      THEN [moved EXCEPT !.left = ch.count, !.dest = IF ch.reload THEN 0 ELSE dest]
      ELSE [moved EXCEPT !.on = FALSE]
RunChannel(ch) ==
  Completed(ch, ch.source + ch.step * ch.left, IF ch.timing = "gxfifo" THEN ch.dest ELSE ch.dest + ch.left)

(* The periods a channel may have waited for, by the timeline.             *)
Periods(t, timing) ==
  CASE timing = "vblank" -> t.count
    [] timing = "hblank" -> t.count * Height
                              + IF Visible(t) THEN t.line + (IF t.half THEN 1 ELSE 0) ELSE 0
    [] OTHER -> 0

(* write_control: an edge latches; immediate and GXFIFO channels run now.  *)
WriteControl(t, ch, on, timing) ==
  LET set == [ch EXCEPT !.on = on, !.timing = timing, !.clean = FALSE]
      latched == [set EXCEPT !.source = 0, !.dest = 0, !.left = ch.count, !.ran = 0,
                             !.clean = TRUE, !.armed = Periods(t, timing)]
  IN  IF on /\ ~ch.on
      THEN IF timing \in {"immediate", "gxfifo"} THEN RunChannel(latched) ELSE latched
      ELSE set

Fires(ch, hblank) == ch.on /\ ch.timing = (IF hblank THEN "hblank" ELSE "vblank")
RunBlankDmas(t, hblank) ==
  [t EXCEPT !.ch = [c \in Cores |-> IF Fires(t.ch[c], hblank) /\ (hblank => c = "arm9")
                                    THEN RunChannel(t.ch[c]) ELSE t.ch[c]]]

BlankLineStart ==
  /\ MayTurn(blank)
  /\ blank' = IF EntersBlank(blank) THEN RunBlankDmas(Turned(blank), FALSE) ELSE Turned(blank)
BlankHBlank ==
  /\ ~blank.half
  /\ blank' = LET t == [blank EXCEPT !.half = TRUE]
              IN  IF Visible(t) THEN RunBlankDmas(t, TRUE) ELSE t

WriteDma ==
  \E c \in Cores, on, repeat, reload \in BOOLEAN, step \in Steps, count \in Counts :
    \E timing \in Timings(c) :
      /\ blank.writes < MaxWrites
      /\ LET ch == [blank.ch[c] EXCEPT !.repeat = repeat, !.reload = reload, !.step = step,
                                       !.count = count]
         IN  blank' = [blank EXCEPT !.ch[c] = WriteControl(blank, ch, on, timing),
                                    !.writes = @ + 1]

BlankNext == BlankLineStart \/ BlankHBlank \/ WriteDma

Init == FrameInit /\ BlankInit
Next == (FrameNext /\ UNCHANGED blank) \/ (BlankNext /\ UNCHANGED frame)
Spec == Init /\ [][Next]_<<frame, blank>>
-----------------------------------------------------------------------------
FrameTypeOK == frame.line \in 0 .. Lines - 1 /\ frame.rendered <= frame.sealed
BlankTypeOK == blank.line \in 0 .. Lines - 1 /\ \A c \in Cores : blank.ch[c].left \in {0} \cup Counts

(* What is on the main screen from V-blank to V-blank has the 3D frame     *)
(* that was sealed last when it began, however late the swap came.         *)
NewestFrameShown ==
  LET a == frame.screens["a"] IN a.three # NoFrame => a.three = frame.due

(* "The source continues (the HDMA-table pattern)": the entry of the table *)
(* a repeating channel takes next is that of the periods since it was      *)
(* armed, one for each visible line or for each V-blank, whenever it was   *)
(* armed; and a channel that does not repeat has waited through none.      *)
TablesKeepStep ==
  \A c \in Cores :
    LET ch == blank.ch[c]
        periods == Periods(blank, ch.timing) - ch.armed
    IN  ch.on /\ ch.clean /\ ch.timing \in {"vblank", "hblank"} =>
          /\ ch.source = periods * ch.count * ch.step
          /\ ch.dest = IF ch.reload THEN 0 ELSE periods * ch.count
          /\ ~ch.repeat => periods = 0
=============================================================================

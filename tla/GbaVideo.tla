------------------------------ MODULE GbaVideo ------------------------------
(***************************************************************************)
(* How register writes reach the picture of the GBA (ppu/mod.rs, latch.rs, *)
(* inspect.rs, the video part of io.rs and the shared latch of video2d):   *)
(* the snapshot at each line start, the segments a write in the middle of  *)
(* a line cuts, the affine reference that moves line by line, and the      *)
(* debugger that draws a line again.                                       *)
(***************************************************************************)
EXTENDS Integers, Sequences, SequencesExt

CONSTANTS
  Width, Height,      (* visible pixels and lines *)
  Lines,              (* lines of a frame *)
  Dot, LineCycles,    (* cycles of a pixel, and of a line *)
  MaxWrites           (* writes in a frame *)

VARIABLE
  video  (* [line, cycle, regs, affine, segments, seen, writes, touched,   *)
         (* steady]: regs are the registers the CPU wrote, affine the      *)
         (* internal references; seen (history), what the registers were    *)
         (* when the beam left each pixel; touched, whether the debugger   *)
         (* came by in this frame; steady, no affine register was written  *)

Scrolls == {0, 1}
Coordinates == {"bg2", "bg3"}   (* one reference coordinate of each background *)
(* What is written to them: the backgrounds are alike, so one of them      *)
(* stands upright, and the other may turn.                                 *)
References == [bg2 |-> {0}, bg3 |-> {0, 4}]
Steps == [bg2 |-> {0}, bg3 |-> {0, 1}]

(* latch_for_scanline: one segment, the whole line. *)
Segment(x, v) == [x |-> x, regs |-> v.regs, affine |-> v.affine]
Latch(v) == [v EXCEPT !.segments = <<Segment(0, v)>>]

(* reload_affine_references: every coordinate, whichever was written.      *)
Reload(v) == [v EXCEPT !.affine = v.regs.ref]
Advance(v) == [v EXCEPT !.affine = [c \in Coordinates |-> @[c] + v.regs.step[c]]]

(* affine_reference_for_line: what the debugger works out instead.         *)
ReferenceForLine(regs, y) == [c \in Coordinates |-> regs.ref[c] + regs.step[c] * y]

AllZero == [c \in Coordinates |-> 0]

Init ==
  video = Latch([line |-> 0, cycle |-> 0, affine |-> AllZero, segments |-> <<>>,
                 regs |-> [blank |-> FALSE, scroll |-> 0, ref |-> AllZero, step |-> AllZero],
                 seen |-> <<>>, writes |-> 0, touched |-> FALSE, steady |-> TRUE])

Beam(v) == v.cycle \div Dot

(* Mutant: a later write in the pixel of the last split is lost. *)
SplitFirst(v) ==
  IF v.line >= Height \/ Beam(v) >= Width \/ Beam(v) <= Last(v.segments).x THEN v
  ELSE [v EXCEPT !.segments = Append(@, Segment(Beam(v), v))]

(* split_segment: a write at or before the last split refines it in place. *)
SplitSegment(v) ==
  IF v.line >= Height \/ Beam(v) >= Width THEN v
  ELSE [v EXCEPT !.segments =
          IF Beam(v) <= Last(@).x THEN Append(Front(@), Segment(Beam(v), v))
          ELSE Append(@, Segment(Beam(v), v))]

(* io.rs write16: the register, a reload for a reference, and the split.   *)
Written(v, regs) == [v EXCEPT !.regs = regs, !.writes = @ + 1]

WriteRegister ==
  /\ video.writes < MaxWrites
  /\ \/ \E b \in BOOLEAN :
          video' = SplitSegment(Written(video, [video.regs EXCEPT !.blank = b]))
     \/ \E s \in Scrolls :
          video' = SplitSegment(Written(video, [video.regs EXCEPT !.scroll = s]))
     \/ \E c \in Coordinates : \E s \in Steps[c] :
          video' = SplitSegment([Written(video, [video.regs EXCEPT !.step[c] = s])
                                   EXCEPT !.steady = FALSE])
     \/ \E c \in Coordinates : \E r \in References[c] :
          video' = SplitSegment([Reload(Written(video, [video.regs EXCEPT !.ref[c] = r]))
                                   EXCEPT !.steady = FALSE])

(* Mutant: the reference moves before it is reloaded for the new frame. *)
LineStartedLate(v) ==
  LET w == [v EXCEPT !.seen = <<>>]
      n == IF v.line = 0
           THEN Advance(Reload([w EXCEPT !.writes = 0, !.touched = FALSE, !.steady = TRUE]))
           ELSE IF v.line < Height THEN Advance(w) ELSE w
  IN  IF v.line < Height THEN Latch(n) ELSE n

(* handle_event, at LineStart. *)
LineStarted(v) ==
  LET w == [v EXCEPT !.seen = <<>>]
      n == IF v.line = 0
           THEN Reload([w EXCEPT !.writes = 0, !.touched = FALSE, !.steady = TRUE])
           ELSE IF v.line < Height THEN Advance(w) ELSE w
  IN  IF v.line < Height THEN Latch(n) ELSE n

(* One cycle of the beam; it leaves a pixel every Dot cycles. *)
Tick ==
  LET v == [video EXCEPT !.cycle = @ + 1,
                         !.seen = IF (video.cycle + 1) % Dot = 0 /\ Len(@) < Width
                                  THEN Append(@, [regs |-> video.regs, affine |-> video.affine])
                                  ELSE @]
  IN  video' = IF v.cycle < LineCycles THEN v
               ELSE LineStarted([v EXCEPT !.cycle = 0, !.line = (@ + 1) % Lines])

(* explain_current_pixel and inspect_scanline of line y: the reference of   *)
(* that line is worked out, and the machine itself latched anew.           *)
Relatched(y) ==
  Latch([video EXCEPT !.affine = ReferenceForLine(video.regs, y), !.touched = TRUE])

(* The questions of inspect.rs all begin so. *)
Inspect == \E y \in 0 .. Height - 1 : video' = Relatched(y)

Next == WriteRegister \/ Tick \/ Inspect
Spec == Init /\ [][Next]_video
-----------------------------------------------------------------------------
(* render_scanline: the last segment that starts at or before x governs;   *)
(* a blanked one is white, whatever else it says.                          *)
Shown(s) == IF s.regs.blank THEN [blank |-> TRUE]
            ELSE [blank |-> FALSE, scroll |-> s.regs.scroll, affine |-> s.affine]

Drawn(segments, x) ==
  Shown(segments[CHOOSE i \in DOMAIN segments :
                   /\ segments[i].x <= x
                   /\ \A j \in DOMAIN segments : segments[j].x <= x => j <= i])

TypeOK ==
  /\ video.line \in 0 .. Lines - 1 /\ video.cycle \in 0 .. LineCycles - 1
  /\ video.segments # <<>> /\ video.segments[1].x = 0
  /\ \A i \in 1 .. Len(video.segments) - 1 : video.segments[i].x < video.segments[i + 1].x

(* The line that is drawn at HBlank shows, at every pixel, the registers   *)
(* as they stood when the beam left it, however many writes fell into the  *)
(* line, and in whatever pixel, unless the debugger came by.               *)
BeamExact ==
  video.cycle >= Width * Dot /\ video.line < Height /\ ~video.touched =>
    \A x \in 0 .. Width - 1 : Drawn(video.segments, x) = Shown(video.seen[x + 1])

(* What the debugger works out for the line of the beam is the reference   *)
(* the running frame has come to, as long as no affine register was        *)
(* written in it.                                                          *)
ReferenceReconstructed ==
  video.steady /\ ~video.touched /\ video.line < Height =>
    video.affine = ReferenceForLine(video.regs, video.line)
=============================================================================

--------------------------- MODULE RewindTimeline ---------------------------
(***************************************************************************)
(* The rewind timeline (crates/emulator/src/rewind.rs) with the host that  *)
(* drives it: the window loop of crates/rewinds/src/main.rs and its        *)
(* scrubber.                                                               *)
(*                                                                         *)
(* The machine is deterministic, so its state after a frame is named by    *)
(* the inputs that were in effect during the frames so far (`played`);     *)
(* `keypad` is the input the machine holds, part of its snapshot, and      *)
(* `lastInput` the facade's copy of it, which is not.                      *)
(***************************************************************************)
EXTENDS Integers, Sequences, SequencesExt

CONSTANTS
  Inputs,      (* the inputs a user can hold                                *)
  NoInput,     (* Input::default()                                          *)
  Intervals,   (* the keyframe intervals a host may choose                  *)
  Capacities,  (* the keyframe capacities a host may choose                 *)
  MaxFrame     (* bound of the model: the machine stops at this frame       *)

ASSUME RewindAssumption ==
  /\ NoInput \in Inputs
  /\ Intervals \subseteq Nat \ {0}
  /\ Capacities \subseteq Nat \ {0}
  /\ MaxFrame \in Nat

VARIABLES
  emu,        (* the Emulator: [played, keypad, lastInput]                  *)
  timeline,   (* the Timeline                                               *)
  scrubbing,  (* whether the window is in scrub mode                        *)
  story       (* history: `played` when the newest frame was recorded       *)

vars == <<emu, timeline, scrubbing, story>>

Frame(e) == Len(e.played)

(* Timeline::new. *)
NewTimeline(interval, capacity) ==
  [interval |-> interval, capacity |-> capacity, keyframes |-> <<>>, inputs |-> <<>>,
   base |-> 0, newest |-> 0, cursor |-> 0, started |-> FALSE]

SetInput(e, i) == [e EXCEPT !.keypad = i, !.lastInput = i]
RunFrame(e) == [e EXCEPT !.played = Append(@, e.keypad)]

(* snapshot and restore: the machine, and not the facade's lastInput. *)
Snapshot(e) == [frame |-> Frame(e), played |-> e.played, keypad |-> e.keypad]
Restore(e, k) == [e EXCEPT !.played = k.played, !.keypad = k.keypad]

OldestFrame(tl) == IF tl.keyframes = <<>> THEN tl.cursor ELSE tl.keyframes[1].frame

(* How many keyframes lie at or before frame n, looked for from the back.  *)
KeyframesUpTo(tl, n) ==
  Max({0} \cup {j \in DOMAIN tl.keyframes : tl.keyframes[j].frame <= n})

(* Mutant: the keyframes of the abandoned future are kept. *)
TruncateAfterInputsOnly(tl, n) ==
  [tl EXCEPT !.inputs = SubSeq(@, 1, IF n >= tl.base THEN n - tl.base + 1 ELSE 0),
             !.newest = n]

(* Mutant: one input too many survives the branch. *)
TruncateAfterLate(tl, n) ==
  [tl EXCEPT !.keyframes = SubSeq(@, 1, KeyframesUpTo(tl, n)),
             !.inputs = SubSeq(@, 1, IF n >= tl.base THEN n - tl.base + 2 ELSE 0),
             !.newest = n]

(* Drop everything after frame n. *)
TruncateAfter(tl, n) ==
  [tl EXCEPT !.keyframes = SubSeq(@, 1, KeyframesUpTo(tl, n)),
             !.inputs = SubSeq(@, 1, IF n >= tl.base THEN n - tl.base + 1 ELSE 0),
             !.newest = n]

(* Mutant: the base moves the wrong way. *)
TrimBackward(tl) ==
  LET surplus == tl.keyframes[1].frame - tl.base
      drop == IF surplus < Len(tl.inputs) THEN surplus ELSE Len(tl.inputs) - 1
  IN  IF Len(tl.keyframes) <= tl.capacity THEN tl
      ELSE [tl EXCEPT !.keyframes = Tail(@), !.base = @ - drop - 1]

(* Keep `capacity` keyframes, and the inputs from the oldest one on. *)
Trim(tl) ==
  LET kept == SubSeq(tl.keyframes, Len(tl.keyframes) - tl.capacity + 1, Len(tl.keyframes))
      keyframes == IF Len(tl.keyframes) > tl.capacity THEN kept ELSE tl.keyframes
      surplus == keyframes[1].frame - tl.base
      drop == IF surplus < Len(tl.inputs) THEN surplus ELSE Len(tl.inputs) - 1
  IN  [tl EXCEPT !.keyframes = keyframes,
                 !.inputs = SubSeq(@, drop + 1, Len(@)),
                 !.base = @ + drop]

(* Mutant: keyframes lie one frame too far apart. *)
RecordSparse(tl, e) ==
  LET f == Frame(e)
      branch == IF tl.started /\ f <= tl.newest THEN TruncateAfter(tl, f - 1) ELSE tl
      logged == [branch EXCEPT !.inputs = Append(@, e.lastInput),
                               !.base = IF tl.started THEN @ ELSE f,
                               !.newest = f, !.cursor = f, !.started = TRUE]
  IN  IF tl.started /\ f = tl.cursor THEN tl
      ELSE IF logged.keyframes = <<>> \/ f - Last(logged.keyframes).frame > tl.interval
           THEN Trim([logged EXCEPT !.keyframes = Append(@, Snapshot(e))])
           ELSE logged

(* Timeline::record. *)
Record(tl, e) ==
  LET f == Frame(e)
      branch == IF tl.started /\ f <= tl.newest THEN TruncateAfter(tl, f - 1) ELSE tl
      logged == [branch EXCEPT !.inputs = Append(@, e.lastInput),
                               !.base = IF tl.started THEN @ ELSE f,
                               !.newest = f,
                               !.cursor = f,
                               !.started = TRUE]
  IN  IF tl.started /\ f = tl.cursor THEN tl
      ELSE IF logged.keyframes = <<>> \/ f % tl.interval = 0
           THEN Trim([logged EXCEPT !.keyframes = Append(@, Snapshot(e))])
           ELSE logged

(* The keyframe a seek starts from: the last one not after the target. *)
NearestKeyframe(tl, target) ==
  LET last == KeyframesUpTo(tl, target)
  IN  tl.keyframes[IF last = 0 THEN 1 ELSE last]

(* Mutant: a frame is replayed with the input of the frame before. *)
ReplayFrameLate(tl, e) ==
  LET index == Frame(e) - tl.base + 1
  IN  RunFrame(IF index \in DOMAIN tl.inputs THEN SetInput(e, tl.inputs[index]) ELSE e)

(* One turn of the replay loop of seek. *)
ReplayFrame(tl, e) ==
  LET index == Frame(e) + 1 - tl.base + 1
  IN  RunFrame(IF index \in DOMAIN tl.inputs THEN SetInput(e, tl.inputs[index]) ELSE e)

(* The machine after seek(target), target within the recorded range. *)
Sought(tl, e, target) ==
  LET restored == Restore(e, NearestKeyframe(tl, target))
      replayed[n \in Nat] == IF n = 0 THEN restored ELSE ReplayFrame(tl, replayed[n - 1])
  IN  replayed[target - Frame(restored)]
-----------------------------------------------------------------------------
Init ==
  /\ emu = [played |-> <<>>, keypad |-> NoInput, lastInput |-> NoInput]
  /\ \E i \in Intervals, c \in Capacities : timeline = NewTimeline(i, c)
  /\ scrubbing = FALSE
  /\ story = <<>>

RecordAs(e) ==
  /\ emu' = e
  /\ timeline' = Record(timeline, e)
  /\ story' = e.played
  /\ UNCHANGED scrubbing

(* The window loop: set_input, one run_frame, record_frame. *)
LiveFrame ==
  /\ ~scrubbing
  /\ Frame(emu) < MaxFrame
  /\ \E i \in Inputs : RecordAs(RunFrame(SetInput(emu, i)))

(* The same with the warp key held: many frames, one record_frame. *)
WarpFrames ==
  /\ ~scrubbing
  /\ \E i \in Inputs, n \in 2 .. MaxFrame - Frame(emu) :
       RecordAs(FoldLeft(LAMBDA e, k : RunFrame(e), SetInput(emu, i), [k \in 1 .. n |-> k]))

ToggleScrub ==
  /\ scrubbing' = ~scrubbing
  /\ UNCHANGED <<emu, timeline, story>>

(* seek: by the arrow keys of the scrubber, rewind.seek or rewind.stepBack *)
(* of a client; the target is clamped to the recorded range.               *)
Seek ==
  /\ timeline.started
  /\ \E target \in OldestFrame(timeline) .. timeline.newest :
       /\ emu' = Sought(timeline, emu, target)
       /\ timeline' = [timeline EXCEPT !.cursor = Frame(emu')]
  /\ UNCHANGED <<scrubbing, story>>

(* rewind.enable: a new timeline that starts at the present frame. *)
Enable ==
  \E i \in Intervals, c \in Capacities :
    /\ timeline' = Record(NewTimeline(i, c), emu)
    /\ story' = emu.played
    /\ UNCHANGED <<emu, scrubbing>>

NextWindow == LiveFrame \/ ToggleScrub \/ Seek \/ Enable
WindowSpec == Init /\ [][NextWindow]_vars

(* The window with its warp key. *)
WarpSpec == Init /\ [][NextWindow \/ WarpFrames]_vars
-----------------------------------------------------------------------------
Keyframe == [frame : 0 .. MaxFrame, played : Seq(Inputs), keypad : Inputs]

TypeOK ==
  /\ emu \in [played : Seq(Inputs), keypad : Inputs, lastInput : Inputs]
  /\ timeline \in [interval : Intervals, capacity : Capacities, keyframes : Seq(Keyframe),
                   inputs : Seq(Inputs), base : 0 .. MaxFrame, newest : 0 .. MaxFrame,
                   cursor : 0 .. MaxFrame, started : BOOLEAN]
  /\ scrubbing \in BOOLEAN
  /\ story \in Seq(Inputs)

(* rewind.rs: "Any past frame is reconstructed by restoring the nearest    *)
(* earlier keyframe and replaying the recorded inputs": wherever the user  *)
(* seeks, branches and seeks again, the machine stands in exactly the      *)
(* state it had when it played that frame.                                 *)
SeekExact ==
  timeline.started =>
    /\ Frame(emu) = timeline.cursor
    /\ emu.played = SubSeq(story, 1, timeline.cursor)

(* rewind.rs: "`inputs[i]` is the input in effect during frame             *)
(* `input_base + i`", for every frame that is recorded and no other.       *)
InputsAligned ==
  timeline.started =>
    /\ timeline.base + Len(timeline.inputs) - 1 = timeline.newest
    /\ \A i \in 1 .. Len(timeline.inputs) :
         LET f == timeline.base + i - 1
         IN  f > OldestFrame(timeline) => timeline.inputs[i] = story[f]

(* Branching and trimming never leave a keyframe of an abandoned future,   *)
(* never more than `capacity` of them, and never none: a seek always finds *)
(* one to start from.                                                      *)
KeyframesOnStory ==
  timeline.started =>
    /\ Len(timeline.keyframes) \in 1 .. timeline.capacity
    /\ \A j \in 1 .. Len(timeline.keyframes) :
         LET k == timeline.keyframes[j]
         IN  /\ k.frame <= timeline.newest
             /\ k.played = SubSeq(story, 1, k.frame)
             /\ j > 1 => timeline.keyframes[j - 1].frame < k.frame

(* A seek replays less than one keyframe interval: no recorded frame lies  *)
(* as far as that from the keyframe a seek to it starts at, branches and   *)
(* trims notwithstanding.                                                  *)
ReplayBounded ==
  timeline.started =>
    \A t \in OldestFrame(timeline) .. timeline.newest :
      t - NearestKeyframe(timeline, t).frame < timeline.interval

(* What a seek relies on, all at once: an input for every frame, a keyframe*)
(* of this story to start from, and a bounded replay.                      *)
TimelineSound == InputsAligned /\ KeyframesOnStory /\ ReplayBounded
=============================================================================

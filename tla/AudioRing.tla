------------------------------ MODULE AudioRing ------------------------------
(***************************************************************************)
(* The way of the sound to the host (crates/emulator/src/audio.rs): the    *)
(* run loop resamples each frame's samples at a ratio that follows the     *)
(* fill of the ring and stores them there; the host's audio thread takes   *)
(* what it is asked for.  The ring is lock-free: each side looks once at   *)
(* how far the other is, copies, and then moves its own index.  A sample   *)
(* is <<its place in the source, its side>>; the interpolation is left     *)
(* out, and frames that are muted never come this far.                     *)
(***************************************************************************)
EXTENDS Integers, SequencesExt

CONSTANTS
  Grain,       (* parts of a source frame *)
  Base,        (* of them to an output frame, before the adjustment *)
  Capacities,  (* samples: rate * channels / 4 in the code, even for the usual rates *)
  Chunks,      (* source frames of an emulated frame *)
  Wants,       (* samples a callback is asked for: whole frames *)
  MaxFrames    (* bound: source frames *)

VARIABLE
  audio  (* [capacity, pos, frame, scratch, room, pushing, ring, taking,   *)
         (*  reading]: the resampler, what it made and the ring's vacancy  *)
         (*  as the producer saw it, and what a callback saw; and history: *)
         (*  made, the places of all output frames stored or dropped,      *)
         (*  lost, the samples dropped, and heard, those the host took     *)

Sides == <<"left", "right">>
Least(a, b) == IF a < b THEN a ELSE b
Clamped(n) == IF n < 0 THEN -1 ELSE IF n > 0 THEN 1 ELSE 0

Init ==
  \E capacity \in Capacities :
    audio = [capacity |-> capacity, pos |-> 0, frame |-> 0, scratch |-> <<>>, room |-> 0,
             pushing |-> "idle", ring |-> <<>>, taking |-> 0, reading |-> FALSE,
             made |-> <<>>, lost |-> {}, heard |-> <<>>]

(* process: an output frame every `ratio` parts; the position is carried   *)
(* over from one chunk to the next.                                        *)
Emitted(r, ratio) ==
  LET count == IF r.pos < Grain THEN (Grain - r.pos + ratio - 1) \div ratio ELSE 0
  IN  [out |-> r.out \o [i \in 1 .. count |-> r.frame * Grain + r.pos + (i - 1) * ratio],
       pos |-> r.pos + count * ratio - Grain, frame |-> r.frame + 1]
Resampled(a, frames, ratio) ==
  LET r[k \in 0 .. frames] ==
        IF k = 0 THEN [out |-> <<>>, pos |-> a.pos, frame |-> a.frame]
        ELSE Emitted(r[k - 1], ratio)
  IN  r[frames]

(* push: the ratio steers the ring to half full.                           *)
Ratio(a) == Base + Clamped(Len(a.ring) - a.capacity \div 2)
PushBegin ==
  \E frames \in Chunks :
    /\ audio.pushing = "idle" /\ audio.frame + frames <= MaxFrames
    /\ LET r == Resampled(audio, frames, Ratio(audio))
       IN  audio' = [audio EXCEPT !.pos = r.pos, !.frame = r.frame, !.scratch = r.out,
                                  !.pushing = "made"]

Samples(places) == [i \in 1 .. 2 * Len(places) |-> <<places[(i + 1) \div 2], Sides[2 - (i % 2)]>>]

(* push_slice: as much as there was room for when it looked, the rest is   *)
(* dropped.                                                                *)
PushLook ==
  /\ audio.pushing = "made"
  /\ audio' = [audio EXCEPT !.pushing = "storing", !.room =
                 Least(2 * Len(audio.scratch), audio.capacity - Len(audio.ring))]
PushEnd ==
  /\ audio.pushing = "storing"
  /\ LET s == Samples(audio.scratch)
     IN  audio' = [audio EXCEPT !.ring = @ \o SubSeq(s, 1, audio.room), !.made = @ \o audio.scratch,
                                !.lost = @ \cup {s[i] : i \in audio.room + 1 .. Len(s)},
                                !.scratch = <<>>, !.room = 0, !.pushing = "idle"]

(* read: pop_slice; the callback fills the rest with silence.              *)
ReadLook ==
  \E want \in Wants :
    /\ ~audio.reading
    /\ audio' = [audio EXCEPT !.reading = TRUE, !.taking = Least(want, Len(audio.ring))]
ReadEnd ==
  /\ audio.reading
  /\ audio' = [audio EXCEPT !.ring = SubSeq(@, audio.taking + 1, Len(@)),
                            !.heard = @ \o SubSeq(audio.ring, 1, audio.taking),
                            !.taking = 0, !.reading = FALSE]

Next == PushBegin \/ PushLook \/ PushEnd \/ ReadLook \/ ReadEnd
Spec == Init /\ [][Next]_audio
-----------------------------------------------------------------------------
TypeOK ==
  /\ audio.frame \in 0 .. MaxFrames /\ Len(audio.ring) <= audio.capacity
  /\ audio.pushing \in {"idle", "made", "storing"} /\ audio.taking <= Len(audio.ring)

(* What the host hears and will hear is what the machine played, each      *)
(* output frame once, in order, its left sample first in a callback and    *)
(* its right one next, whatever the threads do; what the ring had no room  *)
(* for is missing as whole frames; and the places of the output frames     *)
(* are a ratio apart, where two chunks join too.                           *)
SoundIsUnbroken ==
  LET out == audio.heard \o audio.ring
      kept == [i \in 1 .. Len(out) \div 2 |-> out[2 * i - 1][1]]
      steps == {audio.made[i + 1] - audio.made[i] : i \in 1 .. Len(audio.made) - 1}
  IN  /\ out = Samples(kept) /\ Len(audio.heard) % 2 = 0
      /\ \A i \in 1 .. Len(kept) - 1 : kept[i] < kept[i + 1]
      /\ ToSet(kept) = {place \in ToSet(audio.made) : <<place, "left">> \notin audio.lost}
      /\ \A s \in audio.lost : \A side \in {"left", "right"} : <<s[1], side>> \in audio.lost
      /\ steps \subseteq Base - 1 .. Base + 1
=============================================================================

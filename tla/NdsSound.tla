------------------------------ MODULE NdsSound ------------------------------
(***************************************************************************)
(* A channel of the DS's sound engine (nds/src/sound.rs): where it is in   *)
(* its source, when it ends and where it loops to.  The predictor of the   *)
(* ADPCM decoder is the list of the nibbles that have gone into it since   *)
(* the header, and the noise register the number of its steps; volume,     *)
(* panning and the mix are arithmetic on samples.                          *)
(***************************************************************************)
EXTENDS Integers, Sequences

CONSTANTS
  PerWord,     (* format -> samples in a word: 4, 2 and 8 in the code *)
  Words,       (* values of SOUNDxPNT and SOUNDxLEN *)
  Grain,       (* positions are counted in this part of a sample *)
  Steps,       (* such parts the position moves on per output sample *)
  MaxSamples,  (* bound: output samples of one note *)
  MaxTouches   (* bound: register writes while it plays *)

VARIABLE
  sound  (* [master, on, format, loops, pnt, len, step, active, pos,       *)
         (*  started, decoded, fed, loop, captured, noise, stepped]; and   *)
         (*  history: touched, the writes since the start, played, the     *)
         (*  samples since, and heard, what the last one was made of       *)

Formats == {"pcm8", "pcm16", "adpcm", "psg"}
Without(words) == IF words = 0 THEN 0 ELSE words - 1     (* the ADPCM header's word *)

(* total_samples and loop_start_samples.                                   *)
SamplesOf(s, words) ==
  CASE s.format = "psg" -> 0
    [] s.format = "adpcm" -> Without(words) * PerWord.adpcm
    [] OTHER -> words * PerWord[s.format]
Total(s) == SamplesOf(s, s.pnt + s.len)
LoopStart(s) == SamplesOf(s, s.pnt)

Silent ==
  [master |-> TRUE, on |-> FALSE, format |-> "pcm8", loops |-> FALSE, pnt |-> 0, len |-> 0,
   step |-> Grain, active |-> FALSE, pos |-> 0, started |-> FALSE, decoded |-> 0, fed |-> <<>>,
   loop |-> <<>>, captured |-> FALSE, noise |-> FALSE, stepped |-> 0, touched |-> 0,
   played |-> 0, heard |-> <<>>]

Init ==
  \E format \in Formats, loops \in BOOLEAN, pnt, len \in Words, step \in Steps :
    sound = [Silent EXCEPT !.format = format, !.loops = loops, !.pnt = pnt, !.len = len,
                           !.step = step]

(* start; the ADPCM header is read with the first sample.                  *)
Start(s) ==
  [s EXCEPT !.active = TRUE, !.pos = 0, !.started = FALSE, !.decoded = 0, !.captured = FALSE,
            !.noise = FALSE, !.touched = 0, !.played = 0, !.heard = <<>>]

(* A write of the control register, whole or in part.                      *)
Control(s, on, format, loops) ==
  LET t == [s EXCEPT !.on = on, !.format = format, !.loops = loops]
  IN  IF on /\ ~s.on THEN Start(t)
      ELSE IF on THEN t ELSE [t EXCEPT !.active = FALSE]

Cursor(s) == s.pos \div Grain

(* maybe_capture_loop                                                      *)
Captured(s) ==
  IF s.loops /\ ~s.captured /\ s.decoded = LoopStart(s)
  THEN [s EXCEPT !.loop = s.fed, !.captured = TRUE] ELSE s

Fed(s, n) == Captured([s EXCEPT !.fed = Append(@, n), !.decoded = n])
DecodeForward(s) ==
  LET begun == IF s.started THEN s ELSE Fed([s EXCEPT !.started = TRUE, !.fed = <<>>], 0)
      upTo[n \in begun.decoded .. begun.decoded + Cursor(s)] ==
        IF n = begun.decoded THEN begun ELSE Fed(upTo[n - 1], n)
  IN  IF Cursor(s) <= begun.decoded THEN begun ELSE upTo[Cursor(s)]

(* The noise register follows the cursor, and is seeded with the start.    *)
NoiseForward(s) ==
  LET from == IF s.noise THEN s.stepped ELSE 0
  IN  [s EXCEPT !.noise = TRUE, !.stepped = IF from < Cursor(s) THEN Cursor(s) ELSE from]

CurrentSample(s) ==
  CASE s.format = "adpcm" -> LET t == DecodeForward(s) IN [t EXCEPT !.heard = t.fed]
    [] s.format = "psg" -> LET t == NoiseForward(s) IN [t EXCEPT !.heard = <<t.stepped>>]
    [] OTHER -> [s EXCEPT !.heard = <<Cursor(s)>>]

Later(a, b) == IF a < b THEN b ELSE a
Advance(s) ==
  LET pos == s.pos + s.step
      total == Total(s) * Grain
      from == LoopStart(s) * Grain
      back == from + ((pos - from) % Later(total - from, Grain))
  IN  IF total = 0 \/ pos < total THEN [s EXCEPT !.pos = pos]
      ELSE IF ~s.loops THEN [s EXCEPT !.pos = pos, !.active = FALSE, !.on = FALSE]
      ELSE IF s.format = "adpcm"
           THEN [s EXCEPT !.pos = back, !.fed = s.loop, !.decoded = LoopStart(s)]
           ELSE [s EXCEPT !.pos = back]

(* generate_sample: nothing moves while the master enable is off.          *)
GenerateSample ==
  /\ sound.master /\ sound.active /\ sound.played < MaxSamples
  /\ sound' = Advance(CurrentSample([sound EXCEPT !.played = @ + 1]))

WriteSoundcnt == sound' = [sound EXCEPT !.master = ~@]

Touched(s) == [s EXCEPT !.touched = @ + 1]
MayTouch == sound.touched < MaxTouches
WriteCnt ==
  \E on, loops \in BOOLEAN, format \in Formats :
    /\ MayTouch
    /\ sound' = IF on /\ ~sound.on THEN Control(sound, on, format, loops)
                ELSE Touched(Control(sound, on, format, loops))
WritePlace ==
  \E pnt, len \in Words, step \in Steps :
    /\ MayTouch
    /\ <<pnt, len, step>> # <<sound.pnt, sound.len, sound.step>>
    /\ sound' = Touched([sound EXCEPT !.pnt = pnt, !.len = len, !.step = step])

Next == GenerateSample \/ WriteSoundcnt \/ WriteCnt \/ WritePlace
Spec == Init /\ [][Next]_sound
-----------------------------------------------------------------------------
TypeOK ==
  /\ sound.format \in Formats /\ sound.played \in 0 .. MaxSamples
  /\ sound.touched \in 0 .. MaxTouches /\ sound.pos >= 0

(* The start bit a game polls is set while the channel plays and not after *)
(* it: "the NNS sound driver counts a sequence as still playing until its  *)
(* channels clear".                                                        *)
StartBitIsStatus == sound.on = sound.active

(* A note whose registers nobody touched is at the place an endless tape   *)
(* of its source would be, the loop cut out and joined to itself as often  *)
(* as it takes; what it plays was decoded from the header on, each nibble  *)
(* once and in order, after any number of loops.  For a loop of at least a *)
(* word that the step does not leap over: what an empty loop restores was  *)
(* captured by an earlier note or not at all.                              *)
Whole == sound.active /\ sound.touched = 0 /\ sound.played > 0
LoopIsHeard == Total(sound) > LoopStart(sound) /\ sound.step <= (Total(sound) - LoopStart(sound)) * Grain
NotesKeepTheirPlace ==
  Whole /\ (sound.loops => LoopIsHeard) =>
    LET place(n) ==
          LET far == n * sound.step
              total == Total(sound) * Grain
              from == LoopStart(sound) * Grain
          IN  IF total = 0 \/ far < total THEN far ELSE from + ((far - from) % (total - from))
        at == place(sound.played - 1) \div Grain
    IN  /\ sound.pos = place(sound.played)
        /\ ~sound.loops /\ Total(sound) > 0 => sound.played * sound.step < Total(sound) * Grain
        /\ sound.heard = IF sound.format = "adpcm" THEN [i \in 1 .. at + 1 |-> i - 1] ELSE <<at>>
=============================================================================

------------------------------ MODULE GbaSound ------------------------------
(***************************************************************************)
(* The GBA's sound: a DirectSound channel with the timer and the DMA that  *)
(* feed it (apu.rs, machine.rs, bus.rs), and a channel of the sound        *)
(* generator (psg.rs).                                                     *)
(***************************************************************************)
EXTENDS Integers, Sequences

(* A DirectSound channel of the GBA: the FIFO of apu.rs, the timer         *)
(* overflow that clocks it, and the sound DMA that tops it up (machine.rs  *)
(* handle, bus.rs trigger_fifo_dma and run_fifo_transfer). A sample is its *)
(* place in the program's stream, modulo Stream.                           *)
CONSTANTS
  FifoSize, RefillThreshold,   (* 32 and 16 in the code                    *)
  Burst,                       (* bytes of the DMA's four words: 16        *)
  Stream                       (* places the program's ring of samples has *)

VARIABLE
  fifo  (* [data, latch, timer, armed, source, wanted, popped]:            *)
        (* timer is the channel's choice of the two; armed, the DMA        *)
        (* channels with special timing on this FIFO's address; wanted,    *)
        (* the place after the last sample that went out, and popped, what *)
        (* the last overflow latched (history)                             *)

None == -1

FifoInit ==
  \E timer \in {0, 1} :
    fifo = [data |-> <<>>, latch |-> 0, timer |-> timer, armed |-> {}, source |-> 0,
            wanted |-> None, popped |-> <<>>]

Place(n) == n % Stream

(* push_word, four times: what finds no room is dropped.                   *)
Pushed(data, from) ==
  LET room == FifoSize - Len(data)
      n == IF Burst < room THEN Burst ELSE room
  IN  data \o [k \in 1 .. n |-> Place(from + k - 1)]

(* run_fifo_transfer: four words from where the channel stands.            *)
FifoTransfer(f) ==
  [f EXCEPT !.data = Pushed(@, f.source), !.source = Place(f.source + Burst)]

TriggerFifoDma(f) == IF f.armed = {} THEN f ELSE FifoTransfer(f)

(* Mutant: the refill looks at the level before the sample is taken, as if *)
(* one more always fitted.                                                 *)
OverflowEarly(f) ==
  LET p == [f EXCEPT !.data = IF @ = <<>> THEN @ ELSE Tail(@),
                     !.latch = IF f.data = <<>> THEN 0 ELSE Head(f.data)]
  IN  IF Len(p.data) <= RefillThreshold + Burst \div 4 THEN TriggerFifoDma(p) ELSE p

(* on_timer_overflow: an empty FIFO gives silence; a low one asks for more.*)
Overflow(f) ==
  LET p == [f EXCEPT !.data = IF @ = <<>> THEN @ ELSE Tail(@),
                     !.latch = IF f.data = <<>> THEN 0 ELSE Head(f.data)]
  IN  IF Len(p.data) <= RefillThreshold THEN TriggerFifoDma(p) ELSE p

(* Reset bit of SOUNDCNT_H: the FIFO is emptied.                           *)
Reset(f) == [f EXCEPT !.data = <<>>]
-----------------------------------------------------------------------------
(* A program starts a stream with an empty FIFO and one DMA channel on it. *)
Start ==
  /\ fifo.armed = {}
  /\ \E ch \in {1, 2}, from \in {0, Burst} :
       fifo' = [Reset(fifo) EXCEPT !.armed = {ch}, !.source = from, !.wanted = from,
                                   !.popped = <<>>]

Stop == fifo' = [fifo EXCEPT !.armed = {}, !.wanted = None, !.popped = <<>>]

TimerOverflow ==
  \E id \in {0, 1} :
    IF id = fifo.timer
    THEN LET f == Overflow(fifo)
             sounds == fifo.data # <<>> /\ fifo.wanted # None
         IN  fifo' = [f EXCEPT !.popped = IF sounds THEN <<fifo.wanted, f.latch>> ELSE <<>>,
                               !.wanted = IF sounds THEN Place(@ + 1) ELSE @]
    ELSE UNCHANGED fifo

FifoNext == Start \/ Stop \/ TimerOverflow
-----------------------------------------------------------------------------
FifoTypeOK == /\ Len(fifo.data) <= FifoSize /\ fifo.armed \subseteq {1, 2}
          /\ fifo.source \in 0 .. Stream - 1

(* Once a stream has started, every overflow of its timer takes the next   *)
(* sample of the program's buffer: the refills neither lose one to a full  *)
(* FIFO nor leave it to run dry.                                           *)
StreamUnbroken ==
  /\ fifo.popped # <<>> => fifo.popped[1] = fifo.popped[2]
  /\ fifo.wanted # None /\ fifo.popped # <<>> => fifo.data # <<>>
-----------------------------------------------------------------------------
(* A channel of the GBA's sound generator (psg.rs): its length counter,    *)
(* envelope and sweep under the frame sequencer, while a program writes    *)
(* its registers. Square 1 has all three; the noise and wave channels are  *)
(* the same with parts left out. The largest frequency, volume and length  *)
(* are scaled down.                                                        *)
CONSTANTS
  Top,         (* the largest frequency, 2047                              *)
  FullLength,  (* 64, or 256 for the wave channel                          *)
  Loudest,     (* 15                                                       *)
  HasSweep     (* channel 1 alone                                          *)

VARIABLE
  psg  (* [on, word, freq, length, limited, env, sweep, step]: word, the   *)
       (* start bit kept with the control halfword for read-back           *)

Envelopes == [initial : 0 .. Loudest, increasing : BOOLEAN, period : 0 .. 1]
Sweeps == [period : 0 .. 1, negate : BOOLEAN, shift : 0 .. 1]

DacOn(e) == e.initial # 0 \/ e.increasing

PsgInit ==
  psg = [on |-> FALSE, word |-> FALSE, freq |-> 0, length |-> 0, limited |-> FALSE,
         env |-> [initial |-> 0, increasing |-> FALSE, period |-> 0, volume |-> 0],
         sweep |-> [period |-> 0, negate |-> FALSE, shift |-> 0, on |-> FALSE, shadow |-> 0],
         step |-> 0]

(* compute_sweep: the next frequency, which may end the channel.           *)
NextFrequency(p) ==
  LET delta == p.sweep.shadow \div (2 ^ p.sweep.shift)
  IN  IF p.sweep.negate THEN p.sweep.shadow - delta ELSE p.sweep.shadow + delta

ComputeSweep(p) == IF NextFrequency(p) > Top THEN [p EXCEPT !.on = FALSE] ELSE p

(* Mutant: a started channel goes on with the length that is left.         *)
TriggerSpent(p) ==
  [p EXCEPT !.on = DacOn(p.env), !.env.volume = p.env.initial]

Trigger(p) ==
  LET t == [p EXCEPT !.on = DacOn(p.env), !.env.volume = p.env.initial,
                     !.length = IF @ = 0 THEN FullLength ELSE @]
      s == [t EXCEPT !.sweep.shadow = p.freq,
                     !.sweep.on = p.sweep.period # 0 \/ p.sweep.shift # 0]
  IN  IF ~HasSweep THEN t ELSE IF p.sweep.shift # 0 THEN ComputeSweep(s) ELSE s

ClockLength(p) ==
  IF ~p.limited \/ p.length = 0 THEN p
  ELSE [p EXCEPT !.length = @ - 1, !.on = @ /\ p.length > 1]

(* The sweep's timer is its period here; the code counts it down.          *)
ClockSweep(p) ==
  IF ~(HasSweep /\ p.sweep.on /\ p.sweep.period # 0 /\ p.sweep.shift # 0) THEN p
  ELSE LET next == NextFrequency(p)
           checked == ComputeSweep(p)
       IN  IF next > Top THEN checked
           ELSE ComputeSweep([checked EXCEPT !.freq = next, !.sweep.shadow = next])

ClockEnvelope(p) ==
  IF p.env.period = 0 THEN p
  ELSE IF p.env.increasing /\ p.env.volume < Loudest THEN [p EXCEPT !.env.volume = @ + 1]
  ELSE IF ~p.env.increasing /\ p.env.volume > 0 THEN [p EXCEPT !.env.volume = @ - 1]
  ELSE p
-----------------------------------------------------------------------------
(* The frame sequencer: lengths on the even steps, the sweep on two of     *)
(* them, the envelopes on the last.                                        *)
ClockFrameSequencer ==
  LET l == IF psg.step \in {0, 2, 4, 6} THEN ClockLength(psg) ELSE psg
      s == IF psg.step \in {2, 6} THEN ClockSweep(l) ELSE l
      e == IF psg.step = 7 THEN ClockEnvelope(s) ELSE s
  IN  psg' = [e EXCEPT !.step = (@ + 1) % 8]

WriteSweep ==
  \E s \in Sweeps :
    psg' = [psg EXCEPT !.sweep.period = s.period, !.sweep.negate = s.negate,
                       !.sweep.shift = s.shift]

(* write_duty_env, of a halfword: the length is loaded, the volume too, and*)
(* an envelope that is all zero turns the channel off.                     *)
WriteEnvelope ==
  \E e \in Envelopes, length \in {1, FullLength} :
    psg' = [psg EXCEPT !.env = [initial |-> e.initial, increasing |-> e.increasing,
                                period |-> e.period, volume |-> e.initial],
                       !.length = length, !.on = @ /\ DacOn(e)]

(* write_square_freq.  A byte written to the low half is merged with the   *)
(* halfword that is kept, the start bit it holds included.                 *)
WriteFrequency(freq, limited, start) ==
  LET f == [psg EXCEPT !.freq = freq, !.limited = limited, !.word = start]
  IN  psg' = IF start THEN Trigger(f) ELSE f

WriteControl ==
  \E freq \in 0 .. Top, limited, start \in BOOLEAN : WriteFrequency(freq, limited, start)

WriteLowByte ==
  \E freq \in 0 .. Top : WriteFrequency(freq, psg.limited, psg.word)

PsgNext == ClockFrameSequencer \/ WriteSweep \/ WriteEnvelope \/ WriteControl \/ WriteLowByte
-----------------------------------------------------------------------------
PsgTypeOK == /\ psg.on \in BOOLEAN /\ psg.step \in 0 .. 7
          /\ psg.length \in 0 .. FullLength /\ psg.env.volume \in 0 .. Loudest

(* A channel that NR52 shows as on has its converter powered, time left to *)
(* play and a frequency the eleven bits can hold, however lengths, sweeps  *)
(* and writes to its registers fall.                                       *)
OnCanSound ==
  psg.on => DacOn(psg.env) /\ psg.length > 0 /\ psg.freq \in 0 .. Top
-----------------------------------------------------------------------------
Init == FifoInit /\ PsgInit
Next == (FifoNext /\ UNCHANGED psg) \/ (PsgNext /\ UNCHANGED fifo)
Spec == Init /\ [][Next]_<<fifo, psg>>
=============================================================================

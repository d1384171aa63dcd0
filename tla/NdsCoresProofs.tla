--------------------------- MODULE NdsCoresProofs ---------------------------
(***************************************************************************)
(* Proofs about the two-core loop: one inductive invariant, IInv, from     *)
(* which the properties of NdsCores follow for any costs, delays, sources  *)
(* and bounds.                                                             *)
(***************************************************************************)
EXTENDS NdsCores, QueueProofs

DeviceEvent == [at : Nat, core : Core, source : DeviceSources]

(* Between slices both cores have reached the time of the scheduler. *)
Settled ==
  phase # "slice" => deadline = now /\ \A c \in Core : clock[c] >= now

(* A slice is only begun with nothing due. *)
IdleQuiet == phase = "idle" => ~HasDue(queue, now)

(* Every instruction begins before the deadline of its slice. *)
StartsBefore == now <= deadline /\ lastStart <= deadline

(* A core that runs is at or past the latest start. *)
RunningInOrder == \A c \in Core : ~halted[c] => lastStart <= clock[c]

(* So is a core about to be woken, once it has moved to its stamp. *)
SleeperInOrder ==
  \A c \in Core : halted[c] /\ Pending(c) => lastStart <= Larger(clock[c], asserted[c])

(* A core's stamp was put there by the other core, at a clock it has since *)
(* reached.                                                                *)
StampBehind == \A c \in Core : asserted[c] <= clock[Other(c)]

(* A pending interrupt came about by the core's clock or by its stamp. *)
RaisedByThen ==
  \A c \in Core : \A s \in iflags[c] : raised[c][s] <= Larger(clock[c], asserted[c])

(* No clock is past the deadline by more than one instruction. *)
ClockBound == \A c \in Core : clock[c] <= deadline + 2 * MaxCost - 1

IInv ==
  /\ TypeOK
  /\ Settled
  /\ IdleQuiet
  /\ StartsBefore
  /\ RunningInOrder
  /\ SleeperInOrder
  /\ StampBehind
  /\ RaisedByThen
  /\ ClockBound
-----------------------------------------------------------------------------
(* The larger of two numbers is one of them and below neither. *)
LEMMA LargerFacts ==
  ASSUME NEW a \in Nat, NEW b \in Nat
  PROVE  Larger(a, b) \in Nat /\ Larger(a, b) >= a /\ Larger(a, b) >= b
  BY DEF Larger

LEMMA InitIInv == Init => IInv
  <1>. SUFFICES ASSUME Init PROVE IInv
    OBVIOUS
  <1>1. TypeOK
    BY DEF Init, TypeOK, Core
  <1>2. Settled /\ IdleQuiet /\ StartsBefore
    BY DEF Init, Settled, IdleQuiet, StartsBefore, HasDue
  <1>3. RunningInOrder /\ SleeperInOrder /\ StampBehind /\ RaisedByThen
    BY DEF Init, RunningInOrder, SleeperInOrder, StampBehind, RaisedByThen, Core, Other
  <1>4. ClockBound
    BY CoresAssumption DEF Init, ClockBound
  <1>. QED
    BY <1>1, <1>2, <1>3, <1>4 DEF IInv

LEMMA StartSliceIInv == IInv /\ StartSlice => IInv'
  <1>. SUFFICES ASSUME IInv, StartSlice PROVE IInv'
    OBVIOUS
  <1>. USE DEF StartSlice, irqVars
  <1>1. deadline = now /\ phase' = "slice" /\ now \in Nat
    BY DEF IInv, Settled, TypeOK
  <1>2. deadline' \in Nat /\ deadline' > now
    <2>1. PICK target \in now + 1 .. MaxTime :
            deadline' = IF queue # <<>> /\ queue[1].at < target THEN queue[1].at ELSE target
      OBVIOUS
    <2>2. CASE queue # <<>> /\ queue[1].at < target
      <3>1. queue[1] \in DeviceEvent
        <4>1. queue \in Seq(DeviceEvent)
          BY DEF IInv, TypeOK, DeviceEvent
        <4>. QED
          BY <2>2, <4>1
      <3>2. queue[1].at > now
        BY <2>2, <3>1, <1>1 DEF IInv, IdleQuiet, HasDue, DeviceEvent
      <3>. QED
        BY <2>1, <2>2, <3>1, <3>2 DEF DeviceEvent
    <2>3. CASE ~(queue # <<>> /\ queue[1].at < target)
      BY <2>1, <2>3, <1>1, CoresAssumption
    <2>. QED
      BY <2>2, <2>3
  <1>3. TypeOK'
    BY <1>1, <1>2 DEF IInv, TypeOK
  <1>4. Settled' /\ IdleQuiet' /\ StartsBefore'
    BY <1>1, <1>2 DEF IInv, TypeOK, Settled, IdleQuiet, StartsBefore
  <1>5. RunningInOrder' /\ SleeperInOrder' /\ StampBehind' /\ RaisedByThen'
    BY DEF IInv, RunningInOrder, SleeperInOrder, StampBehind, RaisedByThen, Pending
  <1>6. ClockBound'
    <2>. SUFFICES ASSUME NEW c \in Core PROVE clock[c] <= deadline' + 2 * MaxCost - 1
      BY DEF ClockBound
    <2>1. clock[c] <= deadline + 2 * MaxCost - 1 /\ clock[c] \in Nat
      BY DEF IInv, ClockBound, TypeOK
    <2>. QED
      BY <1>1, <1>2, <2>1, CoresAssumption
  <1>. QED
    BY <1>3, <1>4, <1>5, <1>6 DEF IInv

LEMMA WakeIInv == ASSUME NEW c \in Core PROVE IInv /\ Wake(c) => IInv'
  <1>. SUFFICES ASSUME IInv, Wake(c) PROVE IInv'
    OBVIOUS
  <1>. USE DEF Wake, irqVars
  <1>1. /\ clock' = [clock EXCEPT ![c] = Larger(clock[c], asserted[c])]
        /\ halted' = [halted EXCEPT ![c] = FALSE]
        /\ UNCHANGED <<now, queue, deadline, phase, ie, iflags, open, asserted, raised, lastStart>>
    OBVIOUS
  <1>2. \A d \in Core : clock[d] \in Nat /\ asserted[d] \in Nat /\ Other(d) \in Core
    BY DEF IInv, TypeOK, Core, Other
  <1>3. /\ Larger(clock[c], asserted[c]) \in Nat
        /\ Larger(clock[c], asserted[c]) >= clock[c]
        /\ Larger(clock[c], asserted[c]) >= asserted[c]
    BY <1>2, LargerFacts
  <1>4. TypeOK'
    BY <1>1, <1>3 DEF IInv, TypeOK
  <1>5. \A d \in Core : clock'[d] >= clock[d] /\ clock'[d] \in Nat
    BY SMTT(30), <1>1, <1>2, <1>3 DEF IInv, TypeOK
  <1>6. Settled' /\ IdleQuiet' /\ StartsBefore'
    BY <1>1 DEF IInv, TypeOK, Settled, IdleQuiet, StartsBefore
  <1>7. RunningInOrder'
    BY <1>1 DEF IInv, TypeOK, RunningInOrder, SleeperInOrder, Sleeper
  <1>8. SleeperInOrder'
    BY <1>1, <1>5 DEF IInv, TypeOK, SleeperInOrder, Pending
  <1>9. StampBehind'
    BY <1>1, <1>2, <1>5 DEF IInv, StampBehind
  <1>10. RaisedByThen'
    <2>. SUFFICES ASSUME NEW d \in Core, NEW s \in iflags[d]
                  PROVE  raised[d][s] <= Larger(clock'[d], asserted[d])
      BY <1>1 DEF RaisedByThen
    <2>1. raised[d][s] <= Larger(clock[d], asserted[d]) /\ raised[d][s] \in Nat
      BY DEF IInv, RaisedByThen, TypeOK, Source
    <2>2. Larger(clock[d], asserted[d]) <= Larger(clock'[d], asserted[d])
      BY <1>2, <1>5 DEF Larger
    <2>3. Larger(clock[d], asserted[d]) \in Nat /\ Larger(clock'[d], asserted[d]) \in Nat
      BY <1>2, <1>5 DEF Larger
    <2>. QED
      BY <2>1, <2>2, <2>3
  <1>11. ClockBound'
    <2>1. asserted[c] <= clock[Other(c)]
      BY DEF IInv, StampBehind
    <2>2. Larger(clock[c], asserted[c]) <= deadline + 2 * MaxCost - 1
      BY <2>1, <1>2, CoresAssumption DEF IInv, ClockBound, Larger, TypeOK
    <2>. QED
      BY <1>1, <2>2 DEF IInv, ClockBound, TypeOK
  <1>. QED
    BY <1>4, <1>6, <1>7, <1>8, <1>9, <1>10, <1>11 DEF IInv

LEMMA EndSliceIInv == IInv /\ EndSlice => IInv'
  <1>. SUFFICES ASSUME IInv, EndSlice PROVE IInv'
    OBVIOUS
  <1>1. /\ clock' = [c \in Core |-> IF halted[c] THEN Larger(clock[c], deadline) ELSE clock[c]]
        /\ now' = deadline /\ phase' = "dispatch"
        /\ UNCHANGED <<queue, deadline, halted, ie, iflags, open, asserted, raised, lastStart>>
    BY DEF EndSlice, irqVars
  <1>2. /\ deadline \in Nat /\ lastStart \in Nat
        /\ \A c \in Core : clock[c] \in Nat /\ asserted[c] \in Nat /\ Other(c) \in Core
    BY DEF IInv, TypeOK, Core, Other
  <1>3. \A c \in Core : clock'[c] \in Nat /\ clock'[c] >= clock[c] /\ clock'[c] >= deadline
    BY <1>1, <1>2 DEF EndSlice, Runnable, Larger
  <1>4. TypeOK'
    BY <1>1, <1>2, <1>3 DEF IInv, TypeOK
  <1>5. Settled' /\ IdleQuiet' /\ StartsBefore'
    BY <1>1, <1>2, <1>3 DEF IInv, Settled, IdleQuiet, StartsBefore
  <1>6. \A c \in Core : lastStart <= clock'[c]
    BY <1>2, <1>3 DEF IInv, StartsBefore
  <1>7. RunningInOrder' /\ SleeperInOrder'
    BY <1>1, <1>2, <1>3, <1>6 DEF RunningInOrder, SleeperInOrder, Larger
  <1>8. StampBehind'
    BY <1>1, <1>2, <1>3 DEF IInv, StampBehind
  <1>9. RaisedByThen'
    <2>. SUFFICES ASSUME NEW c \in Core, NEW s \in iflags[c]
                  PROVE  raised[c][s] <= Larger(clock'[c], asserted[c])
      BY <1>1 DEF RaisedByThen
    <2>1. raised[c][s] <= Larger(clock[c], asserted[c]) /\ raised[c][s] \in Nat
      BY DEF IInv, RaisedByThen, TypeOK, Source
    <2>. QED
      BY <2>1, <1>2, <1>3 DEF Larger
  <1>10. ClockBound'
    <2>. SUFFICES ASSUME NEW c \in Core PROVE clock'[c] <= deadline + 2 * MaxCost - 1
      BY <1>1 DEF ClockBound
    <2>1. clock[c] <= deadline + 2 * MaxCost - 1
      BY DEF IInv, ClockBound
    <2>. QED
      BY <1>1, <1>2, <2>1, CoresAssumption DEF Larger
  <1>. QED
    BY <1>4, <1>5, <1>7, <1>8, <1>9, <1>10 DEF IInv

(* A raise at time t keeps the types and the times of the others. *)
LEMMA RaiseAtFacts ==
  ASSUME NEW d \in Core, NEW s \in Source, NEW t \in Nat, TypeOK, RaiseAt(d, s, t)
  PROVE  /\ iflags' \in [Core -> SUBSET Source]
         /\ raised' \in [Core -> [Source -> Nat]]
         /\ \A e \in Core : e # d => iflags'[e] = iflags[e] /\ raised'[e] = raised[e]
         /\ iflags'[d] = iflags[d] \cup {s}
         /\ \A r \in Source : raised'[d][r] = IF r = s /\ s \notin iflags[d] THEN t ELSE raised[d][r]
  BY DEF RaiseAt, TypeOK

(* A raise at a core whose clock has reached its time, without a stamp, on *)
(* a core that is awake or between slices.                                 *)
LEMMA PlainRaise ==
  ASSUME NEW d \in Core, NEW s \in DeviceSources, NEW t \in Nat,
         IInv, RaiseAt(d, s, t), t <= clock[d], ~halted[d] \/ phase = "dispatch"
  PROVE  /\ iflags' \in [Core -> SUBSET Source]
         /\ raised' \in [Core -> [Source -> Nat]]
         /\ \A c \in Core : \A r \in iflags'[c] : raised'[c][r] <= Larger(clock[c], asserted[c])
         /\ \A c \in Core : halted[c] /\ ie[c] \cap iflags'[c] # {}
              => lastStart <= Larger(clock[c], asserted[c])
  <1>1. s \in Source /\ TypeOK
    BY DEF Source, IInv
  <1>2. /\ iflags' \in [Core -> SUBSET Source]
        /\ raised' \in [Core -> [Source -> Nat]]
        /\ \A e \in Core : e # d => iflags'[e] = iflags[e] /\ raised'[e] = raised[e]
        /\ iflags'[d] = iflags[d] \cup {s}
        /\ \A r \in Source : raised'[d][r] = IF r = s /\ s \notin iflags[d] THEN t ELSE raised[d][r]
    BY <1>1, RaiseAtFacts
  <1>3. \A c \in Core : clock[c] \in Nat /\ asserted[c] \in Nat
    BY <1>1 DEF TypeOK
  <1>4. ASSUME NEW c \in Core, NEW r \in iflags'[c]
        PROVE  raised'[c][r] <= Larger(clock[c], asserted[c])
    <2>1. CASE c = d /\ r = s /\ s \notin iflags[d]
      BY <2>1, <1>1, <1>2, <1>3 DEF Larger
    <2>2. CASE ~(c = d /\ r = s /\ s \notin iflags[d])
      <3>1. r \in iflags[c] /\ r \in Source
        BY <2>2, <1>1, <1>2 DEF TypeOK
      <3>2. raised'[c][r] = raised[c][r]
        BY <2>2, <3>1, <1>2
      <3>. QED
        BY <3>1, <3>2 DEF IInv, RaisedByThen
    <2>. QED
      BY <2>1, <2>2
  <1>5. ASSUME NEW c \in Core, halted[c], ie[c] \cap iflags'[c] # {}
        PROVE  lastStart <= Larger(clock[c], asserted[c])
    <2>1. CASE phase = "dispatch"
      <3>1. lastStart <= clock[c] /\ lastStart \in Nat
        BY <2>1, <1>1, <1>3 DEF IInv, Settled, StartsBefore, TypeOK
      <3>. QED
        BY <3>1, <1>3 DEF Larger
    <2>2. CASE phase # "dispatch"
      <3>1. c # d
        BY <2>2, <1>5
      <3>2. iflags'[c] = iflags[c]
        BY <3>1, <1>2
      <3>. QED
        BY <3>2, <1>5 DEF IInv, SleeperInOrder, Pending
    <2>. QED
      BY <2>1, <2>2
  <1>. QED
    BY <1>2, <1>4, <1>5

LEMMA EndDispatchIInv == IInv /\ EndDispatch => IInv'
  <1>. SUFFICES ASSUME IInv, EndDispatch PROVE IInv'
    OBVIOUS
  <1>1. /\ phase = "dispatch" /\ phase' = "idle" /\ ~HasDue(queue, now)
        /\ UNCHANGED <<now, queue, deadline, clock, halted, ie, iflags, open, asserted, raised,
                       lastStart>>
    BY DEF EndDispatch, irqVars
  <1>2. TypeOK' /\ Settled' /\ IdleQuiet' /\ StartsBefore'
    BY <1>1 DEF IInv, TypeOK, Settled, IdleQuiet, StartsBefore
  <1>3. RunningInOrder' /\ SleeperInOrder' /\ StampBehind' /\ RaisedByThen' /\ ClockBound'
    BY <1>1 DEF IInv, RunningInOrder, SleeperInOrder, StampBehind, RaisedByThen, ClockBound, Pending
  <1>. QED
    BY <1>2, <1>3 DEF IInv

LEMMA DispatchIInv == IInv /\ Dispatch => IInv'
  <1>. SUFFICES ASSUME IInv, Dispatch PROVE IInv'
    OBVIOUS
  <1>. DEFINE e == Head(queue)
  <1>1. /\ phase = "dispatch" /\ queue # <<>>
        /\ UNCHANGED <<now, deadline, phase, clock, halted, ie, open, asserted, lastStart>>
    BY DEF Dispatch, HasDue
  <1>2. queue \in Seq(DeviceEvent) /\ now \in Nat
    BY DEF IInv, TypeOK, DeviceEvent
  <1>3. e \in DeviceEvent /\ Tail(queue) \in Seq(DeviceEvent)
    BY <1>1, <1>2
  <1>4. queue' \in Seq(DeviceEvent)
    <2>1. CASE queue' = Tail(queue)
      BY <2>1, <1>3
    <2>2. ASSUME NEW d \in 1 .. MaxDelay, queue' = Insert(Tail(queue), [e EXCEPT !.at = now + d])
          PROVE  queue' \in Seq(DeviceEvent)
      <3>. HIDE DEF e
      <3>1. now + d \in Nat
        BY <1>2, CoresAssumption
      <3>2. [e EXCEPT !.at = now + d] \in DeviceEvent
        BY <1>3, <3>1 DEF DeviceEvent
      <3>. QED
        BY <2>2, <3>2, <1>3, InsertType
    <2>. QED
      BY <2>1, <2>2 DEF Dispatch
  <1>5. /\ iflags' \in [Core -> SUBSET Source]
        /\ raised' \in [Core -> [Source -> Nat]]
        /\ \A c \in Core : \A r \in iflags'[c] : raised'[c][r] <= Larger(clock[c], asserted[c])
        /\ \A c \in Core : halted[c] /\ ie[c] \cap iflags'[c] # {}
             => lastStart <= Larger(clock[c], asserted[c])
    <2>1. CASE RaiseAt(e.core, e.source, now)
      <3>1. e.core \in Core /\ e.source \in DeviceSources
        BY <1>3 DEF DeviceEvent
      <3>2. now <= clock[e.core]
        BY <1>1, <3>1 DEF IInv, Settled
      <3>. HIDE DEF e
      <3>. QED
        BY <2>1, <3>1, <3>2, <1>1, <1>2, PlainRaise
    <2>2. CASE UNCHANGED <<iflags, raised>>
      BY <2>2 DEF IInv, TypeOK, RaisedByThen, SleeperInOrder, Pending
    <2>. QED
      BY <2>1, <2>2 DEF Dispatch
  <1>6. TypeOK'
    BY <1>1, <1>4, <1>5 DEF IInv, TypeOK, DeviceEvent
  <1>7. Settled' /\ IdleQuiet' /\ StartsBefore'
    BY <1>1 DEF IInv, Settled, IdleQuiet, StartsBefore
  <1>8. RunningInOrder' /\ StampBehind' /\ ClockBound'
    BY <1>1 DEF IInv, RunningInOrder, StampBehind, ClockBound
  <1>9. SleeperInOrder' /\ RaisedByThen'
    BY <1>1, <1>5 DEF SleeperInOrder, RaisedByThen, Pending
  <1>. QED
    BY <1>6, <1>7, <1>8, <1>9 DEF IInv

LEMMA PollGxFifoIInv == IInv /\ PollGxFifo => IInv'
  <1>. SUFFICES ASSUME IInv, PollGxFifo PROVE IInv'
    OBVIOUS
  <1>1. /\ phase = "slice" /\ ~halted[0]
        /\ UNCHANGED <<now, queue, deadline, phase, clock, halted, ie, open, asserted, lastStart>>
    BY DEF PollGxFifo, Selected, Runnable
  <1>2. PICK s \in DeviceSources \ iflags[0] : RaiseAt(0, s, clock[0])
    BY DEF PollGxFifo
  <1>3. 0 \in Core /\ clock[0] \in Nat /\ clock[0] <= clock[0]
    BY DEF IInv, TypeOK, Core
  <1>4. /\ iflags' \in [Core -> SUBSET Source]
        /\ raised' \in [Core -> [Source -> Nat]]
        /\ \A c \in Core : \A r \in iflags'[c] : raised'[c][r] <= Larger(clock[c], asserted[c])
        /\ \A c \in Core : halted[c] /\ ie[c] \cap iflags'[c] # {}
             => lastStart <= Larger(clock[c], asserted[c])
    BY <1>1, <1>2, <1>3, PlainRaise
  <1>5. TypeOK'
    BY <1>1, <1>4 DEF IInv, TypeOK
  <1>6. Settled' /\ IdleQuiet' /\ StartsBefore'
    BY <1>1 DEF IInv, Settled, IdleQuiet, StartsBefore
  <1>7. RunningInOrder' /\ StampBehind' /\ ClockBound'
    BY <1>1 DEF IInv, RunningInOrder, StampBehind, ClockBound
  <1>8. SleeperInOrder' /\ RaisedByThen'
    BY <1>1, <1>4 DEF SleeperInOrder, RaisedByThen, Pending
  <1>. QED
    BY <1>5, <1>6, <1>7, <1>8 DEF IInv
-----------------------------------------------------------------------------
(* What one instruction of core c that ends at `end` may do to the         *)
(* interrupt state: its own stamp stays, the other core is neither halted  *)
(* nor masked by it, and whatever it newly raises there is stamped.        *)
Effects(c, end) ==
  /\ queue' \in Seq(DeviceEvent)
  /\ halted' \in [Core -> BOOLEAN]
  /\ ie' \in [Core -> SUBSET Source]
  /\ iflags' \in [Core -> SUBSET Source]
  /\ open' \in [Core -> BOOLEAN]
  /\ asserted' \in [Core -> Nat]
  /\ raised' \in [Core -> [Source -> Nat]]
  /\ halted'[Other(c)] = halted[Other(c)]
  /\ ie'[Other(c)] = ie[Other(c)]
  /\ asserted'[c] = asserted[c]
  /\ asserted'[Other(c)] \in {asserted[Other(c)], end}
  /\ iflags'[Other(c)] = iflags[Other(c)] \/ asserted'[Other(c)] = end
  /\ \A s \in iflags'[Other(c)] :
        \/ s \in iflags[Other(c)] /\ raised'[Other(c)][s] = raised[Other(c)][s]
        \/ raised'[Other(c)][s] = end /\ asserted'[Other(c)] = end
  /\ \A s \in iflags'[c] :
        \/ s \in iflags[c] /\ raised'[c][s] = raised[c][s]
        \/ raised'[c][s] = clock[c]

(* Every effect of an instruction keeps to Effects. *)
LEMMA StepEffects ==
  ASSUME NEW c \in Core, IInv, Step(c)
  PROVE  \E cost \in 1 .. MaxCost :
           LET end == clock[c] + cost * Ticks(c)
           IN  clock' = [clock EXCEPT ![c] = end] /\ Effects(c, end)
  <1>. DEFINE entered == IF LineReady(c) THEN [open EXCEPT ![c] = FALSE] ELSE open
  <1>1. PICK cost \in 1 .. MaxCost :
          LET end == clock[c] + cost * Ticks(c)
          IN  /\ clock' = [clock EXCEPT ![c] = end]
              /\ \/ /\ open' = entered
                    /\ UNCHANGED <<queue, halted, ie, iflags, asserted, raised>>
                 \/ /\ CrossRaise(c, end)
                    /\ open' = entered
                    /\ UNCHANGED <<queue, halted, ie>>
                 \/ /\ OwnRaise(c) \/ Acknowledge(c)
                    /\ open' = entered
                    /\ UNCHANGED <<queue, halted, ie>>
                 \/ /\ \E mask \in SUBSET Source : ie' = [ie EXCEPT ![c] = mask]
                    /\ open' = entered
                    /\ UNCHANGED <<queue, halted, iflags, asserted, raised>>
                 \/ /\ \E b \in BOOLEAN : open' = [entered EXCEPT ![c] = b]
                    /\ UNCHANGED <<queue, halted, ie, iflags, asserted, raised>>
                 \/ /\ halted' = [halted EXCEPT ![c] = TRUE]
                    /\ open' = entered
                    /\ UNCHANGED <<queue, ie, iflags, asserted, raised>>
                 \/ /\ Schedules(c)
                    /\ open' = entered
                    /\ UNCHANGED <<halted, ie, iflags, asserted, raised>>
    BY DEF Step
  <1>. DEFINE end == clock[c] + cost * Ticks(c)
              o == Other(c)
  <1>2. clock' = [clock EXCEPT ![c] = end]
    BY <1>1
  <1>3. /\ o \in Core /\ o # c /\ end \in Nat /\ clock[c] \in Nat
        /\ asserted[o] \in Nat
    BY CoresAssumption DEF IInv, TypeOK, Core, Other, Ticks
  <1>4. entered \in [Core -> BOOLEAN]
    BY DEF IInv, TypeOK
  <1>5. TypeOK /\ queue \in Seq(DeviceEvent)
    BY DEF IInv, TypeOK, DeviceEvent
  <1>. HIDE DEF entered, end, o
  <1>. USE DEF o
  <1>6. ASSUME open' = entered /\ UNCHANGED <<queue, halted, ie, iflags, asserted, raised>>
        PROVE  Effects(c, end)
    BY <1>3, <1>4, <1>5, <1>6 DEF Effects, TypeOK
  <1>7. ASSUME CrossRaise(c, end) /\ open' = entered /\ UNCHANGED <<queue, halted, ie>>
        PROVE  Effects(c, end)
    <2>1. PICK s \in CrossSources :
            /\ RaiseAt(o, s, end)
            /\ asserted' = [asserted EXCEPT ![o] = IF s \in iflags[o] THEN @ ELSE end]
      BY <1>7 DEF CrossRaise
    <2>2. s \in Source
      BY DEF Source
    <2>3. /\ iflags' \in [Core -> SUBSET Source]
          /\ raised' \in [Core -> [Source -> Nat]]
          /\ \A e \in Core : e # o => iflags'[e] = iflags[e] /\ raised'[e] = raised[e]
          /\ iflags'[o] = iflags[o] \cup {s}
          /\ \A r \in Source : raised'[o][r] =
                IF r = s /\ s \notin iflags[o] THEN end ELSE raised[o][r]
      BY <1>3, <1>5, <2>1, <2>2, RaiseAtFacts
    <2>4. /\ asserted' \in [Core -> Nat]
          /\ asserted'[c] = asserted[c]
          /\ asserted'[o] = IF s \in iflags[o] THEN asserted[o] ELSE end
      BY <1>3, <1>5, <2>1 DEF TypeOK
    <2>5. ASSUME NEW r \in iflags'[o]
          PROVE  \/ r \in iflags[o] /\ raised'[o][r] = raised[o][r]
                 \/ raised'[o][r] = end /\ asserted'[o] = end
      <3>1. r \in Source
        BY <1>3, <2>3
      <3>. QED
        BY <2>3, <2>4, <3>1
    <2>. QED
      BY <1>3, <1>4, <1>5, <1>7, <2>3, <2>4, <2>5 DEF Effects, TypeOK
  <1>8. ASSUME OwnRaise(c) /\ open' = entered /\ UNCHANGED <<queue, halted, ie>>
        PROVE  Effects(c, end)
    <2>1. PICK s \in DeviceSources : RaiseAt(c, s, clock[c]) /\ UNCHANGED asserted
      BY <1>8 DEF OwnRaise
    <2>2. s \in Source
      BY DEF Source
    <2>3. /\ iflags' \in [Core -> SUBSET Source]
          /\ raised' \in [Core -> [Source -> Nat]]
          /\ \A e \in Core : e # c => iflags'[e] = iflags[e] /\ raised'[e] = raised[e]
          /\ iflags'[c] = iflags[c] \cup {s}
          /\ \A r \in Source : raised'[c][r] =
                IF r = s /\ s \notin iflags[c] THEN clock[c] ELSE raised[c][r]
      BY <1>3, <1>5, <2>1, <2>2, RaiseAtFacts
    <2>4. ASSUME NEW r \in iflags'[c]
          PROVE  \/ r \in iflags[c] /\ raised'[c][r] = raised[c][r]
                 \/ raised'[c][r] = clock[c]
      <3>1. r \in Source
        BY <2>3
      <3>. QED
        BY <2>3, <3>1
    <2>. QED
      BY <1>3, <1>4, <1>5, <1>8, <2>1, <2>3, <2>4 DEF Effects, TypeOK
  <1>9. ASSUME Acknowledge(c) /\ open' = entered /\ UNCHANGED <<queue, halted, ie>>
        PROVE  Effects(c, end)
    <2>1. PICK s \in iflags[c] :
            /\ iflags' = [iflags EXCEPT ![c] = @ \ {s}]
            /\ raised' = [raised EXCEPT ![c][s] = 0]
            /\ UNCHANGED asserted
      BY <1>9 DEF Acknowledge
    <2>2. iflags' \in [Core -> SUBSET Source] /\ raised' \in [Core -> [Source -> Nat]]
      BY <1>5, <2>1 DEF TypeOK
    <2>3. iflags'[o] = iflags[o] /\ raised'[o] = raised[o]
      BY <1>3, <1>5, <2>1 DEF TypeOK
    <2>4. \A r \in iflags'[c] : r \in iflags[c] /\ raised'[c][r] = raised[c][r]
      BY <1>5, <2>1 DEF TypeOK
    <2>. QED
      BY <1>3, <1>4, <1>5, <1>9, <2>1, <2>2, <2>3, <2>4 DEF Effects, TypeOK
  <1>10. ASSUME /\ \E mask \in SUBSET Source : ie' = [ie EXCEPT ![c] = mask]
                /\ open' = entered
                /\ UNCHANGED <<queue, halted, iflags, asserted, raised>>
        PROVE  Effects(c, end)
    BY <1>3, <1>4, <1>5, <1>10 DEF Effects, TypeOK
  <1>11. ASSUME /\ \E b \in BOOLEAN : open' = [entered EXCEPT ![c] = b]
                /\ UNCHANGED <<queue, halted, ie, iflags, asserted, raised>>
        PROVE  Effects(c, end)
    BY <1>3, <1>4, <1>5, <1>11 DEF Effects, TypeOK
  <1>12. ASSUME /\ halted' = [halted EXCEPT ![c] = TRUE]
                /\ open' = entered
                /\ UNCHANGED <<queue, ie, iflags, asserted, raised>>
        PROVE  Effects(c, end)
    BY <1>3, <1>4, <1>5, <1>12 DEF Effects, TypeOK
  <1>13. ASSUME Schedules(c) /\ open' = entered /\ UNCHANGED <<halted, ie, iflags, asserted, raised>>
        PROVE  Effects(c, end)
    <2>1. PICK from \in 0 .. clock[c], d \in 1 .. MaxDelay, s \in DeviceSources :
            queue' = Insert(queue, [at |-> from + d, core |-> c, source |-> s])
      BY <1>13 DEF Schedules
    <2>2. from + d \in Nat
      BY <1>3, <1>5, CoresAssumption DEF TypeOK
    <2>3. [at |-> from + d, core |-> c, source |-> s] \in DeviceEvent
      BY <2>2 DEF DeviceEvent
    <2>4. queue' \in Seq(DeviceEvent)
      BY <1>5, <2>1, <2>3, InsertType
    <2>. QED
      BY <1>3, <1>4, <1>5, <1>13, <2>4 DEF Effects, TypeOK
  <1>14. Effects(c, end)
    BY <1>1, <1>6, <1>7, <1>8, <1>9, <1>10, <1>11, <1>12, <1>13 DEF end
  <1>. QED
    BY <1>2, <1>14 DEF end
(* The core the loop steps is awake, before the deadline, and behind the   *)
(* other core if that one is awake as well.                                *)
LEMMA StepFacts ==
  ASSUME NEW c \in Core, IInv, Step(c)
  PROVE  /\ phase = "slice" /\ ~halted[c] /\ clock[c] < deadline
         /\ \A d \in Core : halted[d] => ~Pending(d)
         /\ ~halted[Other(c)] => clock[c] <= clock[Other(c)]
         /\ lastStart' = clock[c]
         /\ UNCHANGED <<now, deadline, phase>>
  <1>1. /\ phase = "slice" /\ ~halted[c] /\ clock[c] < deadline
        /\ \A d \in Core : halted[d] => ~Pending(d)
        /\ lastStart' = clock[c]
        /\ UNCHANGED <<now, deadline, phase>>
    BY DEF Step, Sleeper, Selected, Runnable
  <1>2. ASSUME ~halted[Other(c)] PROVE clock[c] <= clock[Other(c)]
    <2>1. Other(c) \in Core /\ c \in {0, 1}
      BY DEF Core, Other
    <2>2. clock[c] \in Nat /\ clock[Other(c)] \in Nat /\ deadline \in Nat
      BY <2>1 DEF IInv, TypeOK
    <2>3. CASE Runnable(Other(c))
      <3>1. IF c = 0 THEN clock[0] <= clock[1] ELSE clock[1] < clock[0]
        BY <2>3 DEF Step, Selected
      <3>2. (c = 0 /\ Other(c) = 1) \/ (c = 1 /\ Other(c) = 0)
        BY <2>1 DEF Other
      <3>. QED
        BY <2>2, <3>1, <3>2
    <2>4. CASE ~Runnable(Other(c))
      BY <1>1, <1>2, <2>2, <2>4 DEF Runnable
    <2>. QED
      BY <2>3, <2>4
  <1>. QED
    BY <1>1, <1>2

LEMMA StepIInv == ASSUME NEW c \in Core PROVE IInv /\ Step(c) => IInv'
  <1>. SUFFICES ASSUME IInv, Step(c) PROVE IInv'
    OBVIOUS
  <1>1. PICK cost \in 1 .. MaxCost :
          /\ clock' = [clock EXCEPT ![c] = clock[c] + cost * Ticks(c)]
          /\ Effects(c, clock[c] + cost * Ticks(c))
    BY StepEffects
  <1>. DEFINE end == clock[c] + cost * Ticks(c)
              o == Other(c)
  <1>2. /\ o \in Core /\ o # c /\ \A d \in Core : d = c \/ d = o
        /\ end \in Nat /\ end > clock[c]
        /\ end <= clock[c] + 2 * MaxCost
    <2>1. cost * Ticks(c) \in Nat /\ cost * Ticks(c) >= 1 /\ cost * Ticks(c) <= 2 * MaxCost
      BY CoresAssumption DEF Ticks
    <2>2. clock[c] \in Nat
      BY DEF IInv, TypeOK
    <2>3. o \in Core /\ o # c /\ \A d \in Core : d = c \/ d = o
      BY DEF Core, Other
    <2>. QED
      BY <2>1, <2>2, <2>3, CoresAssumption
  <1>3. clock' = [clock EXCEPT ![c] = end] /\ Effects(c, end)
    BY <1>1
  <1>4. Other(o) = c /\ Other(c) = o
    BY DEF Core, Other
  <1>. HIDE DEF end, o
  <1>5. /\ phase = "slice" /\ ~halted[c] /\ clock[c] < deadline
        /\ \A d \in Core : halted[d] => ~Pending(d)
        /\ ~halted[o] => clock[c] <= clock[o]
        /\ lastStart' = clock[c]
        /\ UNCHANGED <<now, deadline, phase>>
    BY <1>4, StepFacts
  <1>6. /\ now \in Nat /\ deadline \in Nat /\ lastStart \in Nat
        /\ \A d \in Core : clock[d] \in Nat /\ asserted[d] \in Nat
    BY DEF IInv, TypeOK
  <1>7. clock' \in [Core -> Nat] /\ clock'[c] = end /\ clock'[o] = clock[o]
    BY <1>2, <1>3 DEF IInv, TypeOK
  <1>8. TypeOK'
    BY <1>3, <1>5, <1>6, <1>7 DEF IInv, TypeOK, Effects, DeviceEvent
  <1>9. Settled' /\ IdleQuiet' /\ StartsBefore'
    BY <1>5, <1>6 DEF IInv, Settled, IdleQuiet, StartsBefore
  <1>10. RunningInOrder'
    <2>1. halted'[o] = halted[o]
      BY <1>3, <1>4 DEF Effects
    <2>. QED
      BY <2>1, <1>2, <1>5, <1>6, <1>7 DEF RunningInOrder
  <1>11. asserted'[c] = asserted[c] /\ (asserted'[o] = asserted[o] \/ asserted'[o] = end)
    BY <1>3, <1>4 DEF Effects
  <1>12. asserted[c] <= clock[o] /\ asserted[o] <= clock[c]
    BY <1>2, <1>4 DEF IInv, StampBehind
  <1>13. StampBehind'
    BY <1>2, <1>4, <1>6, <1>7, <1>11, <1>12 DEF StampBehind
  <1>14. SleeperInOrder'
    <2>1. lastStart' <= Larger(clock'[c], asserted'[c])
      BY <1>2, <1>5, <1>6, <1>7, <1>11 DEF Larger
    <2>2. ASSUME halted'[o], Pending(o)' PROVE lastStart' <= Larger(clock'[o], asserted'[o])
      <3>1. halted[o] /\ ie'[o] = ie[o] /\ (iflags'[o] = iflags[o] \/ asserted'[o] = end)
        BY <1>3, <1>4, <2>2 DEF Effects
      <3>2. ~Pending(o)
        BY <1>2, <1>5, <3>1
      <3>3. asserted'[o] = end
        BY <2>2, <3>1, <3>2 DEF Pending
      <3>. QED
        BY <1>2, <1>5, <1>6, <1>7, <3>3 DEF Larger
    <2>. QED
      BY <1>2, <2>1, <2>2 DEF SleeperInOrder
  <1>15. RaisedByThen'
    <2>. SUFFICES ASSUME NEW d \in Core, NEW s \in iflags'[d]
                  PROVE  raised'[d][s] <= Larger(clock'[d], asserted'[d])
      BY DEF RaisedByThen
    <2>1. s \in iflags[d] => raised[d][s] <= Larger(clock[d], asserted[d]) /\ raised[d][s] \in Nat
      BY DEF IInv, RaisedByThen, TypeOK, Source
    <2>2. CASE d = c
      <3>1. (s \in iflags[c] /\ raised'[c][s] = raised[c][s]) \/ raised'[c][s] = clock[c]
        BY <1>3, <2>2 DEF Effects
      <3>. QED
        BY <1>2, <1>6, <1>7, <1>11, <2>1, <2>2, <3>1 DEF Larger
    <2>3. CASE d = o
      <3>1. \/ s \in iflags[o] /\ raised'[o][s] = raised[o][s]
            \/ raised'[o][s] = end /\ asserted'[o] = end
        BY <1>3, <1>4, <2>3 DEF Effects
      <3>. QED
        BY <1>2, <1>6, <1>7, <1>11, <1>12, <2>1, <2>3, <3>1 DEF Larger
    <2>. QED
      BY <1>2, <2>2, <2>3
  <1>16. ClockBound'
    <2>1. end <= deadline + 2 * MaxCost - 1
      BY <1>2, <1>5, <1>6, CoresAssumption
    <2>. QED
      BY <2>1, <1>2, <1>5, <1>7 DEF IInv, ClockBound
  <1>. QED
    BY <1>8, <1>9, <1>10, <1>13, <1>14, <1>15, <1>16 DEF IInv

LEMMA StutterIInv == IInv /\ UNCHANGED vars => IInv'
  BY DEF IInv, vars, irqVars, TypeOK, Settled, IdleQuiet, StartsBefore, RunningInOrder,
         SleeperInOrder, StampBehind, RaisedByThen, ClockBound, Pending, HasDue

LEMMA NextIInv == IInv /\ [Next]_vars => IInv'
  <1>. SUFFICES ASSUME IInv, [Next]_vars PROVE IInv'
    OBVIOUS
  <1>1. CASE StartSlice
    BY <1>1, StartSliceIInv
  <1>2. CASE PollGxFifo
    BY <1>2, PollGxFifoIInv
  <1>3. CASE EndSlice
    BY <1>3, EndSliceIInv
  <1>4. CASE Dispatch
    BY <1>4, DispatchIInv
  <1>5. CASE EndDispatch
    BY <1>5, EndDispatchIInv
  <1>6. ASSUME NEW c \in Core, Wake(c) PROVE IInv'
    BY <1>6, WakeIInv
  <1>7. ASSUME NEW c \in Core, Step(c) PROVE IInv'
    BY <1>7, StepIInv
  <1>8. CASE UNCHANGED vars
    BY <1>8, StutterIInv
  <1>. QED
    BY <1>1, <1>2, <1>3, <1>4, <1>5, <1>6, <1>7, <1>8 DEF Next
-----------------------------------------------------------------------------
(* Every state the two-core loop reaches satisfies the invariant.          *)
THEOREM Invariant == Spec => []IInv
  <1>. QED
    BY InitIInv, NextIInv, PTL DEF Spec

(* The state of the loop keeps its types.                                  *)
THEOREM TypeCorrect == Spec => []TypeOK
  <1>1. IInv => TypeOK
    BY DEF IInv
  <1>. QED
    BY <1>1, Invariant, PTL

(* Whatever the instructions cost, events are only dispatched with both    *)
(* cores at the deadline or past it by less than one instruction.          *)
THEOREM BarrierHolds == Spec => []BarrierReached
  <1>1. IInv => BarrierReached
    <2>. SUFFICES ASSUME IInv, phase = "dispatch", NEW c \in Core
                  PROVE  clock[c] \in deadline .. deadline + 2 * MaxCost - 1
      BY DEF BarrierReached
    <2>1. deadline \in Nat /\ clock[c] \in Nat
      BY DEF IInv, TypeOK
    <2>2. clock[c] >= deadline /\ clock[c] <= deadline + 2 * MaxCost - 1
      BY DEF IInv, Settled, ClockBound
    <2>. QED
      BY <2>1, <2>2, CoresAssumption
  <1>. QED
    BY <1>1, Invariant, PTL

(* The instructions of the two cores run in the order of their clocks,     *)
(* through any halting, waking and overshooting of deadlines.              *)
THEOREM OneTimeline == Spec => InstructionsInOrder
  <1>1. IInv /\ [Next]_vars => [lastStart' >= lastStart]_vars
    <2>. SUFFICES ASSUME IInv, [Next]_vars PROVE lastStart' >= lastStart
      OBVIOUS
    <2>1. lastStart \in Nat
      BY DEF IInv, TypeOK
    <2>2. CASE UNCHANGED lastStart
      BY <2>1, <2>2
    <2>3. ASSUME NEW c \in Core, Step(c) PROVE lastStart' >= lastStart
      <3>1. lastStart' = clock[c] /\ ~halted[c]
        BY <2>3, StepFacts
      <3>. QED
        BY <3>1, <2>1 DEF IInv, RunningInOrder, TypeOK
    <2>. QED
      BY <2>2, <2>3 DEF Next, StartSlice, PollGxFifo, EndSlice, Dispatch, EndDispatch, Wake, vars
  <1>. QED
    BY <1>1, Invariant, PTL DEF Spec, InstructionsInOrder

(* No core enters its interrupt handler before the time at which what it   *)
(* will find there was raised, by the other core or by a device.           *)
THEOREM NoEffectBeforeCause == Spec => DeliveredAfterRaise
  <1>. DEFINE Caused ==
         \A c \in Core : (LineReady(c) /\ ~halted[c] /\ clock'[c] # clock[c])
           => \A s \in ie[c] \cap iflags[c] : raised[c][s] <= clock[c]
  <1>1. IInv => Caused
    <2>. SUFFICES ASSUME IInv, NEW c \in Core, LineReady(c), NEW s \in ie[c] \cap iflags[c]
                  PROVE  raised[c][s] <= clock[c]
      OBVIOUS
    <2>1. raised[c][s] <= Larger(clock[c], asserted[c])
      BY DEF IInv, RaisedByThen
    <2>2. clock[c] \in Nat /\ asserted[c] \in Nat /\ clock[c] >= asserted[c]
      BY DEF IInv, TypeOK, LineReady
    <2>. QED
      BY <2>1, <2>2 DEF Larger
  <1>2. IInv => [Caused]_vars
    BY <1>1
  <1>. HIDE DEF Caused
  <1>3. Spec => [][Caused]_vars
    BY <1>2, Invariant, PTL DEF Spec
  <1>. QED
    BY <1>3 DEF DeliveredAfterRaise, Caused

(* A sleeping core is woken no further ahead than the other core.          *)
THEOREM SleeperResumesInTime == Spec => WokenAtOnce
  <1>. DEFINE InTime ==
         \A c \in Core : halted[c] /\ ~halted'[c] =>
           clock'[c] = clock[c] \/ clock'[c] <= clock[Other(c)]
  <1>1. IInv /\ [Next]_vars => [InTime]_vars
    <2>. SUFFICES ASSUME IInv, [Next]_vars, NEW c \in Core, halted[c], ~halted'[c]
                  PROVE  clock'[c] = clock[c] \/ clock'[c] <= clock[Other(c)]
      OBVIOUS
    <2>1. PICK d \in Core : Wake(d) \/ Step(d)
      BY DEF Next, StartSlice, PollGxFifo, EndSlice, Dispatch, EndDispatch, vars
    <2>2. CASE Wake(d)
      <3>1. c = d
        BY <2>2 DEF Wake, IInv, TypeOK
      <3>2. clock'[c] = Larger(clock[c], asserted[c])
        BY <2>2, <3>1 DEF Wake, IInv, TypeOK
      <3>3. asserted[c] <= clock[Other(c)]
        BY DEF IInv, StampBehind
      <3>. QED
        BY <3>2, <3>3 DEF Larger
    <2>3. CASE Step(d)
      <3>1. ~halted[d]
        BY <2>3, StepFacts
      <3>2. c # d
        BY <3>1
      <3>3. PICK cost \in 1 .. MaxCost :
              clock' = [clock EXCEPT ![d] = clock[d] + cost * Ticks(d)]
        BY <2>3, StepEffects
      <3>. QED
        BY <3>2, <3>3 DEF IInv, TypeOK
    <2>. QED
      BY <2>1, <2>2, <2>3
  <1>. HIDE DEF InTime
  <1>2. Spec => [][InTime]_vars
    BY <1>1, Invariant, PTL DEF Spec
  <1>. QED
    BY <1>2 DEF WokenAtOnce, InTime
=============================================================================

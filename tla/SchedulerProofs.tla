--------------------------- MODULE SchedulerProofs ---------------------------
(***************************************************************************)
(* Proofs about the event scheduler, for every bound of the timeline and   *)
(* every number of events.                                                 *)
(*                                                                         *)
(* Dispatch order is not inductive: what keeps it is that every event that *)
(* has fired precedes every event that is still pending.  A pop takes the  *)
(* least pending event, so that stays true of the rest of the heap; a      *)
(* request is made at `now` or later, when all that has fired lies at      *)
(* `now` or before, and takes a sequence number no event has had yet.      *)
(***************************************************************************)
EXTENDS Scheduler, QueueProofs

(* Sequence numbers below next_sequence are taken, and each only once. *)
SequencesTaken ==
  /\ \A e \in events : e.sequence < nextSequence
  /\ \A i \in 1 .. Len(fired) : fired[i].sequence < nextSequence
  /\ \A e, f \in events : e.sequence = f.sequence => e = f

(* What has fired lies in the past and precedes what is pending. *)
FiredFirst ==
  \A i \in 1 .. Len(fired) :
    /\ fired[i].at <= now
    /\ \A e \in events : Before(fired[i], e)

(* The latest instruction began before the present instant. *)
StartedBefore == started < now

IInv ==
  /\ TypeOK
  /\ SequencesTaken
  /\ FiredFirst
  /\ StartedBefore
  /\ DispatchOrder
  /\ Conserved
  /\ LateByOneInstruction

-----------------------------------------------------------------------------
(* The timeline of the model is made of natural numbers. *)
LEMMA TimeIsNat == Time \subseteq Nat
  BY SchedulerAssumption DEF Time

(* The initial state of the scheduler satisfies the invariant. *)
LEMMA InitIInv == Init => IInv
  <1>. SUFFICES ASSUME Init PROVE IInv
    OBVIOUS
  <1>2. halted \in BOOLEAN
    BY Zenon DEF Init
  <1>1. TypeOK
    BY <1>2 DEF Init, TypeOK, Event
  <1>. QED
    BY <1>1 DEF Init, IInv, SequencesTaken, FiredFirst, StartedBefore, DispatchOrder,
                Conserved, LateByOneInstruction

(* Scheduling an event at `now` or later, with or without popping the      *)
(* least event first: the part of the step that ScheduleAt stands for.     *)
LEMMA ScheduleAtEffect ==
  ASSUME TypeOK, SequencesTaken,
         NEW remaining \in SUBSET events, NEW at \in Time,
         ScheduleAt(remaining, at)
  PROVE  LET new == [at |-> at, sequence |-> nextSequence]
         IN  /\ new \in Event
             /\ at >= now
             /\ events' = remaining \cup {new}
             /\ nextSequence' = nextSequence + 1
             /\ events' \subseteq Event
             /\ \A e \in events' : e.sequence < nextSequence'
             /\ \A e, f \in events' : e.sequence = f.sequence => e = f
  <1>. DEFINE new == [at |-> at, sequence |-> nextSequence]
  <1>1. new \in Event /\ new.sequence = nextSequence /\ new.at = at
    BY TimeIsNat DEF TypeOK, Event
  <1>2. events' = remaining \cup {new} /\ nextSequence' = nextSequence + 1 /\ at >= now
    BY DEF ScheduleAt
  <1>3. events' \subseteq Event
    BY <1>1, <1>2 DEF TypeOK
  <1>4. \A e \in remaining : e \in events /\ e.sequence \in Nat /\ e.sequence < nextSequence
    BY DEF TypeOK, Event, SequencesTaken
  <1>5. \A e \in events' : e.sequence < nextSequence'
    BY <1>1, <1>2, <1>4 DEF TypeOK
  <1>6. \A e, f \in events' : e.sequence = f.sequence => e = f
    <2>. SUFFICES ASSUME NEW e \in events', NEW f \in events', e.sequence = f.sequence
                  PROVE  e = f
      OBVIOUS
    <2>1. CASE e \in remaining /\ f \in remaining
      BY <2>1 DEF SequencesTaken
    <2>2. CASE e = new \/ f = new
      BY <2>2, <1>1, <1>2, <1>4 DEF TypeOK
    <2>. QED
      BY <2>1, <2>2, <1>2
  <1>. HIDE DEF new
  <1>. QED
    BY <1>1, <1>2, <1>3, <1>5, <1>6 DEF new

(* A request made while the machine runs leaves the invariant standing. *)
LEMMA RequestIInv == IInv /\ Request => IInv'
  <1>. SUFFICES ASSUME IInv, Request PROVE IInv'
    OBVIOUS
  <1>. USE DEF IInv
  <1>1. PICK at \in Time : ScheduleAt(events, at)
    BY DEF Request
  <1>2. UNCHANGED <<now, phase, halted, fired, started>>
    BY DEF Request
  <1>. DEFINE new == [at |-> at, sequence |-> nextSequence]
  <1>3. /\ new \in Event
        /\ at >= now
        /\ events' = events \cup {new}
        /\ nextSequence' = nextSequence + 1
        /\ events' \subseteq Event
        /\ \A e \in events' : e.sequence < nextSequence'
        /\ \A e, f \in events' : e.sequence = f.sequence => e = f
    BY <1>1, ScheduleAtEffect
  <1>4. new.at = at /\ new.sequence = nextSequence
    OBVIOUS
  <1>. HIDE DEF new
  <1>5. TypeOK'
    BY <1>2, <1>3 DEF TypeOK
  <1>6. \A i \in 1 .. Len(fired) : fired[i] \in Event
    BY DEF TypeOK
  <1>7. SequencesTaken'
    BY <1>2, <1>3, <1>6 DEF SequencesTaken, TypeOK, Event
  <1>8. FiredFirst'
    <2>1. \A i \in 1 .. Len(fired) : Before(fired[i], new)
      BY <1>3, <1>4, <1>6 DEF FiredFirst, SequencesTaken, Before, Event, TypeOK
    <2>. QED
      BY <2>1, <1>2, <1>3 DEF FiredFirst, Before
  <1>9. StartedBefore' /\ DispatchOrder'
    BY <1>2 DEF StartedBefore, DispatchOrder, Before
  <1>10. Conserved'
    <2>1. \A i \in 1 .. Len(fired) : fired[i].sequence # new.sequence
      BY <1>4, <1>6 DEF SequencesTaken, Event, TypeOK
    <2>2. \A e \in events' : \A i \in 1 .. Len(fired) : fired[i].sequence # e.sequence
      BY <2>1, <1>3 DEF Conserved
    <2>3. \A s \in 0 .. nextSequence' - 1 :
             \/ \E e \in events' : e.sequence = s
             \/ \E i \in 1 .. Len(fired) : fired[i].sequence = s
      <3>. SUFFICES ASSUME NEW s \in 0 .. nextSequence
                    PROVE  \/ \E e \in events' : e.sequence = s
                           \/ \E i \in 1 .. Len(fired) : fired[i].sequence = s
        BY <1>3 DEF TypeOK
      <3>1. CASE s = nextSequence
        BY <3>1, <1>3, <1>4
      <3>2. CASE s \in 0 .. nextSequence - 1
        BY <3>2, <1>3 DEF Conserved
      <3>. QED
        BY <3>1, <3>2 DEF TypeOK
    <2>. QED
      BY <2>2, <2>3, <1>2 DEF Conserved
  <1>11. LateByOneInstruction'
    BY <1>2, <1>3, <1>4 DEF LateByOneInstruction, StartedBefore, TypeOK, Event
  <1>. QED
    BY <1>5, <1>7, <1>8, <1>9, <1>10, <1>11

(* A step that moves time on, or not at all, and touches no event. *)
LEMMA TimeStepIInv ==
  ASSUME IInv, UNCHANGED <<nextSequence, events, fired>>,
         now' \in Nat, now' >= now, StartedBefore', started' \in Int,
         phase' \in {"loop", "cpu", "dispatch", "stall"}, halted' \in BOOLEAN,
         \A e \in events : started' < e.at
  PROVE  IInv'
  <1>. USE DEF IInv
  <1>1. TypeOK'
    BY DEF TypeOK
  <1>2. SequencesTaken' /\ DispatchOrder' /\ Conserved' /\ LateByOneInstruction'
    BY DEF SequencesTaken, DispatchOrder, Conserved, LateByOneInstruction, Before
  <1>3. \A i \in 1 .. Len(fired) : fired[i].at \in Nat
    <2>1. \A i \in 1 .. Len(fired) : fired[i] \in Event
      BY DEF TypeOK
    <2>. QED
      BY <2>1 DEF Event
  <1>4. \A i \in 1 .. Len(fired) : fired[i].at <= now'
    BY <1>3 DEF FiredFirst, TypeOK
  <1>5. FiredFirst'
    BY <1>4 DEF FiredFirst, Before
  <1>. QED
    BY <1>1, <1>2, <1>5

(* Popping the least due event and handing it to its handler, before what  *)
(* the handler schedules is queued.                                        *)
LEMMA PopEffect ==
  ASSUME IInv, NEW e \in events, IsNext(e), e.at <= now, fired' = Append(fired, e)
  PROVE  /\ fired' \in Seq(Event)
         /\ Len(fired') = Len(fired) + 1
         /\ fired'[Len(fired')] = e
         /\ \A i \in 1 .. Len(fired) : fired'[i] = fired[i]
         /\ DispatchOrder'
         /\ \A i \in 1 .. Len(fired') : fired'[i].at <= now
         /\ \A i \in 1 .. Len(fired') : \A f \in events \ {e} : Before(fired'[i], f)
         /\ \A i \in 1 .. Len(fired') : \A f \in events \ {e} : fired'[i].sequence # f.sequence
         /\ \A i \in 1 .. Len(fired') : fired'[i].sequence < nextSequence
         /\ \A s \in 0 .. nextSequence - 1 :
               \/ \E f \in events \ {e} : f.sequence = s
               \/ \E i \in 1 .. Len(fired') : fired'[i].sequence = s
  <1>. USE DEF IInv
  <1>1. e \in Event /\ fired \in Seq(Event) /\ Len(fired) \in Nat
    BY DEF TypeOK
  <1>2. /\ fired' \in Seq(Event)
        /\ Len(fired') = Len(fired) + 1
        /\ fired'[Len(fired')] = e
        /\ \A i \in 1 .. Len(fired) : fired'[i] = fired[i]
    BY <1>1
  <1>3. ASSUME NEW i \in 1 .. Len(fired')
        PROVE  \/ i \in 1 .. Len(fired) /\ fired'[i] = fired[i]
               \/ i = Len(fired') /\ fired'[i] = e
    BY <1>1, <1>2
  <1>4. DispatchOrder'
    <2>. SUFFICES ASSUME NEW i \in 1 .. Len(fired'), NEW j \in 1 .. Len(fired'), i < j
                  PROVE  Before(fired'[i], fired'[j])
      BY DEF DispatchOrder, Before
    <2>1. i \in 1 .. Len(fired) /\ fired'[i] = fired[i]
      BY <1>1, <1>2
    <2>2. CASE j \in 1 .. Len(fired) /\ fired'[j] = fired[j]
      BY <2>1, <2>2 DEF DispatchOrder
    <2>3. CASE fired'[j] = e
      BY <2>1, <2>3 DEF FiredFirst
    <2>. QED
      BY <2>2, <2>3, <1>3
  <1>5. \A i \in 1 .. Len(fired') : fired'[i].at <= now
    BY <1>3 DEF FiredFirst
  <1>6. \A i \in 1 .. Len(fired') : \A f \in events \ {e} : Before(fired'[i], f)
    BY <1>3 DEF FiredFirst, IsNext
  <1>7. \A i \in 1 .. Len(fired') : \A f \in events \ {e} : fired'[i].sequence # f.sequence
    BY <1>3 DEF Conserved, SequencesTaken
  <1>8. \A i \in 1 .. Len(fired') : fired'[i].sequence < nextSequence
    BY <1>3 DEF SequencesTaken
  <1>9. \A s \in 0 .. nextSequence - 1 :
          \/ \E f \in events \ {e} : f.sequence = s
          \/ \E i \in 1 .. Len(fired') : fired'[i].sequence = s
    <2>. SUFFICES ASSUME NEW s \in 0 .. nextSequence - 1,
                         ~ \E f \in events \ {e} : f.sequence = s
                  PROVE  \E i \in 1 .. Len(fired') : fired'[i].sequence = s
      OBVIOUS
    <2>1. CASE \E f \in events : f.sequence = s
      <3>1. e.sequence = s
        BY <2>1
      <3>. QED
        BY <3>1, <1>1, <1>2
    <2>2. CASE \E i \in 1 .. Len(fired) : fired[i].sequence = s
      <3>1. PICK i \in 1 .. Len(fired) : fired[i].sequence = s
        BY <2>2
      <3>2. i \in 1 .. Len(fired') /\ fired'[i].sequence = s
        BY <3>1, <1>1, <1>2
      <3>. QED
        BY <3>2
    <2>. QED
      BY <2>1, <2>2 DEF Conserved
  <1>. QED
    BY <1>2, <1>4, <1>5, <1>6, <1>7, <1>8, <1>9

(* One turn of the dispatch loop leaves the invariant standing, whether    *)
(* the handler schedules a follow-up event or not.                         *)
LEMMA DispatchOneIInv == IInv /\ DispatchOne => IInv'
  <1>. SUFFICES ASSUME IInv, DispatchOne PROVE IInv'
    OBVIOUS
  <1>. USE DEF IInv
  <1>1. PICK e \in events :
          /\ IsNext(e)
          /\ e.at <= now
          /\ fired' = Append(fired, e)
          /\ \/ events' = events \ {e} /\ UNCHANGED nextSequence
             \/ \E at \in Time : ScheduleAt(events \ {e}, at)
    BY DEF DispatchOne
  <1>2. UNCHANGED <<now, phase, halted, started>>
    BY DEF DispatchOne
  <1>. DEFINE rest == events \ {e}
  <1>3. /\ fired' \in Seq(Event)
        /\ DispatchOrder'
        /\ \A i \in 1 .. Len(fired') : fired'[i].at <= now
        /\ \A i \in 1 .. Len(fired') : \A f \in rest : Before(fired'[i], f)
        /\ \A i \in 1 .. Len(fired') : \A f \in rest : fired'[i].sequence # f.sequence
        /\ \A i \in 1 .. Len(fired') : fired'[i].sequence < nextSequence
        /\ \A s \in 0 .. nextSequence - 1 :
              \/ \E f \in rest : f.sequence = s
              \/ \E i \in 1 .. Len(fired') : fired'[i].sequence = s
    BY <1>1, PopEffect
  <1>4. StartedBefore'
    BY <1>2 DEF StartedBefore
  <1>5. CASE events' = rest /\ UNCHANGED nextSequence
    <2>1. TypeOK' /\ SequencesTaken'
      BY <1>2, <1>3, <1>5 DEF TypeOK, SequencesTaken
    <2>2. FiredFirst'
      BY <1>2, <1>3, <1>5 DEF FiredFirst, Before
    <2>3. Conserved' /\ LateByOneInstruction'
      BY <1>2, <1>3, <1>5 DEF Conserved, LateByOneInstruction
    <2>. QED
      BY <2>1, <2>2, <2>3, <1>3, <1>4
  <1>6. CASE \E at \in Time : ScheduleAt(rest, at)
    <2>1. PICK at \in Time : ScheduleAt(rest, at)
      BY <1>6
    <2>. DEFINE new == [at |-> at, sequence |-> nextSequence]
    <2>2. /\ new \in Event
          /\ at >= now
          /\ events' = rest \cup {new}
          /\ nextSequence' = nextSequence + 1
          /\ events' \subseteq Event
          /\ \A f \in events' : f.sequence < nextSequence'
          /\ \A f, g \in events' : f.sequence = g.sequence => f = g
      BY <2>1, ScheduleAtEffect
    <2>3. new.at = at /\ new.sequence = nextSequence
      OBVIOUS
    <2>. HIDE DEF new
    <2>4. \A i \in 1 .. Len(fired') : fired'[i].at \in Nat /\ fired'[i].sequence \in Nat
      <3>1. \A i \in 1 .. Len(fired') : fired'[i] \in Event
        BY <1>3
      <3>. QED
        BY <3>1 DEF Event
    <2>5. /\ now \in Nat /\ nextSequence \in Nat /\ at \in Nat
          /\ now' \in Nat /\ nextSequence' \in Nat /\ started' \in Int
          /\ phase' \in {"loop", "cpu", "dispatch", "stall"} /\ halted' \in BOOLEAN
      BY <1>2, <2>1, <2>2, TimeIsNat DEF TypeOK
    <2>6. TypeOK' /\ SequencesTaken'
      <3>1. TypeOK'
        BY <1>3, <2>2, <2>5 DEF TypeOK
      <3>2. \A i \in 1 .. Len(fired') : fired'[i].sequence < nextSequence'
        BY <1>3, <2>2, <2>4, <2>5
      <3>. QED
        BY <2>2, <3>1, <3>2 DEF SequencesTaken
    <2>7. \A i \in 1 .. Len(fired') : Before(fired'[i], new)
      <3>. SUFFICES ASSUME NEW i \in 1 .. Len(fired') PROVE Before(fired'[i], new)
        OBVIOUS
      <3>1. fired'[i].at <= at /\ fired'[i].sequence < nextSequence
        BY <1>3, <2>2, <2>4, <2>5
      <3>. QED
        BY <2>3, <2>4, <2>5, <3>1 DEF Before
    <2>8. FiredFirst'
      BY <1>2, <1>3, <2>2, <2>7 DEF FiredFirst, Before
    <2>9. Conserved'
      <3>1. \A f \in events' : \A i \in 1 .. Len(fired') : fired'[i].sequence # f.sequence
        BY <1>3, <2>2, <2>3, <2>4 DEF TypeOK
      <3>2. \A s \in 0 .. nextSequence' - 1 :
              \/ \E f \in events' : f.sequence = s
              \/ \E i \in 1 .. Len(fired') : fired'[i].sequence = s
        <4>. SUFFICES ASSUME NEW s \in 0 .. nextSequence
                      PROVE  \/ \E f \in events' : f.sequence = s
                             \/ \E i \in 1 .. Len(fired') : fired'[i].sequence = s
          BY <2>2 DEF TypeOK
        <4>1. CASE s = nextSequence
          BY <4>1, <2>2, <2>3
        <4>2. CASE s \in 0 .. nextSequence - 1
          BY <4>2, <1>3, <2>2
        <4>. QED
          BY <4>1, <4>2 DEF TypeOK
      <3>. QED
        BY <3>1, <3>2 DEF Conserved
    <2>10. LateByOneInstruction'
      BY <1>2, <2>2, <2>3 DEF LateByOneInstruction, StartedBefore, TypeOK, Event
    <2>. QED
      BY <2>6, <2>8, <2>9, <2>10, <1>3, <1>4
  <1>. QED
    BY <1>1, <1>5, <1>6

(* Every step of the scheduler leaves the invariant standing. *)
LEMMA NextIInv == IInv /\ [Next]_vars => IInv'
  <1>. SUFFICES ASSUME IInv, [Next]_vars PROVE IInv'
    OBVIOUS
  <1>1. CASE Request
    BY <1>1, RequestIInv
  <1>2. CASE Fetch
    <2>1. PICK t \in Time : t > now /\ now' = t
      BY <1>2 DEF Fetch
    <2>. QED
      BY <1>2, <2>1, TimeIsNat, TimeStepIInv DEF Fetch, StartedBefore, IInv, TypeOK
  <1>3. CASE Access \/ Stall
    <2>1. PICK t \in Time : t > now /\ now' = t
      BY <1>3 DEF Access, Stall
    <2>2. /\ UNCHANGED <<nextSequence, events, fired>>
          /\ now' \in Nat /\ now' >= now /\ StartedBefore' /\ started' \in Int
          /\ phase' \in {"loop", "cpu", "dispatch", "stall"} /\ halted' \in BOOLEAN
      BY <1>3, <2>1, TimeIsNat DEF Access, Stall, StartedBefore, IInv, TypeOK
    <2>3. \A e \in events : started' < e.at
      BY <1>3 DEF Access, Stall, IInv, LateByOneInstruction
    <2>. QED
      BY <2>2, <2>3, TimeStepIInv
  <1>4. CASE HaltedJump
    <2>1. PICK d \in Time : now' = IF d > now THEN d ELSE now
      BY <1>4 DEF HaltedJump
    <2>2. d \in Nat
      BY TimeIsNat
    <2>3. /\ UNCHANGED <<nextSequence, events, fired>>
          /\ now' \in Nat /\ now' >= now /\ StartedBefore' /\ started' \in Int
          /\ phase' \in {"loop", "cpu", "dispatch", "stall"} /\ halted' \in BOOLEAN
      BY <1>4, <2>1, <2>2 DEF HaltedJump, StartedBefore, IInv, TypeOK
    <2>4. \A f \in events : started' < f.at
      BY <1>4 DEF HaltedJump, IInv, LateByOneInstruction
    <2>. QED
      BY <2>3, <2>4, TimeStepIInv
  <1>5. CASE Retire \/ BeginDispatch \/ EndDispatch \/ EndStall \/ UNCHANGED vars
    <2>1. /\ UNCHANGED <<now, nextSequence, events, fired, started>>
          /\ phase' \in {"loop", "cpu", "dispatch", "stall"} /\ halted' \in BOOLEAN
      BY <1>5 DEF Retire, BeginDispatch, EndDispatch, EndStall, MayWake, vars, IInv, TypeOK
    <2>2. now' \in Nat /\ now' >= now /\ StartedBefore' /\ started' \in Int
      BY <2>1 DEF StartedBefore, IInv, TypeOK
    <2>3. \A e \in events : started' < e.at
      BY <2>1 DEF IInv, LateByOneInstruction
    <2>. QED
      BY <2>1, <2>2, <2>3, TimeStepIInv
  <1>6. CASE DispatchOne
    BY <1>6, DispatchOneIInv
  <1>. QED
    BY <1>1, <1>2, <1>3, <1>4, <1>5, <1>6 DEF Next

(* The invariant holds in every reachable state, for any bounds. *)
THEOREM Invariant == Spec => []IInv
  <1>. QED
    BY InitIInv, NextIInv, PTL DEF Spec

(* The state of the scheduler is always well formed.                       *)
THEOREM TypeCorrect == Spec => []TypeOK
  <1>1. IInv => TypeOK
    BY DEF IInv
  <1>. QED
    BY <1>1, Invariant, PTL

(* Deterministic dispatch: events are handed out in strictly increasing    *)
(* (at, sequence) order over the whole run, whatever the instructions,     *)
(* halts, cascades and overshoots between the pops.                        *)
THEOREM DispatchIsOrdered == Spec => []DispatchOrder
  <1>1. IInv => DispatchOrder
    BY DEF IInv
  <1>. QED
    BY <1>1, Invariant, PTL

(* No event the machine scheduled is lost, and none fires twice. *)
THEOREM EventsConserved == Spec => []Conserved
  <1>1. IInv => Conserved
    BY DEF IInv
  <1>. QED
    BY <1>1, Invariant, PTL

(* An event is late by the rest of one instruction at most: none begins at *)
(* or after the time of a pending event.                                   *)
THEOREM LateByOneInstructionAtMost == Spec => []LateByOneInstruction
  <1>1. IInv => LateByOneInstruction
    BY DEF IInv
  <1>. QED
    BY <1>1, Invariant, PTL
-----------------------------------------------------------------------------
(* The stable queue. Two sequences that give the same events in pop order  *)
(* are the same: at the first index where they differ, each would have the *)
(* other's event further on, and so ahead of its own.                      *)
LEMMA PopOrderUnique ==
  ASSUME NEW E \in SUBSET Event, NEW q \in Seq(E), NEW r \in Seq(E),
         PopOrder(q, E), PopOrder(r, E), Len(q) = Len(r)
  PROVE  q = r
  <1>. DEFINE T == {i \in Nat : i \in 1 .. Len(q) /\ q[i] # r[i]}
  <1>1. SUFFICES ASSUME T # {} PROVE FALSE
    <2>1. \A i \in 1 .. Len(q) : q[i] = r[i]
      BY <1>1
    <2>. QED
      BY <2>1
  <1>2. PICK m \in T : \A n \in T : m <= n
    BY <1>1, LeastNat
  <1>3. /\ m \in 1 .. Len(q) /\ q[m] # r[m]
        /\ \A i \in 1 .. Len(q) : i < m => q[i] = r[i]
    BY <1>2
  <1>4. q[m] \in E /\ r[m] \in E /\ q[m] \in Event /\ r[m] \in Event
    BY <1>3
  <1>8. \A f \in Event : ~Before(f, f)
    BY SMTT(30) DEF Before, Event
  <1>9. DOMAIN q = 1 .. Len(q) /\ DOMAIN r = 1 .. Len(q)
    OBVIOUS
  <1>5. \A i, j \in 1 .. Len(q) : i < j => Before(q[i], q[j]) /\ Before(r[i], r[j])
    BY <1>9, Zenon DEF PopOrder
  <1>10. \A e \in E : (\E i \in 1 .. Len(q) : q[i] = e) /\ (\E i \in 1 .. Len(q) : r[i] = e)
    BY <1>9, Zenon DEF PopOrder
  <1>6. Before(q[m], r[m])
    <2>1. PICK i \in 1 .. Len(q) : q[i] = r[m]
      BY <1>4, <1>10, Zenon
    <2>2. CASE i < m
      <3>1. r[i] = r[m] /\ Before(r[i], r[m])
        BY <1>3, <1>5, <2>1, <2>2
      <3>. QED
        BY <1>4, <1>8, <3>1
    <2>3. CASE i > m
      BY <1>3, <1>5, <2>1, <2>3
    <2>. QED
      BY <1>3, <2>1, <2>2, <2>3
  <1>7. Before(r[m], q[m])
    <2>1. PICK i \in 1 .. Len(q) : r[i] = q[m]
      BY <1>4, <1>10, Zenon
    <2>2. CASE i < m
      <3>1. q[i] = q[m] /\ Before(q[i], q[m])
        BY <1>3, <1>5, <2>1, <2>2
      <3>. QED
        BY <1>4, <1>8, <3>1
    <2>3. CASE i > m
      BY <1>3, <1>5, <2>1, <2>3
    <2>. QED
      BY <1>3, <2>1, <2>2, <2>3
  <1>. QED
    BY SMTT(30), <1>4, <1>6, <1>7 DEF Before, Event

(* A sequence in pop order is as long as its events are many. *)
LEMMA PopOrderLength ==
  ASSUME NEW E \in SUBSET Event, NEW q \in Seq(E), PopOrder(q, E)
  PROVE  IsFiniteSet(E) /\ Cardinality(E) = Len(q)
  <1>1. q \in [1 .. Len(q) -> E] /\ DOMAIN q = 1 .. Len(q) /\ Len(q) \in Nat
    OBVIOUS
  <1>2. \A i, j \in 1 .. Len(q) : i < j => q[i] # q[j]
    <2>1. \A i, j \in 1 .. Len(q) : i < j => Before(q[i], q[j]) /\ q[i] \in Event
      BY <1>1 DEF PopOrder
    <2>. QED
      BY SMTT(30), <2>1 DEF Before, Event
  <1>3. q \in Bijection(1 .. Len(q), E)
    <2>1. q \in Injection(1 .. Len(q), E)
      BY <1>1, <1>2 DEF Injection, IsInjective
    <2>2. q \in Surjection(1 .. Len(q), E)
      BY <1>1 DEF Surjection, PopOrder
    <2>. QED
      BY <2>1, <2>2 DEF Bijection
  <1>4. ExistsBijection(1 .. Len(q), E)
    BY <1>3 DEF ExistsBijection
  <1>. QED
    BY <1>1, <1>4, IntervalSize, FS_Bijection

LEMMA InPopOrderIs ==
  ASSUME NEW E \in SUBSET Event, NEW q \in Seq(E), PopOrder(q, E)
  PROVE  InPopOrder(E) = q
  <1>1. Cardinality(E) = Len(q)
    BY PopOrderLength
  <1>2. q \in [1 .. Cardinality(E) -> E]
    BY <1>1
  <1>3. PICK r : r = InPopOrder(E)
    OBVIOUS
  <1>4. r \in [1 .. Cardinality(E) -> E] /\ PopOrder(r, E)
    BY <1>2, <1>3, Zenon DEF InPopOrder
  <1>5. r \in Seq(E) /\ Len(r) = Len(q)
    BY <1>1, <1>4
  <1>. QED
    BY <1>3, <1>4, <1>5, PopOrderUnique

(* There is such a sequence of the pending events in every state. *)
HasPopOrder == \E q \in Seq(events) : PopOrder(q, events)

LEMMA PendingEventsFacts ==
  ASSUME TypeOK, HasPopOrder
  PROVE  pending_events \in Seq(events) /\ PopOrder(pending_events, events)
  BY InPopOrderIs DEF HasPopOrder, pending_events, TypeOK

(* Where each event of a queue is after an insertion. *)
LEMMA InsertedAt ==
  ASSUME NEW F, NEW q \in Seq(F), NEW e \in F
  PROVE  /\ Position(q, e.at) \in 0 .. Len(q) /\ Insert(q, e) \in Seq(F)
         /\ Len(Insert(q, e)) = Len(q) + 1
         /\ \A i \in 1 .. Len(q) + 1 :
              Insert(q, e)[i] = IF i <= Position(q, e.at) THEN q[i]
                                ELSE IF i = Position(q, e.at) + 1 THEN e ELSE q[i - 1]
  BY InsertElements

(* A new event goes behind all that are not later, whatever their numbers. *)
LEMMA InsertInPopOrder ==
  ASSUME NEW E \in SUBSET Event, NEW q \in Seq(E), PopOrder(q, E), NEW e \in Event,
         \A f \in E : f.sequence < e.sequence
  PROVE  /\ Insert(q, e) \in Seq(E \cup {e}) /\ PopOrder(Insert(q, e), E \cup {e})
         /\ InPopOrder(E \cup {e}) = Insert(q, e)
  <1>. DEFINE F == E \cup {e}
              k == Position(q, e.at)
              r == Insert(q, e)
  <1>1. F \in SUBSET Event /\ q \in Seq(F) /\ e \in F /\ Len(q) \in Nat /\ e.at \in Nat
        /\ e.sequence \in Nat
    BY DEF Event
  <1>. HIDE DEF F
  <1>2. /\ k \in 0 .. Len(q) /\ r \in Seq(F) /\ Len(r) = Len(q) + 1
        /\ \A i \in 1 .. Len(q) + 1 :
             r[i] = IF i <= k THEN q[i] ELSE IF i = k + 1 THEN e ELSE q[i - 1]
    <2>1. q \in Seq(F) /\ e \in F
      BY <1>1
    <2>. QED
      BY <2>1, InsertedAt, SMTT(30)
  <1>10. DOMAIN q = 1 .. Len(q) /\ \A i \in 1 .. Len(q) : q[i] \in E
    OBVIOUS
  <1>3. \A i \in 1 .. Len(q) : q[i].at \in Nat /\ q[i].sequence \in Nat
    BY <1>10 DEF Event
  <1>11. \A i, j \in 1 .. Len(q) : i < j => Before(q[i], q[j])
    BY <1>10, Zenon DEF PopOrder
  <1>12. \A f \in E : \E i \in 1 .. Len(q) : q[i] = f
    BY <1>10, Zenon DEF PopOrder
  <1>4. Ordered(q)
    BY <1>3, <1>11 DEF Ordered, Before
  <1>5. \A i \in 1 .. Len(q) : q[i].at <= e.at <=> i <= k
    <2>1. \A i \in 1 .. Len(q) : q[i].at \in Int
      BY <1>3
    <2>2. e.at \in Int /\ Len(q) \in Nat
      BY <1>1
    <2>. QED
      BY <1>4, <2>1, <2>2, PositionParts
  <1>. HIDE DEF k, r
  <1>6. ASSUME NEW i \in 1 .. Len(q) + 1, NEW j \in 1 .. Len(q) + 1, i < j
        PROVE  Before(r[i], r[j])
    <2>1. CASE j <= k
      <3>1. r[i] = q[i] /\ r[j] = q[j] /\ i \in 1 .. Len(q) /\ j \in 1 .. Len(q)
        BY <1>1, <1>2, <1>6, <2>1
      <3>. QED
        BY <1>6, <1>11, <3>1
    <2>2. CASE j = k + 1
      <3>1. r[j] = e /\ r[i] = q[i] /\ i \in 1 .. Len(q) /\ i <= k
        BY <1>1, <1>2, <1>6, <2>2
      <3>2. q[i].at <= e.at /\ q[i].sequence < e.sequence
        BY <1>5, <1>10, <3>1
      <3>. QED
        BY <1>1, <1>3, <3>1, <3>2 DEF Before
    <2>3. CASE j > k + 1
      <3>1. r[j] = q[j - 1] /\ j - 1 \in 1 .. Len(q) /\ j - 1 > k
        BY <1>1, <1>2, <2>3
      <3>2. CASE i <= k
        <4>1. r[i] = q[i] /\ i \in 1 .. Len(q) /\ i < j - 1
          BY <1>1, <1>2, <3>1, <3>2
        <4>. QED
          BY <1>11, <3>1, <4>1
      <3>3. CASE i = k + 1
        <4>1. r[i] = e /\ ~(q[j - 1].at <= e.at)
          BY <1>1, <1>2, <1>5, <3>1, <3>3
        <4>. QED
          BY <1>1, <1>3, <3>1, <4>1 DEF Before
      <3>4. CASE i > k + 1
        <4>1. r[i] = q[i - 1] /\ i - 1 \in 1 .. Len(q) /\ i - 1 < j - 1
          BY <1>1, <1>2, <1>6, <2>3, <3>4
        <4>. QED
          BY <1>11, <3>1, <4>1
      <3>. QED
        BY <1>1, <1>2, <3>2, <3>3, <3>4
    <2>. QED
      BY <1>1, <1>2, <2>1, <2>2, <2>3
  <1>7. ASSUME NEW f \in F
        PROVE  \E i \in 1 .. Len(q) + 1 : r[i] = f
    <2>3. f = e \/ f \in E
      BY DEF F
    <2>1. CASE f = e
      <3>1. k + 1 \in 1 .. Len(q) + 1 /\ r[k + 1] = e
        BY <1>1, <1>2
      <3>. QED
        BY <2>1, <3>1
    <2>2. CASE f \in E
      <3>1. PICK i \in 1 .. Len(q) : q[i] = f
        BY <1>12, <2>2
      <3>2. CASE i <= k
        <4>1. i \in 1 .. Len(q) + 1 /\ r[i] = f
          BY <1>1, <1>2, <3>1, <3>2
        <4>. QED
          BY <4>1
      <3>3. CASE i > k
        <4>1. i + 1 \in 1 .. Len(q) + 1 /\ r[i + 1] = q[i]
          BY <1>1, <1>2, <3>1, <3>3
        <4>. QED
          BY <3>1, <4>1
      <3>. QED
        BY SMTT(30), <1>1, <1>2, <3>2, <3>3
    <2>. QED
      BY <2>1, <2>2, <2>3
  <1>8. PopOrder(r, F)
    <2>1. DOMAIN r = 1 .. Len(q) + 1
      BY <1>2
    <2>. QED
      BY <1>6, <1>7, <2>1 DEF PopOrder
  <1>9. InPopOrder(F) = r
    BY <1>1, <1>2, <1>8, InPopOrderIs
  <1>. QED
    BY <1>2, <1>8, <1>9 DEF r, F

(* The event to pop is the head, and the others are the tail. *)
LEMMA PopInPopOrder ==
  ASSUME NEW E \in SUBSET Event, NEW q \in Seq(E), PopOrder(q, E), NEW e \in E,
         \A f \in E \ {e} : Before(e, f)
  PROVE  /\ q # <<>> /\ Head(q) = e /\ q[1] = e
         /\ Tail(q) \in Seq(E \ {e}) /\ PopOrder(Tail(q), E \ {e})
  <1>1. DOMAIN q = 1 .. Len(q) /\ Len(q) \in Nat /\ \A i \in 1 .. Len(q) : q[i] \in E
    OBVIOUS
  <1>2. /\ \A i, j \in 1 .. Len(q) : i < j => Before(q[i], q[j])
        /\ \A f \in E : \E i \in 1 .. Len(q) : q[i] = f
    BY <1>1 DEF PopOrder
  <1>3. PICK i \in 1 .. Len(q) : q[i] = e
    BY <1>2
  <1>4. \A f, g \in Event : Before(f, g) => ~Before(g, f) /\ f # g
    BY DEF Before, Event
  <1>5. i = 1
    <2>1. SUFFICES ASSUME i > 1 PROVE FALSE
      BY <1>1
    <2>2. Before(q[1], e) /\ q[1] \in E
      BY <1>1, <1>2, <1>3, <2>1
    <2>3. q[1] # e
      BY <1>4, <2>2
    <2>. QED
      BY <1>4, <2>2, <2>3
  <1>6. q # <<>> /\ Head(q) = e /\ q[1] = e
    BY <1>1, <1>3, <1>5
  <1>. DEFINE t == Tail(q)
  <1>7. /\ Len(t) = Len(q) - 1 /\ DOMAIN t = 1 .. Len(q) - 1
        /\ \A j \in 1 .. Len(q) - 1 : t[j] = q[j + 1]
    BY <1>1, <1>6
  <1>8. \A j \in 1 .. Len(q) - 1 : t[j] \in E \ {e}
    <2>. SUFFICES ASSUME NEW j \in 1 .. Len(q) - 1 PROVE t[j] \in E \ {e}
      OBVIOUS
    <2>1. Before(q[1], q[j + 1]) /\ q[j + 1] \in E /\ t[j] = q[j + 1]
      BY <1>1, <1>2, <1>7
    <2>. QED
      BY <1>4, <1>6, <2>1
  <1>9. t \in Seq(E \ {e})
    <2>1. t \in Seq(E)
      BY <1>6
    <2>. HIDE DEF t
    <2>2. \A j \in 1 .. Len(t) : t[j] \in E \ {e}
      BY <1>7, <1>8
    <2>. QED
      BY <2>1, <2>2, SeqOver
  <1>. HIDE DEF t
  <1>10. \A j, n \in 1 .. Len(q) - 1 : j < n => Before(t[j], t[n])
    BY <1>1, <1>2, <1>7
  <1>11. \A f \in E \ {e} : \E j \in 1 .. Len(q) - 1 : t[j] = f
    <2>. SUFFICES ASSUME NEW f \in E \ {e} PROVE \E j \in 1 .. Len(q) - 1 : t[j] = f
      OBVIOUS
    <2>1. PICK j \in 1 .. Len(q) : q[j] = f
      BY <1>2
    <2>2. j - 1 \in 1 .. Len(q) - 1 /\ t[j - 1] = q[j]
      BY <1>1, <1>6, <1>7, <2>1
    <2>. QED
      BY <2>1, <2>2
  <1>12. PopOrder(t, E \ {e})
    BY <1>7, <1>10, <1>11 DEF PopOrder
  <1>. QED
    BY <1>6, <1>9, <1>12 DEF t
-----------------------------------------------------------------------------
(* The queue of the abstract specification is the queue of EventQueue.     *)
LEMMA SameQueue ==
  /\ \A q, e : Timeline!Insert(q, e) = Insert(q, e)
  /\ \A q, t : Timeline!HasDue(q, t) <=> HasDue(q, t)
  <1>1. \A q, e : Timeline!Insert(q, e) = Insert(q, e)
    BY Zenon DEF Timeline!Insert, Timeline!Position, Timeline!Cardinality, Insert, Position,
                 Cardinality
  <1>2. \A q, t : Timeline!HasDue(q, t) <=> HasDue(q, t)
    BY DEF Timeline!HasDue, HasDue
  <1>. QED
    BY <1>1, <1>2

LEMMA InitImplements == Init => HasPopOrder /\ Timeline!Init
  <1>. SUFFICES ASSUME Init PROVE HasPopOrder /\ Timeline!Init
    OBVIOUS
  <1>1. events = {} /\ <<>> \in Seq({}) /\ PopOrder(<<>>, {})
    BY DEF Init, PopOrder
  <1>2. InPopOrder({}) = <<>>
    BY <1>1, InPopOrderIs
  <1>3. (phase \in {"cpu", "stall"}) = FALSE
    BY DEF Init
  <1>. QED
    BY <1>1, <1>2, <1>3 DEF Init, HasPopOrder, Timeline!Init, pending_events

(* Scheduling puts the event into the stable queue, from which the head    *)
(* was taken or not.                                                       *)
LEMMA ScheduleImplements ==
  ASSUME IInv, NEW remaining \in SUBSET events, NEW at \in Time, ScheduleAt(remaining, at),
         NEW q \in Seq(remaining), PopOrder(q, remaining)
  PROVE  HasPopOrder' /\ Timeline!Schedule(q, at)
  <1>. DEFINE new == [at |-> at, sequence |-> nextSequence]
  <1>1. /\ new \in Event
        /\ events' = remaining \cup {new}
        /\ nextSequence' = nextSequence + 1
    BY ScheduleAtEffect DEF IInv
  <1>2. remaining \in SUBSET Event /\ \A f \in remaining : f.sequence < new.sequence
    BY DEF IInv, TypeOK, SequencesTaken
  <1>3. new.at = at /\ nextSequence < MaxEvents
    BY DEF ScheduleAt
  <1>. HIDE DEF new
  <1>4. /\ Insert(q, new) \in Seq(events') /\ PopOrder(Insert(q, new), events')
        /\ pending_events' = Insert(q, new)
    BY <1>1, <1>2, InsertInPopOrder DEF pending_events
  <1>5. Timeline!Schedule(q, at)
    BY <1>1, <1>3, <1>4, SameQueue DEF Timeline!Schedule, new
  <1>. QED
    BY <1>4, <1>5 DEF HasPopOrder

LEMMA StepImplements ==
  ASSUME IInv, HasPopOrder, [Next]_vars
  PROVE  HasPopOrder' /\ [Timeline!Next]_(Timeline!tvars)
  <1>. DEFINE q == pending_events
  <1>1. q \in Seq(events) /\ PopOrder(q, events) /\ events \in SUBSET Event
    BY PendingEventsFacts DEF IInv, TypeOK
  <1>2. /\ now \in Nat /\ nextSequence \in Nat /\ MaxTime \in Nat
        /\ \A e \in events : e \in Event /\ e.at \in Nat
    BY SchedulerAssumption DEF IInv, TypeOK, Event
  <1>3. ASSUME NEW e \in events, IsNext(e)
        PROVE  /\ q # <<>> /\ Head(q) = e /\ q[1] = e
               /\ Tail(q) \in Seq(events \ {e}) /\ PopOrder(Tail(q), events \ {e})
    <2>1. \A f \in events \ {e} : Before(e, f)
      BY <1>3 DEF IsNext
    <2>. HIDE DEF q
    <2>. QED
      BY <1>1, <2>1, PopInPopOrder
  <1>4. q # <<>> => q[1] \in events
    BY <1>1
  <1>5. ASSUME UNCHANGED events
        PROVE  HasPopOrder' /\ pending_events' = q
    BY <1>5 DEF HasPopOrder, pending_events
  <1>6. CASE Request
    <2>1. PICK at \in Time : ScheduleAt(events, at)
      BY <1>6 DEF Request
    <2>2. HasPopOrder' /\ Timeline!Schedule(pending_events, at)
      BY <1>1, <2>1, ScheduleImplements
    <2>3. at \in now .. MaxTime
      BY <1>2, <2>1 DEF ScheduleAt, Time
    <2>4. UNCHANGED <<now, (phase \in {"cpu", "stall"}), fired>>
      BY <1>6 DEF Request
    <2>5. Timeline!Request
      BY <2>2, <2>3, <2>4 DEF Timeline!Request
    <2>. QED
      BY <2>2, <2>5 DEF Timeline!Next
  <1>7. CASE Fetch \/ Access \/ Stall
    <2>1. /\ UNCHANGED <<nextSequence, events, fired>> /\ phase' \in {"cpu", "stall"}
          /\ phase = "cpu" \/ \A e \in events : now < e.at
          /\ \E t \in Time : t > now /\ now' = t
      BY <1>2, <1>7 DEF Fetch, Access, Stall
    <2>2. HasPopOrder' /\ pending_events' = pending_events
      BY <1>5, <2>1
    <2>3. phase \in {"cpu", "stall"} \/ ~Timeline!HasDue(pending_events, now)
      BY <1>2, <1>4, <2>1, SameQueue DEF HasDue
    <2>4. \E t \in now + 1 .. MaxTime : now' = t
      BY <1>2, <2>1 DEF Time
    <2>5. Timeline!Run
      BY <2>1, <2>2, <2>3, <2>4 DEF Timeline!Run
    <2>. QED
      BY <2>2, <2>5 DEF Timeline!Next
  <1>8. CASE Retire \/ EndStall
    <2>1. HasPopOrder' /\ pending_events' = pending_events
      BY <1>5, <1>8 DEF Retire, EndStall
    <2>2. Timeline!Stop
      BY <1>8, <2>1 DEF Retire, EndStall, Timeline!Stop
    <2>. QED
      BY <2>1, <2>2 DEF Timeline!Next
  <1>9. CASE HaltedJump
    <2>1. PICK d \in Time : Deadline(d) /\ now' = IF d > now THEN d ELSE now
      BY <1>9 DEF HaltedJump
    <2>2. /\ UNCHANGED <<nextSequence, events, fired>>
          /\ phase = "loop" /\ phase' = "dispatch"
      BY <1>9 DEF HaltedJump
    <2>3. HasPopOrder' /\ pending_events' = pending_events
      BY <1>5, <2>2
    <2>4. CASE d > now
      <3>1. d \in now + 1 .. MaxTime /\ now' = d
        BY <1>2, <2>1, <2>4 DEF Time
      <3>2. pending_events = <<>> \/ d <= pending_events[1].at
        BY <1>4, <2>1 DEF Deadline
      <3>3. Timeline!Skip
        BY <2>2, <2>3, <3>1, <3>2 DEF Timeline!Skip
      <3>. QED
        BY <2>3, <3>3 DEF Timeline!Next
    <2>5. CASE ~(d > now)
      BY <2>1, <2>2, <2>3, <2>5 DEF Timeline!tvars
    <2>. QED
      BY <2>4, <2>5
  <1>10. CASE BeginDispatch \/ EndDispatch \/ UNCHANGED vars
    <2>1. /\ UNCHANGED <<now, nextSequence, events, fired>>
          /\ phase' \in {"cpu", "stall"} <=> phase \in {"cpu", "stall"}
      BY <1>10 DEF BeginDispatch, EndDispatch, vars
    <2>2. HasPopOrder' /\ pending_events' = pending_events
      BY <1>5, <2>1
    <2>3. (phase' \in {"cpu", "stall"}) = (phase \in {"cpu", "stall"})
      BY <2>1
    <2>. QED
      BY <2>1, <2>2, <2>3 DEF Timeline!tvars
  <1>11. CASE DispatchOne
    <2>1. PICK e \in events :
            /\ IsNext(e)
            /\ e.at <= now
            /\ fired' = Append(fired, e)
            /\ \/ events' = events \ {e} /\ UNCHANGED nextSequence
               \/ \E at \in Time : ScheduleAt(events \ {e}, at)
      BY <1>11 DEF DispatchOne
    <2>2. UNCHANGED <<now, phase>> /\ phase = "dispatch"
      BY <1>11 DEF DispatchOne
    <2>3. /\ q # <<>> /\ Head(q) = e /\ q[1] = e
          /\ Tail(q) \in Seq(events \ {e}) /\ PopOrder(Tail(q), events \ {e})
      BY <1>3, <2>1
    <2>4. Timeline!HasDue(q, now) /\ fired' = Append(fired, Head(q))
      BY <2>1, <2>3, SameQueue DEF HasDue
    <2>5. /\ HasPopOrder'
          /\ \/ pending_events' = Tail(q) /\ UNCHANGED nextSequence
             \/ \E at \in now .. MaxTime : Timeline!Schedule(Tail(q), at)
      <3>1. CASE events' = events \ {e} /\ UNCHANGED nextSequence
        <4>1. events \ {e} \in SUBSET Event
          BY <1>1
        <4>2. InPopOrder(events \ {e}) = Tail(q)
          BY <2>3, <4>1, InPopOrderIs
        <4>. QED
          BY <2>3, <3>1, <4>2 DEF HasPopOrder, pending_events
      <3>2. CASE \E at \in Time : ScheduleAt(events \ {e}, at)
        <4>1. PICK at \in Time : ScheduleAt(events \ {e}, at)
          BY <3>2
        <4>2. HasPopOrder' /\ Timeline!Schedule(Tail(q), at)
          BY <2>3, <4>1, ScheduleImplements
        <4>3. at \in now .. MaxTime
          BY <1>2, <4>1 DEF ScheduleAt, Time
        <4>. QED
          BY <4>2, <4>3
      <3>. QED
        BY <2>1, <3>1, <3>2
    <2>6. Timeline!Fire
      BY <2>2, <2>4, <2>5 DEF Timeline!Fire
    <2>. QED
      BY <2>5, <2>6 DEF Timeline!Next
  <1>. QED
    BY <1>6, <1>7, <1>8, <1>9, <1>10, <1>11 DEF Next

(* The heap with its sequence numbers implements the stable queue, for any *)
(* bounds: the machines may rely on the queue alone.                       *)
THEOREM TimelineImplemented == Spec => ImplementsTimeline
  <1>1. Init => IInv /\ HasPopOrder /\ Timeline!Init
    BY InitIInv, InitImplements
  <1>2. IInv /\ HasPopOrder /\ [Next]_vars =>
          (IInv /\ HasPopOrder)' /\ [Timeline!Next]_(Timeline!tvars)
    BY NextIInv, StepImplements
  <1>. QED
    BY <1>1, <1>2, PTL DEF Spec, ImplementsTimeline, Timeline!Spec
=============================================================================

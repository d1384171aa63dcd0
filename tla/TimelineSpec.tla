---------------------------- MODULE TimelineSpec ----------------------------
(***************************************************************************)
(* What the scheduler promises the machines: one guest time, and a stable  *)
(* queue of events ordered by time.  Events are never compared with each   *)
(* other: an event takes its place once, when it is scheduled.             *)
(***************************************************************************)
EXTENDS Integers, Sequences, EventQueue

CONSTANTS MaxTime, MaxEvents

VARIABLES now, scheduled, queue, running, fired

tvars == <<now, scheduled, queue, running, fired>>

Init ==
  /\ now = 0
  /\ scheduled = 0
  /\ queue = <<>>
  /\ running = FALSE
  /\ fired = <<>>

(* An event is scheduled at the current time or later. *)
Schedule(q, at) ==
  /\ scheduled < MaxEvents
  /\ queue' = Insert(q, [at |-> at, sequence |-> scheduled])
  /\ scheduled' = scheduled + 1

Request ==
  /\ \E at \in now .. MaxTime : Schedule(queue, at)
  /\ UNCHANGED <<now, running, fired>>

(* A burst of computation: it begins only while nothing is due, and may    *)
(* run past events until it stops.                                         *)
Run ==
  /\ running \/ ~HasDue(queue, now)
  /\ \E t \in now + 1 .. MaxTime : now' = t
  /\ running' = TRUE
  /\ UNCHANGED <<scheduled, queue, fired>>

Stop == running /\ running' = FALSE /\ UNCHANGED <<now, scheduled, queue, fired>>

(* With nothing to run, time goes on, but never beyond the next event. *)
Skip ==
  /\ ~running
  /\ \E t \in now + 1 .. MaxTime : (queue = <<>> \/ t <= queue[1].at) /\ now' = t
  /\ UNCHANGED <<scheduled, queue, running, fired>>

(* The event at the head fires once it is due, and may cause another one. *)
Fire ==
  /\ ~running
  /\ HasDue(queue, now)
  /\ fired' = Append(fired, Head(queue))
  /\ \/ queue' = Tail(queue) /\ UNCHANGED scheduled
     \/ \E at \in now .. MaxTime : Schedule(Tail(queue), at)
  /\ UNCHANGED <<now, running>>

Next == Request \/ Run \/ Stop \/ Skip \/ Fire

Spec == Init /\ [][Next]_tvars
=============================================================================

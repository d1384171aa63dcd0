----------------------------- MODULE EventQueue -----------------------------
(***************************************************************************)
(* The pending events of a machine as a sequence in dispatch order.  The   *)
(* heap of crates/emu-core/src/scheduler.rs orders events by time and then *)
(* by a unique sequence number; since sequence numbers only grow, that is  *)
(* the order obtained by inserting each event behind every event that is   *)
(* not later.  TimelineSpec states this queue as a specification, and      *)
(* Scheduler is checked to implement it, so the machine modules use it     *)
(* without carrying sequence numbers.                                      *)
(***************************************************************************)
EXTENDS Naturals, Sequences, FiniteSets

(* How many queued events fire no later than a new event at time `at`. *)
Position(queue, at) == Cardinality({i \in 1 .. Len(queue) : queue[i].at <= at})

(* schedule_at: queue an event behind all those that fire no later. *)
Insert(queue, event) ==
  LET k == Position(queue, event.at)
  IN SubSeq(queue, 1, k) \o <<event>> \o SubSeq(queue, k + 1, Len(queue))

(* Whether the CPU may start an instruction at `now`: next_deadline() is   *)
(* None or lies ahead.                                                     *)
BeforeDeadline(queue, now) == queue # <<>> => now < queue[1].at

(* Whether run_due_events has an event to pop. *)
HasDue(queue, now) == queue # <<>> /\ queue[1].at <= now
=============================================================================

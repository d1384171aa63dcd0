------------------------------ MODULE Scheduler ------------------------------
(***************************************************************************)
(* The deterministic event scheduler of crates/emu-core/src/scheduler.rs.  *)
(*                                                                         *)
(* The machine loop (run_until of crates/gba/src/system.rs) alternates     *)
(* between the CPU, whose instructions advance `now` and may schedule      *)
(* events, and run_due_events, which pops every event due at `now` in      *)
(* (at, sequence) order and hands it to a handler that may itself schedule *)
(* more events.  The payload of an event is opaque to the scheduler and is *)
(* left out: an event is identified by its sequence number.                *)
(***************************************************************************)
EXTENDS Integers, Sequences, FiniteSets

CONSTANTS
  MaxTime,      (* bound of the model: no timestamp is later than this      *)
  MaxEvents     (* bound of the model: how many events are ever scheduled   *)

ASSUME SchedulerAssumption == MaxTime \in Nat /\ MaxEvents \in Nat

VARIABLES
  now,           (* Scheduler::now, the canonical guest time                *)
  nextSequence,  (* Scheduler::next_sequence                                *)
  events,        (* the binary heap, as a set of [at, sequence] records     *)
  phase,         (* who runs: "loop" the machine loop, "cpu" an instruction,*)
                 (* "dispatch" run_due_events, "stall" a DMA on its bus     *)
  halted,        (* is_low_power: the CPU executes nothing                  *)
  fired,         (* history: the events handed to the handler, in order     *)
  started        (* history: when the latest instruction began, -1 if none  *)

vars == <<now, nextSequence, events, phase, halted, fired, started>>

Time == 0 .. MaxTime
Event == [at : Nat, sequence : Nat]

(* Mutant: ties go to the event scheduled last. *)
BeforeTiesReversed(e, f) == e.at < f.at \/ (e.at = f.at /\ e.sequence > f.sequence)

(* Ord for ScheduledEvent: by time, ties broken by insertion order. *)
Before(e, f) == e.at < f.at \/ (e.at = f.at /\ e.sequence < f.sequence)

(* Mutant: the order compares times only. *)
IsNextByTime(e) == e \in events /\ \A f \in events \ {e} : e.at <= f.at

(* BinaryHeap::peek of the reversed heap: the event no other one precedes. *)
IsNext(e) == e \in events /\ \A f \in events \ {e} : Before(e, f)
-----------------------------------------------------------------------------
Init ==
  /\ now = 0
  /\ nextSequence = 0
  /\ events = {}
  /\ phase = "loop"
  /\ halted = FALSE
  /\ fired = <<>>
  /\ started = -1

(* Mutant: a relative time counted backward from now. *)
ScheduleAtBackward(remaining, at) ==
  /\ at >= now
  /\ nextSequence < MaxEvents
  /\ events' = remaining \cup {[at |-> now - (at - now), sequence |-> nextSequence]}
  /\ nextSequence' = nextSequence + 1

(* Mutant: the sequence number is not advanced. *)
ScheduleAtSameSequence(remaining, at) ==
  /\ at >= now
  /\ nextSequence < MaxEvents
  /\ events' = remaining \cup {[at |-> at, sequence |-> nextSequence]}
  /\ UNCHANGED nextSequence

(* schedule_at: its debug assertion `at >= now` is what callers owe it.    *)
ScheduleAt(remaining, at) ==
  /\ at >= now
  /\ nextSequence < MaxEvents
  /\ events' = remaining \cup {[at |-> at, sequence |-> nextSequence]}
  /\ nextSequence' = nextSequence + 1

(* An MMIO write of the running instruction, the loop that starts the LCD  *)
(* and sample schedules, or a handler that has more than one follow-up     *)
(* queues an event.                                                        *)
Request ==
  /\ phase # "stall"
  /\ \E at \in Time : ScheduleAt(events, at)
  /\ UNCHANGED <<now, phase, halted, fired, started>>

(* Mutant: the CPU still runs at the deadline itself. *)
FetchAtDeadline ==
  /\ phase = "loop" /\ ~halted
  /\ \A e \in events : now <= e.at
  /\ \E t \in Time : t > now /\ now' = t
  /\ started' = now
  /\ phase' = "cpu"
  /\ UNCHANGED <<nextSequence, events, halted, fired>>

(* The loop lets a running CPU start an instruction only before the        *)
(* deadline; its opcode fetch takes time.                                  *)
Fetch ==
  /\ phase = "loop" /\ ~halted
  /\ \A e \in events : now < e.at
  /\ \E t \in Time : t > now /\ now' = t
  /\ started' = now
  /\ phase' = "cpu"
  /\ UNCHANGED <<nextSequence, events, halted, fired>>

(* CpuBus::advance: a further access of the instruction moves time on,     *)
(* whether or not that passes an event.                                    *)
Access ==
  /\ phase = "cpu"
  /\ \E t \in Time : t > now /\ now' = t
  /\ UNCHANGED <<nextSequence, events, phase, halted, fired, started>>

(* The instruction ends, a write of HALTCNT perhaps, and the loop looks at *)
(* the deadline again.                                                     *)
Retire ==
  /\ phase = "cpu"
  /\ phase' = "loop"
  /\ halted' \in BOOLEAN
  /\ UNCHANGED <<now, nextSequence, events, fired, started>>

(* The earlier of the next event and some target of run_until, which it    *)
(* has not reached.                                                        *)
Deadline(d) ==
  /\ \A e \in events : d <= e.at
  /\ d > now \/ \E e \in events : d = e.at

(* A halted CPU: the loop jumps to the deadline, and never backward when   *)
(* an instruction has already overshot it, and dispatches what is due.     *)
HaltedJump ==
  /\ phase = "loop" /\ halted
  /\ \E d \in Time : Deadline(d) /\ now' = IF d > now THEN d ELSE now
  /\ phase' = "dispatch"
  /\ UNCHANGED <<nextSequence, events, halted, fired, started>>

(* Mutant: an event at exactly `now` does not count as due. *)
BeginDispatchLate ==
  /\ phase = "loop" /\ ~halted
  /\ \E e \in events : e.at < now
  /\ phase' = "dispatch"
  /\ UNCHANGED <<now, nextSequence, events, halted, fired, started>>

(* A running CPU that has reached the next event. *)
BeginDispatch ==
  /\ phase = "loop" /\ ~halted
  /\ \E e \in events : e.at <= now
  /\ phase' = "dispatch"
  /\ UNCHANGED <<now, nextSequence, events, halted, fired, started>>

(* One turn of the dispatch loop: pop the next event and run its handler,  *)
(* which schedules no follow-up event or one, at `now` or later.           *)
DispatchOne ==
  /\ phase = "dispatch"
  /\ \E e \in events :
        /\ IsNext(e)
        /\ e.at <= now
        /\ fired' = Append(fired, e)
        /\ \/ events' = events \ {e} /\ UNCHANGED nextSequence
           \/ \E at \in Time : ScheduleAt(events \ {e}, at)
  /\ UNCHANGED <<now, phase, halted, started>>

(* should_wake, after the dispatch: an interrupt may have become pending.  *)
MayWake == halted' \in {halted, FALSE}

(* The loop ends when the earliest event is in the future. *)
EndDispatch ==
  /\ phase = "dispatch"
  /\ \A e \in events : e.at > now
  /\ phase' = "loop"
  /\ MayWake
  /\ UNCHANGED <<now, nextSequence, events, fired, started>>

(* take_dma_stall_cycles: a transfer that a handler started has the bus    *)
(* before the CPU does, past an event if need be, which the loop then      *)
(* finds due.                                                              *)
Stall ==
  /\ phase = "dispatch"
  /\ \A e \in events : e.at > now
  /\ \E t \in Time : t > now /\ now' = t
  /\ phase' = "stall"
  /\ UNCHANGED <<nextSequence, events, halted, fired, started>>

EndStall ==
  /\ phase = "stall"
  /\ phase' = "loop"
  /\ MayWake
  /\ UNCHANGED <<now, nextSequence, events, fired, started>>

Next ==
  \/ Request
  \/ Fetch
  \/ Access
  \/ Retire
  \/ HaltedJump
  \/ BeginDispatch
  \/ DispatchOne
  \/ EndDispatch
  \/ Stall
  \/ EndStall

Spec == Init /\ [][Next]_vars

(* run_until loops until its target, and is called again with a later one: *)
(* instructions and stalls end, the loop dispatches what is due and        *)
(* otherwise moves time on.                                                *)
FairSpec ==
  /\ Spec
  /\ WF_vars(Retire \/ EndStall)
  /\ WF_vars(BeginDispatch \/ HaltedJump \/ Fetch)
  /\ WF_vars(DispatchOne \/ EndDispatch \/ Stall)
-----------------------------------------------------------------------------
TypeOK ==
  /\ now \in Nat
  /\ nextSequence \in Nat
  /\ events \subseteq Event
  /\ phase \in {"loop", "cpu", "dispatch", "stall"}
  /\ halted \in BOOLEAN
  /\ fired \in Seq(Event)
  /\ started \in Int

(* Deterministic dispatch: whatever the interleaving of instructions,      *)
(* cascades and overshoots, events are handed out in strictly increasing   *)
(* (at, sequence) order, so same-time events keep their insertion order    *)
(* across separate run_due_events calls too.                               *)
DispatchOrder ==
  \A i, j \in 1 .. Len(fired) : i < j => Before(fired[i], fired[j])

(* No event is lost or dispatched twice: each sequence number handed out   *)
(* so far is in the heap or has fired, and never both.                     *)
Conserved ==
  /\ \A s \in 0 .. nextSequence - 1 :
        \/ \E e \in events : e.sequence = s
        \/ \E i \in 1 .. Len(fired) : fired[i].sequence = s
  /\ \A e \in events : \A i \in 1 .. Len(fired) : fired[i].sequence # e.sequence

(* What "events cannot be skipped" comes to with instructions that take   *)
(* time: an event waits for the end of the instruction that passed it and  *)
(* never for a second one, because no instruction begins at or after the   *)
(* time of an event that is still pending, after a halt or a stall too.    *)
LateByOneInstruction == \A e \in events : started < e.at

(* Every scheduled event is eventually handed to the handler. *)
EveryEventFires ==
  \A s \in 0 .. MaxEvents - 1 :
    (\E e \in events : e.sequence = s)
      ~> (\E i \in 1 .. Len(fired) : fired[i].sequence = s)
-----------------------------------------------------------------------------
(* A sequence of the events of E, each ahead of those that follow it. *)
PopOrder(q, E) ==
  /\ \A e \in E : \E i \in DOMAIN q : q[i] = e
  /\ \A i, j \in DOMAIN q : i < j => Before(q[i], q[j])

(* Refinement mapping: the abstract queue is the heap read in pop order,   *)
(* which is also what Scheduler::pending_events returns.                   *)
InPopOrder(E) == CHOOSE q \in [1 .. Cardinality(E) -> E] : PopOrder(q, E)
pending_events == InPopOrder(events)

Timeline == INSTANCE TimelineSpec WITH
  scheduled <- nextSequence,
  queue <- pending_events,
  running <- (phase \in {"cpu", "stall"})

(* The heap with its sequence numbers behaves as the stable queue of       *)
(* TimelineSpec: same-time events fire in the order they were scheduled.   *)
ImplementsTimeline == Timeline!Spec
=============================================================================

------------------------------ MODULE NdsCores ------------------------------
(***************************************************************************)
(* The two-core loop of the Nintendo DS machine (crates/nds/src/system.rs, *)
(* run_until and step_core): the ARM9 and the ARM7 run instruction by      *)
(* instruction between event deadlines, each on a clock of its own that    *)
(* an instruction moves when it ends.  An instruction of one core may      *)
(* raise an interrupt at the other, whose clock may lag or lead.           *)
(*                                                                         *)
(* What an instruction does to memory is left out; what it does to the     *)
(* interrupt controllers, the event queue and the halt flags is kept.      *)
(***************************************************************************)
EXTENDS Integers, Sequences, FiniteSets, EventQueue

CONSTANTS
  CrossSources,   (* interrupts one core raises at the other: IPC           *)
  DeviceSources,  (* interrupts raised by the events of a device            *)
  MaxCost,        (* largest cost of an instruction, in the core's cycles   *)
  MaxDelay,       (* longest delay a device event is scheduled with         *)
  MaxQueue,       (* bound of the model: no more events are pending         *)
  MaxTime         (* bound of the model: no run_until target is later       *)

ASSUME CoresAssumption ==
  /\ MaxCost \in Nat \ {0}
  /\ MaxDelay \in Nat \ {0}
  /\ MaxQueue \in Nat
  /\ MaxTime \in Nat

VARIABLES
  now,       (* Scheduler::now, the time the last slice ended at            *)
  queue,     (* the pending device events, in dispatch order                *)
  deadline,  (* the end of the running slice                                *)
  phase,     (* "idle", "slice" (the cores run) or "dispatch"               *)
  clock,     (* Machine::clock, per core                                    *)
  halted,    (* Machine::halted, per core                                   *)
  ie, iflags,(* IE and IF, per core                                         *)
  open,      (* per core: IME is set and CPSR.I is clear                    *)
  asserted,  (* Interrupts::asserted_at, per core                           *)
  lastStart, (* history: when the latest instruction of either core began   *)
  raised     (* history: per core and source, when the pending raise of it  *)
             (* came about, 0 when none is pending                          *)

irqVars == <<ie, iflags, open, asserted, raised>>
vars == <<now, queue, deadline, phase, clock, halted, irqVars, lastStart>>

Core == {0, 1}          (* 0 is the ARM9, 1 the ARM7                        *)
Other(c) == 1 - c
Source == CrossSources \cup DeviceSources

(* Master ticks per cycle of the core: the ARM7 runs at half the rate. *)
Ticks(c) == IF c = 0 THEN 1 ELSE 2

Larger(a, b) == IF a >= b THEN a ELSE b
-----------------------------------------------------------------------------
(* Interrupts::pending: enabled and raised, whatever IME says. *)
Pending(c) == ie[c] \cap iflags[c] # {}

(* line_ready, with the CPU's own I bit. *)
LineReady(c) == open[c] /\ Pending(c) /\ clock[c] >= asserted[c]

Init ==
  /\ now = 0
  /\ queue = <<>>
  /\ deadline = 0
  /\ phase = "idle"
  /\ clock = [c \in Core |-> 0]
  /\ halted = [c \in Core |-> FALSE]
  /\ ie = [c \in Core |-> {}]
  /\ iflags = [c \in Core |-> {}]
  /\ open = [c \in Core |-> FALSE]
  /\ asserted = [c \in Core |-> 0]
  /\ lastStart = 0
  /\ raised = [c \in Core |-> [s \in Source |-> 0]]

(* The top of run_until: a slice reaches to the next event, or to the      *)
(* target of the call, which may be any later time.                        *)
StartSlice ==
  /\ phase = "idle"
  /\ \E target \in now + 1 .. MaxTime :
       deadline' = IF queue # <<>> /\ queue[1].at < target THEN queue[1].at ELSE target
  /\ phase' = "slice"
  /\ UNCHANGED <<now, queue, clock, halted, irqVars, lastStart>>

(* A halted core with an enabled interrupt pending is woken before the     *)
(* loop looks for a core to step.                                          *)
Sleeper(c) == halted[c] /\ Pending(c)

(* Mutant: a woken core goes on from the clock it halted at. *)
WakeInThePast(c) ==
  /\ phase = "slice"
  /\ Sleeper(c)
  /\ halted' = [halted EXCEPT ![c] = FALSE]
  /\ UNCHANGED <<now, queue, deadline, phase, clock, irqVars, lastStart>>

(* Mutant: a woken core is skipped to the deadline. *)
WakeAtDeadline(c) ==
  /\ phase = "slice"
  /\ Sleeper(c)
  /\ halted' = [halted EXCEPT ![c] = FALSE]
  /\ clock' = [clock EXCEPT ![c] = Larger(clock[c], deadline)]
  /\ UNCHANGED <<now, queue, deadline, phase, irqVars, lastStart>>

(* It resumes when the interrupt was raised, and never in its past. *)
Wake(c) ==
  /\ phase = "slice"
  /\ Sleeper(c)
  /\ halted' = [halted EXCEPT ![c] = FALSE]
  /\ clock' = [clock EXCEPT ![c] = Larger(clock[c], asserted[c])]
  /\ UNCHANGED <<now, queue, deadline, phase, irqVars, lastStart>>

Runnable(c) == ~halted[c] /\ clock[c] < deadline

(* The core the loop steps: the one further behind, ties to the ARM9. *)
Selected(c) ==
  /\ Runnable(c)
  /\ Runnable(Other(c)) => IF c = 0 THEN clock[0] <= clock[1] ELSE clock[1] < clock[0]

(* The raise of source s at core d, at time t, keeps the time at which a   *)
(* pending source was raised.                                              *)
RaiseAt(d, s, t) ==
  /\ iflags' = [iflags EXCEPT ![d] = @ \cup {s}]
  /\ raised' = [raised EXCEPT ![d][s] = IF s \in iflags[d] THEN @ ELSE t]

(* Mutant: a raise at the other core is not stamped. *)
CrossRaiseUnstamped(c, end) ==
  /\ \E s \in CrossSources : RaiseAt(Other(c), s, end)
  /\ UNCHANGED asserted

(* A store to the IPC raises an interrupt at the other core; a flag that   *)
(* was not set before is stamped with the clock after the instruction.     *)
CrossRaise(c, end) ==
  \E s \in CrossSources :
    /\ RaiseAt(Other(c), s, end)
    /\ asserted' = [asserted EXCEPT
         ![Other(c)] = IF s \in iflags[Other(c)] THEN @ ELSE end]

OwnRaise(c) ==
  \E s \in DeviceSources : RaiseAt(c, s, clock[c]) /\ UNCHANGED asserted

Acknowledge(c) ==
  \E s \in iflags[c] :
    /\ iflags' = [iflags EXCEPT ![c] = @ \ {s}]
    /\ raised' = [raised EXCEPT ![c][s] = 0]
    /\ UNCHANGED asserted

(* Mutant: the delay is counted backward. *)
SchedulesBackward(c) ==
  /\ Len(queue) < MaxQueue
  /\ \E from \in 0 .. clock[c], d \in 1 .. MaxDelay, s \in DeviceSources :
       queue' = Insert(queue, [at |-> from - d, core |-> c, source |-> s])

(* The gamecard and the Wi-Fi schedule from the time of the scheduler, a   *)
(* timer store from when the timer was last brought up to date: now, or,   *)
(* for one that leaves the cascade, long ago, so that the event may lie in *)
(* the past.  What is due fires when the slice ends.                       *)
Schedules(c) ==
  /\ Len(queue) < MaxQueue
  /\ \E from \in 0 .. clock[c], d \in 1 .. MaxDelay, s \in DeviceSources :
       queue' = Insert(queue, [at |-> from + d, core |-> c, source |-> s])

(* poll_gxfifo_irq: before each ARM9 instruction the level of the geometry *)
(* FIFO's interrupt is sampled.                                            *)
PollGxFifo ==
  /\ phase = "slice"
  /\ \A d \in Core : ~Sleeper(d)
  /\ Selected(0)
  /\ \E s \in DeviceSources \ iflags[0] : RaiseAt(0, s, clock[0])
  /\ UNCHANGED <<now, queue, deadline, phase, clock, halted, ie, open, asserted, lastStart>>

(* One instruction of core c, after it has taken the interrupt that is     *)
(* ready; entry to the handler closes the line until the guest opens it.   *)
Step(c) ==
  LET entered == IF LineReady(c) THEN [open EXCEPT ![c] = FALSE] ELSE open
  IN  /\ phase = "slice"
      /\ \A d \in Core : ~Sleeper(d)
      /\ Selected(c)
      /\ \E cost \in 1 .. MaxCost :
           LET end == clock[c] + cost * Ticks(c)
           IN  /\ clock' = [clock EXCEPT ![c] = end]
               /\ lastStart' = clock[c]
               /\ \/ /\ open' = entered
                     /\ UNCHANGED <<queue, halted, ie, iflags, asserted, raised>>
                  \/ /\ CrossRaise(c, end)
                     /\ open' = entered
                     /\ UNCHANGED <<queue, halted, ie>>
                  \/ /\ OwnRaise(c) \/ Acknowledge(c)
                     /\ open' = entered
                     /\ UNCHANGED <<queue, halted, ie>>
                  \/ /\ \E mask \in SUBSET Source : ie' = [ie EXCEPT ![c] = mask]
                     /\ open' = entered
                     /\ UNCHANGED <<queue, halted, iflags, asserted, raised>>
                  \/ /\ \E b \in BOOLEAN : open' = [entered EXCEPT ![c] = b]
                     /\ UNCHANGED <<queue, halted, ie, iflags, asserted, raised>>
                  \/ /\ halted' = [halted EXCEPT ![c] = TRUE]
                     /\ open' = entered
                     /\ UNCHANGED <<queue, ie, iflags, asserted, raised>>
                  \/ /\ Schedules(c)
                     /\ open' = entered
                     /\ UNCHANGED <<halted, ie, iflags, asserted, raised>>
      /\ UNCHANGED <<now, deadline, phase>>

(* Mutant: a halted core keeps its clock when the slice ends. *)
EndSliceStill ==
  /\ phase = "slice"
  /\ \A c \in Core : ~Sleeper(c) /\ ~Runnable(c)
  /\ now' = deadline
  /\ phase' = "dispatch"
  /\ UNCHANGED <<queue, deadline, clock, halted, irqVars, lastStart>>

(* Both cores have reached the deadline, or sleep: a sleeping core idles   *)
(* to the deadline, and the time of the scheduler settles there.           *)
EndSlice ==
  /\ phase = "slice"
  /\ \A c \in Core : ~Sleeper(c) /\ ~Runnable(c)
  /\ clock' = [c \in Core |-> IF halted[c] THEN Larger(clock[c], deadline) ELSE clock[c]]
  /\ now' = deadline
  /\ phase' = "dispatch"
  /\ UNCHANGED <<queue, deadline, halted, irqVars, lastStart>>

(* run_due_events: a device event raises its interrupt, if it is enabled   *)
(* at the device, and may schedule the next one.                           *)
Dispatch ==
  /\ phase = "dispatch"
  /\ HasDue(queue, now)
  /\ LET e == Head(queue)
     IN  /\ \/ RaiseAt(e.core, e.source, now)
            \/ UNCHANGED <<iflags, raised>>
         /\ \/ queue' = Tail(queue)
            \/ \E d \in 1 .. MaxDelay : queue' = Insert(Tail(queue), [e EXCEPT !.at = now + d])
  /\ UNCHANGED <<now, deadline, phase, clock, halted, ie, open, asserted, lastStart>>

EndDispatch ==
  /\ phase = "dispatch"
  /\ ~HasDue(queue, now)
  /\ phase' = "idle"
  /\ UNCHANGED <<now, queue, deadline, clock, halted, irqVars, lastStart>>

Next ==
  \/ StartSlice
  \/ PollGxFifo
  \/ EndSlice
  \/ Dispatch
  \/ EndDispatch
  \/ \E c \in Core : Wake(c) \/ Step(c)

Spec == Init /\ [][Next]_vars
-----------------------------------------------------------------------------
TypeOK ==
  /\ now \in Nat
  /\ queue \in Seq([at : Nat, core : Core, source : DeviceSources])
  /\ deadline \in Nat
  /\ phase \in {"idle", "slice", "dispatch"}
  /\ clock \in [Core -> Nat]
  /\ halted \in [Core -> BOOLEAN]
  /\ ie \in [Core -> SUBSET Source]
  /\ iflags \in [Core -> SUBSET Source]
  /\ open \in [Core -> BOOLEAN]
  /\ asserted \in [Core -> Nat]
  /\ lastStart \in Nat
  /\ raised \in [Core -> [Source -> Nat]]

(* The two cores run on one timeline: no instruction of either core begins *)
(* before one that has already run, whoever slept, woke or overshot a      *)
(* deadline in between.  Shared memory is only coherent because of it.     *)
InstructionsInOrder == [][lastStart' >= lastStart]_vars

(* "An IRQ set by the other core is never delivered before it causally     *)
(* happened": when a core enters its handler, every enabled interrupt the  *)
(* handler will find in IF has been raised at or before the core's clock.  *)
DeliveredAfterRaise ==
  [][\A c \in Core :
       (LineReady(c) /\ ~halted[c] /\ clock'[c] # clock[c])
         => \A s \in ie[c] \cap iflags[c] : raised[c][s] <= clock[c]]_vars

(* When events are dispatched both cores stand at the deadline, or past it *)
(* by less than the one instruction that crossed it.                       *)
BarrierReached ==
  phase = "dispatch" =>
    \A c \in Core : clock[c] \in deadline .. deadline + 2 * MaxCost - 1

(* A core that sleeps is woken in the middle of a slice as soon as the     *)
(* interrupt comes: it goes on from where it halted, or from no later than *)
(* where the other core stands, and never skips ahead to the deadline.     *)
WokenAtOnce ==
  [][\A c \in Core : halted[c] /\ ~halted'[c] =>
       clock'[c] = clock[c] \/ clock'[c] <= clock[Other(c)]]_vars
=============================================================================

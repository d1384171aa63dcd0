------------------------------ MODULE GbaTimers ------------------------------
(***************************************************************************)
(* The GBA's timers (crates/gba/src/timer.rs) on the event queue, driven   *)
(* by the CPU's instructions and by the dispatch of due overflow events.   *)
(*                                                                         *)
(* A free-running timer does not tick: it keeps its count at `lastSync`    *)
(* and an overflow event in the queue.  A control write never removes that *)
(* event; it bumps the timer's generation, and the handler drops an event  *)
(* of another generation.  Time passes in whole instructions, so an event  *)
(* may be handled later than its timestamp.                                *)
(***************************************************************************)
EXTENDS Integers, Sequences, EventQueue

CONSTANTS
  NTimers,    (* how many timers there are: 4 in the code                  *)
  Wrap,       (* OVERFLOW, one past the largest count: 2^16 in the code    *)
  Shifts,     (* PRESCALER_SHIFTS: {0, 6, 8, 10} in the code               *)
  GenMod,     (* how many generations there are: 2^32 in the code          *)
  MaxFetch,   (* longest wait, in cycles, before an instruction's store    *)
  MaxStore,   (* longest wait after it                                     *)
  MaxTime     (* bound of the model: time does not move on from there      *)

(* The fifth conjunct: the generations outlast the longest period *)
(* (2^26 cycles of 2^32 in the code), so that none comes round again while *)
(* an event of it is still in the queue.                                   *)
ASSUME TimersAssumption ==
  /\ NTimers \in Nat \ {0}
  /\ Wrap \in Nat \ {0}
  /\ Shifts \subseteq Nat
  /\ GenMod \in Nat \ {0}
  /\ \A s \in Shifts : 2 ^ s \in 1 .. GenMod - 1 /\ Wrap * 2 ^ s < GenMod
  /\ MaxFetch \in Nat \ {0}
  /\ MaxStore \in Nat \ {0}
  /\ MaxTime \in Nat

VARIABLES
  now,      (* Scheduler::now                                              *)
  queue,    (* the pending overflow events, in dispatch order              *)
  timers,   (* Timers::timers                                              *)
  iflags    (* the timers whose request bit is set in IF                   *)

vars == <<now, queue, timers, iflags>>

TimerId == 0 .. NTimers - 1
Count == 0 .. Wrap - 1

(* The fields of TMxCNT_H. *)
Control == [shift : Shifts, irq : BOOLEAN, cascade : BOOLEAN, enabled : BOOLEAN]

Timer == [reload : Count, counter : Count, lastSync : Nat, generation : 0 .. GenMod - 1,
          shift : Shifts, irq : BOOLEAN, cascade : BOOLEAN, enabled : BOOLEAN]

NewTimer(s) ==
  [reload |-> 0, counter |-> 0, lastSync |-> 0, generation |-> 0,
   shift |-> s, irq |-> FALSE, cascade |-> FALSE, enabled |-> FALSE]

(* Whether the count advances with guest time. *)
FreeRunning(t) == t.enabled /\ ~t.cascade

(* Whether the count advances with the overflows of the timer below. *)
CountsUp(t) == t.enabled /\ t.cascade

(* Mutant: the derived count is not cut to 16 bits. *)
LiveCounterUnwrapped(t, at) ==
  IF FreeRunning(t)
  THEN t.counter + (at - t.lastSync) \div 2 ^ t.shift
  ELSE t.counter

(* The count a read of TMxCNT_L returns at time `at`, 16 bits wide. *)
LiveCounter(t, at) ==
  IF FreeRunning(t)
  THEN (t.counter + (at - t.lastSync) \div 2 ^ t.shift) % Wrap
  ELSE t.counter

(* When a free-running timer passes its largest count. *)
OverflowAt(t) == t.lastSync + (Wrap - t.counter) * 2 ^ t.shift

(* Mutant: the first period after a rewrite is taken from the reload. *)
OverflowEventFromReload(t, i) ==
  [at |-> t.lastSync + (Wrap - t.reload) * 2 ^ t.shift, timer |-> i,
   generation |-> t.generation]

OverflowEvent(t, i) == [at |-> OverflowAt(t), timer |-> i, generation |-> t.generation]

(* The queue with the next overflow of timer i, now in state t. *)
Schedule(q, t, i) == IF FreeRunning(t) THEN Insert(q, OverflowEvent(t, i)) ELSE q

(* Mutant: the generation of an event is not looked at. *)
LiveAlways(e) == TRUE

(* Whether a queued event is the one its timer is waiting for. *)
Live(e) == timers[e.timer].generation = e.generation
-----------------------------------------------------------------------------
Init ==
  /\ now = 0
  /\ queue = <<>>
  /\ \E s \in Shifts :
       /\ \A r \in Shifts : s <= r
       /\ timers = [i \in TimerId |-> NewTimer(s)]
  /\ iflags = {}

(* Mutant: a rewrite does not bump the generation. *)
RewrittenSameGeneration(t, i, c, at) ==
  LET count == IF FreeRunning(t) THEN LiveCounter(t, at) ELSE t.counter
      starts == c.enabled /\ ~t.enabled
  IN  [t EXCEPT !.counter = IF starts THEN t.reload ELSE count,
                !.lastSync = IF starts \/ FreeRunning(t) THEN at ELSE @,
                !.shift = c.shift, !.irq = c.irq, !.cascade = i # 0 /\ c.cascade,
                !.enabled = c.enabled]

(* Mutant: the live count is not frozen before the timing changes. *)
RewrittenUnfrozen(t, i, c, at) ==
  LET starts == c.enabled /\ ~t.enabled
  IN  [t EXCEPT !.counter = IF starts THEN t.reload ELSE @,
                !.lastSync = IF starts \/ FreeRunning(t) THEN at ELSE @,
                !.generation = (@ + 1) % GenMod,
                !.shift = c.shift, !.irq = c.irq, !.cascade = i # 0 /\ c.cascade,
                !.enabled = c.enabled]

(* write_control, up to the generation bump: the timer before, and the     *)
(* state it is left in by a write of `c` at time `at`.                     *)
Rewritten(t, i, c, at) ==
  LET frozen == IF FreeRunning(t)
                THEN [t EXCEPT !.counter = LiveCounter(t, at), !.lastSync = at]
                ELSE t
      starts == c.enabled /\ ~t.enabled
  IN  [reload     |-> t.reload,
       counter    |-> IF starts THEN t.reload ELSE frozen.counter,
       lastSync   |-> IF starts THEN at ELSE frozen.lastSync,
       generation |-> (t.generation + 1) % GenMod,
       shift      |-> c.shift,
       irq        |-> c.irq,
       cascade    |-> i # 0 /\ c.cascade,
       enabled    |-> c.enabled]

(* The store of TMxCNT_H at time `at`, on top of the timer state t (which  *)
(* differs from timers[i] when a word store has just set the reload).      *)
StoreControl(i, t, c, at) ==
  LET u == Rewritten(t, i, c, at)
  IN  /\ timers' = [timers EXCEPT ![i] = u]
      /\ queue' = Schedule(queue, u, i)

write_reload(i, v) ==
  /\ timers' = [timers EXCEPT ![i].reload = v]
  /\ UNCHANGED <<queue, iflags>>

write_control(i, c, at) ==
  /\ StoreControl(i, timers[i], c, at)
  /\ UNCHANGED iflags

(* A word store: the low half sets the reload, then the high half the      *)
(* control, at the same instant.                                           *)
write_both(i, v, c, at) ==
  /\ StoreControl(i, [timers[i] EXCEPT !.reload = v], c, at)
  /\ UNCHANGED iflags

(* A store to IF clears the bits it writes. *)
acknowledge(i) == iflags' = iflags \ {i} /\ UNCHANGED <<queue, timers>>

(* One CPU instruction, begun before the deadline: the fetch takes time,   *)
(* then a store may reach a timer register, then the store takes its own   *)
(* time (or, with no store, the instruction just runs on).                 *)
Instruction ==
  /\ BeforeDeadline(queue, now)
  /\ now < MaxTime
  /\ \E f \in 1 .. MaxFetch :
       \/ /\ now' = now + f
          /\ UNCHANGED <<queue, timers, iflags>>
       \/ /\ \E d \in 1 .. MaxStore : now' = now + f + d
          /\ \E i \in TimerId :
               \/ \E v \in Count : write_reload(i, v)
               \/ \E c \in Control : write_control(i, c, now + f)
               \/ \E v \in Count, c \in Control : write_both(i, v, c, now + f)
               \/ acknowledge(i)

(* A halted CPU runs no instruction: the timeline jumps to the deadline. *)
Halted ==
  /\ queue # <<>>
  /\ now < queue[1].at
  /\ now < MaxTime
  /\ now' = queue[1].at
  /\ UNCHANGED <<queue, timers, iflags>>

(* cascade_from: the timers above i that the overflow of timer i reaches   *)
(* and carries over, and the one at which the carry stops.                 *)
Carried(ts, i) ==
  {j \in TimerId : j > i /\ \A k \in i + 1 .. j : CountsUp(ts[k]) /\ ts[k].counter = Wrap - 1}

(* Mutant: a carry does not reach the timer after the one it passes. *)
BumpedNextOnly(ts, i) ==
  {j \in TimerId : j = i + 1 /\ CountsUp(ts[j]) /\ ts[j].counter # Wrap - 1}

Bumped(ts, i) ==
  {j \in TimerId : /\ j - 1 \in Carried(ts, i) \cup {i}
                   /\ CountsUp(ts[j])
                   /\ ts[j].counter # Wrap - 1}

(* handle_overflow of an event of the current generation. *)
Overflow(i) ==
  LET t == [timers[i] EXCEPT !.counter = timers[i].reload, !.lastSync = now]
      carried == Carried(timers, i)
      bumped == Bumped(timers, i)
  IN  /\ timers' = [j \in TimerId |->
           IF j = i THEN t
           ELSE IF j \in carried THEN [timers[j] EXCEPT !.counter = timers[j].reload]
           ELSE IF j \in bumped THEN [timers[j] EXCEPT !.counter = @ + 1]
           ELSE timers[j]]
      /\ iflags' = iflags \cup {j \in carried \cup {i} : timers[j].irq}
      /\ queue' = Schedule(Tail(queue), t, i)

(* One turn of run_due_events; an event of an older generation is ignored. *)
handle_overflow ==
  /\ HasDue(queue, now)
  /\ \/ /\ Live(queue[1])
        /\ Overflow(queue[1].timer)
     \/ /\ ~Live(queue[1])
        /\ queue' = Tail(queue)
        /\ UNCHANGED <<timers, iflags>>
  /\ UNCHANGED now

Next == Instruction \/ Halted \/ handle_overflow

Spec == Init /\ [][Next]_vars
-----------------------------------------------------------------------------
LiveEvents(i) == {k \in 1 .. Len(queue) : queue[k].timer = i /\ Live(queue[k])}

TypeOK ==
  /\ now \in Nat
  /\ \A k \in 1 .. Len(queue) :
       queue[k] \in [at : Nat, timer : TimerId, generation : 0 .. GenMod - 1]
  /\ timers \in [TimerId -> Timer]
  /\ iflags \subseteq TimerId

(* Generations stand in for cancellation: whatever rewrites a timer has    *)
(* seen, a free-running timer has exactly one event in the queue that its  *)
(* handler will accept, every other one is stale, and a timer that is      *)
(* stopped or counts up has none.                                          *)
OneLiveOverflow ==
  \A i \in TimerId :
    IF FreeRunning(timers[i])
    THEN \E k \in LiveEvents(i) : LiveEvents(i) = {k}
    ELSE LiveEvents(i) = {}

(* The live event is set for the instant at which the lazily derived count *)
(* wraps: an earlier read never sees the count wrap before the overflow.   *)
OverflowOnTime ==
  \A i \in TimerId : \A k \in LiveEvents(i) :
    /\ queue[k].at = OverflowAt(timers[i])
    /\ now < queue[k].at => LiveCounter(timers[i], now) >= timers[i].counter

(* A timer that is stopped stays silent until it is started again, even    *)
(* though its old event is still in the queue and will be popped.          *)
StoppedStaysSilent ==
  \A i \in TimerId : i \in iflags' \ iflags => timers[i].enabled /\ timers[i].irq

(* "Freeze the live count before changing timing parameters": a rewrite    *)
(* that leaves a running timer enabled changes what it counts from now on, *)
(* never the count it had reached at the instant of the write.             *)
RewriteKeepsCount ==
  \A i \in TimerId :
    /\ FreeRunning(timers[i])
    /\ timers[i].generation # timers'[i].generation
    => timers'[i].counter = LiveCounter(timers[i], timers'[i].lastSync)

(* Count-up timers chained above timer 0 form one wide counter of its      *)
(* overflows: whatever instructions and rewrites come between, handling an *)
(* overflow of timer 0 adds one to the number the chain holds, carries     *)
(* included, and no other timer's overflow is needed for it.               *)
Chain(ts) ==
  LET c[n \in TimerId] ==
        IF n = 0 THEN [value |-> 0, size |-> 1]
        ELSE [value |-> c[n - 1].value + ts[n].counter * c[n - 1].size,
              size |-> c[n - 1].size * Wrap]
  IN  c[NTimers - 1]

ChainCounts ==
  (/\ queue # <<>> /\ queue[1].timer = 0
   /\ timers[0].lastSync # timers'[0].lastSync
   /\ timers[0].generation = timers'[0].generation
   /\ \A j \in TimerId \ {0} : CountsUp(timers[j]) /\ timers[j].reload = 0)
  => Chain(timers').value = (Chain(timers).value + 1) % Chain(timers).size

(* What every step of the timers promises.                                 *)
TimersStepRight == [][StoppedStaysSilent /\ RewriteKeepsCount /\ ChainCounts]_vars

(* scheduler.rs, schedule_at: "scheduling into the past is always a bug".  *)
(* Every event is queued for the start of the running instruction or later.*)
NeverScheduledInPast ==
  [][\A k \in 1 .. Len(queue') : queue'[k].at < now =>
       \E j \in 1 .. Len(queue) : queue[j] = queue'[k]]_vars
=============================================================================

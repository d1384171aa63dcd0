----------------------------- MODULE GbaRunLoop -----------------------------
(***************************************************************************)
(* The GBA execution loop (crates/gba/src/system.rs): run_step and the     *)
(* run_until inside it, the interrupt controller (interrupt.rs), HALT and  *)
(* STOP (io.rs), the keypad interrupt (keypad.rs) and the serial barrier,  *)
(* with a host that slices frames, presses keys and delivers link words.   *)
(* Times are kept relative to the guest's present.                         *)
(***************************************************************************)
EXTENDS Integers, FiniteSets, FiniteSetsExt

CONSTANTS
  Slice,   (* max_cycles of one run_step call *)
  Period   (* cycles between two frames *)

VARIABLE
  loop  (* [at, left, until, power, flags, ie, ime, masked, awaiting, keys,  *)
        (* keycnt, ended, stall, outcome, unseen]: the host or the   *)
        (* loop, the cycles to the target and to the PPU event, HALTCNT, IF, *)
        (* IE, IME, the CPSR I bit, a transfer that waits for the peer, the  *)
        (* keypad, the frame counter against the call's, DMA stall cycles,   *)
        (* what the call answered, and (history) frames ended and not        *)
        (* reported, nor given up by a call that met the barrier besides     *)

Sources == {"vblank", "serial", "keypad"}
StopWake == {"serial", "keypad"}
Enables == {{}, {"vblank"}, Sources}
Keys == {"a", "b"}
KeyConditions == {"off", "any", "all"}

Init ==
  loop = [at |-> "host", left |-> 0, until |-> Period, power |-> "running", flags |-> {},
          ie |-> {}, ime |-> FALSE, masked |-> FALSE, awaiting |-> FALSE, keys |-> {},
          keycnt |-> "off", ended |-> FALSE, stall |-> 0,
          outcome |-> "Yielded", unseen |-> 0]

(* InterruptController::pending, pending_within, line_asserted. *)
Pending(r, within) == r.ie \cap r.flags \cap within # {}
LineAsserted(r) == r.ime /\ Pending(r, Sources)

(* Mutant: STOP is ended by the sources that end HALT, less its own. *)
ShouldWakeHaltOnly(r) == r.power = "halted" /\ Pending(r, Sources)

ShouldWake(r) ==
  CASE r.power = "running" -> FALSE
    [] r.power = "halted"  -> Pending(r, Sources)
    [] r.power = "stopped" -> Pending(r, StopWake)

LowPower == loop.power # "running"

(* Keypad::irq_condition_met, with every key selected. *)
KeyConditionMet(r) ==
  \/ r.keycnt = "any" /\ r.keys # {}
  \/ r.keycnt = "all" /\ r.keys = Keys

Advanced(r, cycles) == [r EXCEPT !.left = @ - cycles, !.until = @ - cycles]
-----------------------------------------------------------------------------
(* run_step: the target, and the frame the call starts in. *)
Call ==
  /\ loop.at = "host"
  /\ loop' = [loop EXCEPT !.at = "loop", !.left = Slice, !.outcome = "Yielded"]

Running == loop.at = "loop" /\ loop.left > 0 /\ ~loop.awaiting

Deadline == Min({loop.left, loop.until})

AcceptsIrq == LineAsserted(loop) /\ ~loop.masked

(* What one instruction may do to the machine; `cost` cycles later. *)
Executed(r) ==
  {r} \cup {[r EXCEPT !.ie = e] : e \in Enables} \cup {[r EXCEPT !.ime = ~@]}
  \cup {[r EXCEPT !.masked = ~@]} \cup {[r EXCEPT !.flags = @ \ {s}] : s \in Sources}
  \cup {[r EXCEPT !.power = p] : p \in {"halted", "stopped"}}
  \cup {[r EXCEPT !.awaiting = TRUE]} \cup {[r EXCEPT !.keycnt = k] : k \in KeyConditions}

(* Below the deadline a running CPU accepts an interrupt, which masks      *)
(* further ones, and executes one instruction, whole.                      *)
Instruction ==
  /\ Running /\ Deadline > 0 /\ ~LowPower
  /\ \E cost \in {1, 2} :
     \E r \in Executed(IF AcceptsIrq THEN [loop EXCEPT !.masked = TRUE] ELSE loop) :
       loop' = Advanced(r, cost)

(* The PPU event: the frame counter ticks, VBlank is requested, and a DMA  *)
(* that waited for it stalls the CPU.                                      *)
Dispatched(r) ==
  IF r.until > 0 THEN {r}
  ELSE {[r EXCEPT !.until = @ + Period, !.flags = @ \cup {"vblank"}, !.ended = TRUE,
                  !.unseen = @ + 1, !.stall = s] : s \in {0, 1}}

(* At the deadline, or asleep: jump to it but never back, dispatch, pay    *)
(* the stall, and wake.                                                    *)
Idle ==
  /\ Running /\ ~(Deadline > 0 /\ ~LowPower)
  /\ \E d \in Dispatched(IF LowPower THEN Advanced(loop, Max({Deadline, 0})) ELSE loop) :
       LET r == [Advanced(d, d.stall) EXCEPT !.stall = 0]
       IN  loop' = [r EXCEPT !.power = IF ShouldWake(r) THEN "running" ELSE @]

Answered(r) ==
  [r EXCEPT !.at = "host", !.left = 0, !.ended = FALSE,
            !.unseen = CASE r.outcome = "FrameComplete" -> @ - 1
                         [] r.outcome = "LinkPending" -> 0
                         [] OTHER -> @]

(* Mutant: a slice that runs out is looked at before the frame counter. *)
ReturnSliceFirst ==
  /\ loop.at = "loop" /\ ~Running
  /\ loop' = Answered([loop EXCEPT !.outcome = CASE loop.awaiting -> "LinkPending"
                                                 [] loop.left <= 0 -> "Yielded"
                                                 [] OTHER -> "FrameComplete"])

(* run_step's answer: the barrier, then the frame counter, then the slice. *)
Return ==
  /\ loop.at = "loop" /\ ~Running
  /\ loop' = Answered([loop EXCEPT !.outcome = CASE loop.awaiting -> "LinkPending"
                                                 [] loop.ended -> "FrameComplete"
                                                 [] OTHER -> "Yielded"])

(* The host: set_key raises the keypad interrupt on the edge of the        *)
(* condition, and the peer's word ends the barrier.                        *)
SetKey ==
  /\ loop.at = "host"
  /\ \E ks \in {loop.keys \cup {k} : k \in Keys} \cup {loop.keys \ {k} : k \in Keys} :
       LET r == [loop EXCEPT !.keys = ks]
       IN  loop' = [r EXCEPT !.flags = IF ~KeyConditionMet(loop) /\ KeyConditionMet(r)
                                       THEN @ \cup {"keypad"} ELSE @]

Deliver ==
  /\ loop.at = "host" /\ loop.awaiting
  /\ loop' = [loop EXCEPT !.awaiting = FALSE, !.flags = @ \cup {"serial"}]

Next == Call \/ Instruction \/ Idle \/ Return \/ SetKey \/ Deliver

vars == loop

(* The host calls on and pumps the link; the loop runs.                    *)
GoesOn == Call \/ Instruction \/ Idle \/ Return
Fairness == WF_vars(GoesOn) /\ WF_vars(Deliver)

Spec == Init /\ [][Next]_vars /\ Fairness
-----------------------------------------------------------------------------
TypeOK ==
  /\ loop.at \in {"host", "loop"} /\ loop.power \in {"running", "halted", "stopped"}
  /\ loop.flags \subseteq Sources /\ loop.keys \subseteq Keys /\ loop.unseen \in 0 .. 1
  /\ loop.stall \in {0, 1} /\ loop.left \in -2 .. Slice /\ loop.until \in -2 .. Period

(* "FrameComplete: the video frame finished": the host hears of every      *)
(* frame in the call that ends it, whatever sleeps, stalls and interrupts  *)
(* the call runs through, but for a call that also meets the barrier,      *)
(* whose frame no later call reports.                                      *)
FramesReported == loop.at = "host" => loop.unseen = 0

(* A sleeping CPU with an enabled interrupt that may end its sleep is      *)
(* running again in time, key presses and link words from the host that    *)
(* arrive between two calls included.                                      *)
MayWake ==
  \/ loop.power = "halted" /\ loop.ie \cap loop.flags # {}
  \/ loop.power = "stopped" /\ loop.ie \cap loop.flags \cap {"keypad", "serial"} # {}
SleepersWake == MayWake ~> ~LowPower

(* io.rs: "Halt: paused until any enabled interrupt is pending". A CPU     *)
(* that halts with one pending resumes where it is.                        *)
HaltEndsAtOnce ==
  [][Running /\ loop.power = "halted" /\ ShouldWake(loop) => loop'.left = loop.left]_vars
=============================================================================

-------------------------- MODULE EmulatorSession ---------------------------
(***************************************************************************)
(* One running game on iOS and macOS (EmulatorSession.swift): the main     *)
(* thread with the user's and the system's calls, the emulation thread     *)
(* with its paced loop, stateLock (each critical section is one step here) *)
(* and coreLock, with the battery save (SaveStore.swift) and the link.     *)
(***************************************************************************)
EXTENDS SaveRules, FiniteSets

(* The serial link of the iOS and macOS hosts (Link.swift): LinkController *)
(* as operators on its record `l`, which the session runs on its threads.  *)
(* The user asks on the main thread, the listener accepts on the control   *)
(* queue, and reconcile applies what they left behind on the emulation     *)
(* thread. l is [listening, knocking, accepting, pending, drop, carrier,   *)
(* configured, conns, core, asked]: the listener, a peer on its way in, an *)
(* accept handler that has not yet stopped the listener, the two recorded  *)
(* intents, the carrier in use, whether the core was told of it, every     *)
(* connection with its status and unit id, the link as the core knows it,  *)
(* and (history) the last intent anybody recorded.                         *)
CONSTANT Connections  (* the connections that may be opened *)

NoConnection == "none"
Statuses == {"unused", "connecting", "ready", "failed", "closed"}
CoreUnlinked == [linked |-> FALSE, id |-> 0]

NewLink ==
  [listening |-> FALSE, knocking |-> FALSE, accepting |-> FALSE,
   pending |-> NoConnection, drop |-> FALSE, carrier |-> NoConnection, configured |-> FALSE,
   conns |-> [c \in Connections |-> [status |-> "unused", id |-> 0]],
   core |-> CoreUnlinked, asked |-> NoConnection]

Unused(l) == {c \in Connections : l.conns[c].status = "unused"}

StopListener(l) == [l EXCEPT !.listening = FALSE]

(* A LinkConnection is made and recorded as the carrier to adopt. *)
SetCarrierIntent(l, c, id) ==
  [l EXCEPT !.conns[c] = [status |-> "connecting", id |-> id],
            !.pending = c, !.drop = FALSE, !.asked = c]

(* The user's operations. The listener may fail to come up. *)
Hosted(l) == {[StopListener(l) EXCEPT !.listening = up] : up \in BOOLEAN}
Joined(l) == {SetCarrierIntent(StopListener(l), c, 1) : c \in Unused(l)}
(* Mutant: a disconnect leaves a connection just made to be adopted. *)
DisconnectedKeepsPending(l) == [StopListener(l) EXCEPT !.drop = TRUE, !.asked = NoConnection]

Disconnected(l) ==
  [StopListener(l) EXCEPT !.drop = TRUE, !.pending = NoConnection, !.asked = NoConnection]

(* The network and the control queue: a peer comes in while we advertise,  *)
(* its handler records the intent and then stops whatever listener there   *)
(* is; connections come up, fail, and are closed by the other side.        *)
Knocked(l) == IF l.listening /\ ~l.knocking THEN {[l EXCEPT !.knocking = TRUE]} ELSE {}
Accepted(l) ==
  IF l.knocking /\ ~l.accepting
  THEN {[SetCarrierIntent(l, c, 0) EXCEPT !.knocking = FALSE, !.accepting = TRUE] :
          c \in Unused(l)}
  ELSE {}
AcceptEnded(l) ==
  IF l.accepting THEN {[StopListener(l) EXCEPT !.accepting = FALSE]} ELSE {}
NetworkChanged(l) ==
  UNION {{[l EXCEPT !.conns[c].status = s] :
            s \in CASE l.conns[c].status = "connecting" -> {"ready", "failed"}
                    [] l.conns[c].status = "ready" -> {"failed", "closed"}
                    [] OTHER -> {}} : c \in Connections}

(* cancel, of the carrier if there is one. *)
Cancelled(l) ==
  IF l.carrier = NoConnection THEN l
  ELSE [l EXCEPT !.conns[l.carrier].status = "closed", !.carrier = NoConnection]

(* teardown(core). *)
TornDown(l) ==
  LET c == Cancelled(l)
  IN  IF c.configured THEN [c EXCEPT !.core = CoreUnlinked, !.configured = FALSE] ELSE c

(* applyIntents: the disconnect first, then the carrier. *)
IntentsApplied(l) ==
  LET taken == [l EXCEPT !.pending = NoConnection, !.drop = FALSE]
      dropped == IF l.drop THEN TornDown(taken) ELSE taken
  IN  IF l.pending = NoConnection THEN dropped
      ELSE [TornDown(dropped) EXCEPT !.carrier = l.pending]

(* reconcile. *)
Reconciled(l) ==
  LET a == IntentsApplied(l)
      c == a.carrier
  IN  IF c = NoConnection THEN a
      ELSE CASE a.conns[c].status = "connecting" -> a
             [] a.conns[c].status = "ready" ->
                  [a EXCEPT !.core = IF a.configured THEN @
                                     ELSE [linked |-> TRUE, id |-> a.conns[c].id],
                            !.configured = TRUE]
             [] OTHER -> TornDown(a)

(* What reconcile returns: the frame is to be driven under the barrier. *)
DrivesLink(l) == l.carrier # NoConnection /\ l.conns[l.carrier].status = "ready"

(* shutdown: the core is not told. *)
ShutDown(l) == [Cancelled(StopListener(l)) EXCEPT !.configured = FALSE]
-----------------------------------------------------------------------------
LinkTypeOK(l) ==
  l \in [listening : BOOLEAN, knocking : BOOLEAN, accepting : BOOLEAN,
         pending : Connections \cup {NoConnection}, drop : BOOLEAN,
         carrier : Connections \cup {NoConnection}, configured : BOOLEAN,
         conns : [Connections -> [status : Statuses, id : {0, 1}]],
         core : [linked : BOOLEAN, id : {0, 1}],
         asked : Connections \cup {NoConnection}]

(* Once the intents are applied the link is the one that was last asked    *)
(* for, by the user or by a peer we let in, or none: an older request      *)
(* never survives a newer one. What the core was told is that connection.  *)
FollowsIntent(l) ==
  /\ l.carrier \in {l.asked, NoConnection}
  /\ l.core.linked <=> l.configured
  /\ l.core.linked => l.carrier # NoConnection /\ l.core.id = l.conns[l.carrier].id
-----------------------------------------------------------------------------
CONSTANTS
  Reasons,  (* PauseReason: "lifecycle", "menu", or fewer to bound a run    *)
  Counting  (* whether the console counts its stores: of TRUE and FALSE     *)

VARIABLE
  session  (* [ui, emu, alive, reasons, lock, lid, audio, backup, watch,    *)
           (* frames, mark, file, link, away, menu, late]: where the two    *)
           (* threads are, the pause reasons, who holds coreLock, the lid   *)
           (* and audio engine, the cartridge and its file, the link, and   *)
           (* (history) the stores made when the last flush that had to     *)
           (* wait began, whether the app is away or its menu up, and the   *)
           (* ticks begun since                                             *)

Init ==
  \E epochs \in Counting :
    LET b == NewBackup(epochs)
    IN  session = [ui |-> "new", emu |-> "off", alive |-> FALSE, reasons |-> {},
                   lock |-> "free", lid |-> "open", audio |-> "off", backup |-> b,
                   watch |-> NewWatch(b), flush |-> NewWatch(b), frames |-> 0, mark |-> 0, file |-> 0,
                   link |-> NewLink, away |-> FALSE, menu |-> FALSE, late |-> 0]

Idle == session.ui = "idle"

(* Mutant: any resume lifts every reason. *)
PauseClearsAll(s, reason, on) ==
  LET now == IF on THEN s.reasons \cup {reason} ELSE {}
  IN  [s EXCEPT !.reasons = now,
                !.audio = IF now = {} /\ s.reasons # {} THEN "playing"
                          ELSE IF now # {} /\ s.reasons = {} THEN "paused" ELSE @]

(* setPause: the audio engine follows the edges of "no reason left".       *)
Pause(s, reason, on) ==
  LET now == IF on THEN s.reasons \cup {reason} ELSE s.reasons \ {reason}
  IN  [s EXCEPT !.reasons = now,
                !.audio = IF now = {} /\ s.reasons # {} THEN "playing"
                          ELSE IF now # {} /\ s.reasons = {} THEN "paused" ELSE @]

(* History: the app goes out of sight, or comes back. *)
Hidden(s, away, menu) ==
  [s EXCEPT !.away = away, !.menu = menu,
            !.late = IF (s.away \/ s.menu) /\ (away \/ menu) THEN @ ELSE 0]
-----------------------------------------------------------------------------
(* The main thread. *)
Start ==
  /\ session.ui = "new"
  /\ session' = [session EXCEPT !.ui = "idle", !.alive = TRUE, !.emu = "top",
                                !.audio = "playing"]

Resign ==   (* pause(): the app loses focus *)
  /\ Idle /\ "lifecycle" \in Reasons
  /\ session' = Hidden(Pause(session, "lifecycle", TRUE), TRUE, session.menu)

Menu ==     (* openMenu and closeMenu *)
  /\ Idle /\ "menu" \in Reasons
  /\ \E up \in BOOLEAN :
       session' = Hidden(Pause(session, "menu", up), session.away, up)

EnterBackground ==
  /\ Idle /\ "lifecycle" \in Reasons
  /\ session' = [Hidden(Pause(session, "lifecycle", TRUE), TRUE, session.menu)
                   EXCEPT !.ui = "sleep"]

Teardown ==
  /\ Idle
  /\ session' = [session EXCEPT !.alive = FALSE, !.ui = "leave"]

(* enterBackground and teardown take coreLock and step the core until the  *)
(* game has finished its save (flushSaveWhenComplete).                     *)
TakeCore ==
  /\ session.ui \in {"sleep", "leave"} /\ session.lock = "free"
  /\ session' = [session EXCEPT !.lock = "ui", !.flush = NewWatch(session.backup),
                                !.frames = 0,
                                !.mark = IF session.backup.dirty THEN session.backup.written
                                         ELSE @]

Flushing == session.ui \in {"sleep", "leave"} /\ session.lock = "ui"

FlushFrame ==
  /\ Flushing /\ session.backup.dirty /\ KeepsWaiting(session.flush, session.frames)
  /\ \E b \in AfterFrame(session.backup) :
       session' = [session EXCEPT !.backup = b, !.flush = Watched(@, b),
                                  !.frames = @ + 1]

(* Mutant: the lid goes down before the save of the game is through. *)
FlushEndAtOnce ==
  /\ Flushing
  /\ \E f \in Flushed(session.backup, session.file) :
       session' = [session EXCEPT
         !.backup = f[1], !.file = f[2], !.lock = "free",
         !.lid = IF session.ui = "sleep" THEN "closed" ELSE @,
         !.ui = IF session.ui = "sleep" THEN "idle" ELSE "unlink"]

FlushEnd ==
  /\ Flushing
  /\ session.backup.dirty => ~KeepsWaiting(session.flush, session.frames)
  /\ \E f \in Flushed(session.backup, session.file) :
       session' = [session EXCEPT
         !.backup = f[1], !.file = f[2], !.lock = "free",
         !.lid = IF session.ui = "sleep" THEN "closed" ELSE @,
         !.ui = IF session.ui = "sleep" THEN "idle" ELSE "unlink"]

ShutDownLink ==
  /\ session.ui = "unlink"
  /\ session' = [session EXCEPT !.ui = "gone", !.link = ShutDown(@), !.audio = "off"]

EnterForeground ==   (* the lid under coreLock, then the pause reason *)
  \/ /\ Idle /\ "lifecycle" \in Reasons /\ session.lock = "free"
     /\ session' = [session EXCEPT !.lid = "open", !.ui = "wake"]
  \/ /\ session.ui = "wake"
     /\ session' = [Hidden(Pause(session, "lifecycle", FALSE), FALSE, session.menu)
                      EXCEPT !.ui = "idle"]

LinkCall ==
  /\ Idle
  /\ \E l \in Hosted(session.link) \cup Joined(session.link) \cup {Disconnected(session.link)} :
       session' = [session EXCEPT !.link = l]
-----------------------------------------------------------------------------
(* The emulation thread: runLoop reads `alive` and the reasons under       *)
(* stateLock, and tick takes coreLock some time after.                     *)
Check ==
  /\ session.emu = "top"
  /\ session.alive => session.reasons = {}
  /\ session' = [session EXCEPT !.emu = IF session.alive THEN "bound" ELSE "ended"]

BeginTick ==
  /\ session.emu = "bound" /\ session.lock = "free"
  /\ session' = [session EXCEPT
       !.emu = "tick", !.lock = "emu", !.link = Reconciled(@),
       !.late = IF session.away \/ session.menu THEN @ + 1 ELSE @]

(* Mutant: a tick that flushes does not give the core back. *)
EndTickLocked ==
  /\ session.emu = "tick"
  /\ \E b \in AfterFrame(session.backup) :
       LET w == Watched(session.watch, b)
       IN  \E f \in IF w.quiet >= Quiet THEN Flushed(b, session.file) ELSE {<<b, session.file>>} :
             session' = [session EXCEPT !.emu = "top", !.lock = IF w.quiet >= Quiet THEN "emu" ELSE "free",
                                        !.watch = w, !.backup = f[1], !.file = f[2]]

(* One frame, or several of a fast-forward, which a link forbids; then the *)
(* flush of a save that has come to rest, every 30th tick.                 *)
EndTick ==
  /\ session.emu = "tick"
  /\ \E a \in AfterFrame(session.backup) :
     \E b \in {a} \cup (IF DrivesLink(session.link) THEN {} ELSE AfterFrame(a)) :
       LET w == Watched(session.watch, b)
           rested == w.quiet >= Quiet
       IN  \E f \in {<<b, session.file>>}
                    \cup (IF rested THEN Flushed(b, session.file) ELSE {}) :
             session' = [session EXCEPT !.emu = "top", !.lock = "free", !.watch = w,
                                        !.backup = f[1], !.file = f[2]]
-----------------------------------------------------------------------------
Network ==
  \E l \in Knocked(session.link) \cup Accepted(session.link) \cup AcceptEnded(session.link)
             \cup NetworkChanged(session.link) :
    session' = [session EXCEPT !.link = l]

MainThread ==
  \/ Start \/ Resign \/ Menu \/ EnterBackground \/ Teardown \/ TakeCore \/ FlushFrame
  \/ FlushEnd \/ ShutDownLink \/ EnterForeground \/ LinkCall

EmulationThread == Check \/ BeginTick \/ EndTick

Next == MainThread \/ EmulationThread \/ Network

vars == session

(* A thread that can go on goes on: the loop is paced by the clock, and    *)
(* the calls of the main thread run to their end.                          *)
LeavingThread == TakeCore \/ FlushFrame \/ FlushEnd \/ ShutDownLink
Fairness == WF_vars(EmulationThread) /\ WF_vars(LeavingThread)

Spec == Init /\ [][Next]_vars /\ Fairness
-----------------------------------------------------------------------------
TypeOK ==
  /\ session.ui \in {"new", "idle", "sleep", "wake", "leave", "unlink", "gone"}
  /\ session.emu \in {"off", "top", "bound", "tick", "ended"}
  /\ session.lock \in {"free", "ui", "emu"}
  /\ session.reasons \subseteq Reasons
  /\ session.lid \in {"open", "closed"} /\ session.audio \in {"off", "playing", "paused"}
  /\ session.file \in 0 .. MaxWritten /\ session.mark \in 0 .. MaxWritten
  /\ session.frames \in 0 .. Guard
  /\ LinkTypeOK(session.link)

(* "independent causes compose correctly": from the moment the app is out  *)
(* of sight or its menu is up, until neither holds, the machine gets at    *)
(* most the one tick that had already looked; and the sound is off.        *)
PausesHold ==
  session.ui = "idle" /\ (session.away \/ session.menu) =>
    session.late <= 1 /\ session.audio = "paused"

(* enterBackground: "Let any in-progress save finish and persist it BEFORE *)
(* closing the lid": the lid never goes down on half a save.               *)
LidStep ==
  session.lid = "open" /\ session'.lid = "closed" /\ session.backup.epochs =>
    Settled(session'.backup.written, session'.mark)
LidSparesSave == [][LidStep]_vars

(* "a save forced by backgrounding/teardown is never truncated": whichever *)
(* thread writes the file, it is whole; only the flush of the main thread  *)
(* gives up, on a game that has stored more than a save meanwhile.         *)
FileStep ==
  session'.file # session.file /\ session.backup.epochs =>
    Whole(session'.file) \/ (Flushing /\ Settled(session'.file, session.mark))
FilesWhole == [][FileStep]_vars

(* A save that is not marked dirty is on file, whichever thread flushed it *)
(* and however often the write failed.                                     *)
CleanIsOnFile == ~session.backup.dirty => session.file = session.backup.written

(* A tick drives the link that was last asked for.                         *)
LinkAsAsked == session.emu = "tick" /\ session.ui # "gone" =>
  (session.link.pending = NoConnection /\ ~session.link.drop => FollowsIntent(session.link))

(* Leaving the game comes to an end, whatever the loop was doing.          *)
Leaving == session.ui = "leave"
Gone == session.ui = "gone"
TeardownEnds == Leaving ~> Gone

(* teardown: "the loop won't start another, so the core is ours after this *)
(* point".                                                                 *)
CoreIsOurs == session.ui \in {"unlink", "gone"} => session.emu # "tick"
=============================================================================

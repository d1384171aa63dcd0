---------------------------- MODULE SessionProofs ----------------------------
(***************************************************************************)
(* Proofs about the battery saves, pauses and link of a running game: the  *)
(* iOS and macOS session, and the desktop window loop that shares its save *)
(* rules, for any quiescence, guard, length of a save, number of stores    *)
(* and set of connections.                                                 *)
(***************************************************************************)
EXTENDS EmulatorSession, TLAPS

Backup == [written : 0 .. MaxWritten, gap : 0 .. MaxGap, dirty : BOOLEAN, epochs : BOOLEAN]
Watch == [epoch : 0 .. MaxWritten, quiet : 0 .. Quiet]
Link == [listening : BOOLEAN, knocking : BOOLEAN, accepting : BOOLEAN,
         pending : Connections \cup {NoConnection}, drop : BOOLEAN,
         carrier : Connections \cup {NoConnection}, configured : BOOLEAN,
         conns : [Connections -> [status : Statuses, id : {0, 1}]],
         core : [linked : BOOLEAN, id : {0, 1}],
         asked : Connections \cup {NoConnection}]

Session ==
  [ui : {"new", "idle", "sleep", "wake", "leave", "unlink", "gone"},
   emu : {"off", "top", "bound", "tick", "ended"}, alive : BOOLEAN,
   reasons : SUBSET Reasons, lock : {"free", "ui", "emu"}, lid : {"open", "closed"},
   audio : {"off", "playing", "paused"}, backup : Backup, watch : Watch, flush : Watch,
   frames : 0 .. Guard, mark : 0 .. MaxWritten, file : 0 .. MaxWritten, link : Link,
   away : BOOLEAN, menu : BOOLEAN, late : Nat]

(* The reasons to pause are those there are, the sound follows them, and   *)
(* an iteration of the loop that has looked has its one tick to come.      *)
PauseInv ==
  /\ session.reasons = (IF session.away THEN {"lifecycle"} ELSE {})
                       \cup (IF session.menu THEN {"menu"} ELSE {})
  /\ session.ui \in {"new", "gone"} \/
       session.audio = IF session.away \/ session.menu THEN "paused" ELSE "playing"
  /\ session.away \/ session.menu =>
       session.late + (IF session.emu = "bound" THEN 1 ELSE 0) <= 1
  /\ session.ui = "new" => ~session.away /\ ~session.menu

(* The intents recorded are what was asked for last, and the carrier is    *)
(* older than what is recorded but not older than what was applied.        *)
IntentInv(l) ==
  /\ l.pending # NoConnection => l.asked = l.pending /\ ~l.drop
  /\ l.drop => l.asked = NoConnection
  /\ l.pending = NoConnection /\ ~l.drop => l.carrier \in {l.asked, NoConnection}
  /\ l.carrier # NoConnection => l.conns[l.carrier].status # "unused"
  /\ l.pending # NoConnection => l.conns[l.pending].status # "unused"

(* What the core was told is the carrier. *)
Told(l) ==
  /\ l.core.linked <=> l.configured
  /\ l.configured => l.carrier # NoConnection /\ l.core.id = l.conns[l.carrier].id

LinkInv == IntentInv(session.link) /\ (session.ui # "gone" => Told(session.link))

(* A counter that has seen the last store of a save under way has not      *)
(* counted more frames than the game has let pass since.                   *)
Behind(b, w) ==
  b.epochs => /\ w.epoch <= b.written
              /\ w.epoch = b.written /\ ~Whole(b.written) => w.quiet <= b.gap

(* How many frames a flush has waited for at most, of a game that has made *)
(* fewer stores than a save since then: each store has taken its gap and a *)
(* frame, and at most once has the game rested between two saves.          *)
Crossed(mark, written) == \E n \in mark .. written - 1 : Whole(n)
Waited(b, w, frames, mark) ==
  b.epochs /\ b.written - mark < SaveLength =>
    LET stores == (b.written - mark) * (MaxGap + 1)
    IN  /\ Whole(b.written) => frames <= stores + w.quiet
        /\ ~Whole(b.written) =>
             frames <= stores + b.gap + IF Crossed(mark, b.written) THEN Quiet ELSE 0

(* A final flush in progress. *)
Flushes(b, w, frames, mark) ==
  /\ b.epochs => w.epoch = b.written
  /\ mark <= b.written
  /\ Waited(b, w, frames, mark)

SaveInv ==
  /\ CleanIsOnFile
  /\ session.lock = "ui" => session.ui \in {"sleep", "leave"}
  /\ session.mark <= session.backup.written
  /\ Behind(session.backup, session.watch)
  /\ session.backup.epochs /\ ~session.backup.dirty =>
       Settled(session.backup.written, session.mark)
  /\ Flushing => /\ Behind(session.backup, session.flush)
                 /\ session.backup.dirty =>
                      Flushes(session.backup, session.flush, session.frames, session.mark)

IInv == session \in Session /\ PauseInv /\ LinkInv /\ SaveInv
-----------------------------------------------------------------------------
LEMMA MinOfTwo ==
  ASSUME NEW a \in Int, NEW b \in Int
  PROVE  Min({a, b}) = IF a <= b THEN a ELSE b
  <1>. DEFINE m == IF a <= b THEN a ELSE b
  <1>1. m \in {a, b} /\ \A y \in {a, b} : m =< y
    OBVIOUS
  <1>2. \A x \in {a, b} : (\A y \in {a, b} : x =< y) => x = m
    OBVIOUS
  <1>. QED
    BY <1>1, <1>2 DEF Min

(* Two whole saves are a save apart.                                       *)
LEMMA WholeApart ==
  ASSUME NEW m \in Nat, NEW n \in Nat, Whole(m), Whole(n), m < n
  PROVE  n - m >= SaveLength
  <1>. DEFINE L == SaveLength
              p == m \div L
              q == n \div L
  <1>1. L \in Nat \ {0}
    BY SaveRulesAssumption
  <1>2. m = L * p /\ n = L * q /\ p \in Nat /\ q \in Nat
    BY <1>1 DEF Whole
  <1>3. q >= p + 1
    BY <1>1, <1>2
  <1>4. L * q >= L * (p + 1)
    BY <1>1, <1>2, <1>3
  <1>. QED
    BY <1>1, <1>2, <1>4

LEMMA NewWatchTyped ==
  ASSUME NEW b \in Backup
  PROVE  NewWatch(b) \in Watch /\ Behind(b, NewWatch(b))
  BY SaveRulesAssumption DEF Backup, Watch, NewWatch, Epoch, Behind

(* A frame of the game makes one store or none.                            *)
LEMMA FrameCases ==
  ASSUME NEW b \in Backup, NEW c \in AfterFrame(b)
  PROVE  /\ c \in Backup /\ c.epochs = b.epochs
         /\ \/ /\ c.written = b.written /\ c.dirty = b.dirty
               /\ ~Whole(b.written) => c.gap = b.gap + 1
            \/ c.written = b.written + 1 /\ c.gap = 0 /\ c.dirty
  <1>1. /\ b.written \in 0 .. MaxWritten /\ b.gap \in 0 .. MaxGap
        /\ MaxGap \in Nat /\ MaxWritten \in Nat
    BY SaveRulesAssumption DEF Backup
  <1>2. CASE /\ c = [b EXCEPT !.gap = Min({b.gap + 1, MaxGap})]
             /\ Whole(b.written) \/ b.gap < MaxGap
    <2>1. Min({b.gap + 1, MaxGap}) = IF b.gap + 1 <= MaxGap THEN b.gap + 1 ELSE MaxGap
      BY <1>1, MinOfTwo
    <2>. QED
      BY <1>1, <1>2, <2>1 DEF Backup
  <1>3. CASE /\ c = [b EXCEPT !.written = @ + 1, !.gap = 0, !.dirty = TRUE]
             /\ b.written < MaxWritten
    <2>1. c \in Backup
      <3>1. b.written + 1 \in 0 .. MaxWritten /\ 0 \in 0 .. MaxGap /\ TRUE \in BOOLEAN
        BY <1>1, <1>3
      <3>. QED
        BY <1>3, <3>1 DEF Backup
    <2>2. c.written = b.written + 1 /\ c.gap = 0 /\ c.dirty = TRUE /\ c.epochs = b.epochs
      BY <1>3 DEF Backup
    <2>. QED
      BY <2>1, <2>2
  <1>4. \/ /\ c = [b EXCEPT !.gap = Min({b.gap + 1, MaxGap})]
           /\ Whole(b.written) \/ b.gap < MaxGap
        \/ /\ c = [b EXCEPT !.written = @ + 1, !.gap = 0, !.dirty = TRUE]
           /\ b.written < MaxWritten
    <2>. DEFINE A == IF Whole(b.written) \/ b.gap < MaxGap THEN {0} ELSE {}
                D == IF b.written < MaxWritten THEN {0} ELSE {}
    <2>1. \/ \E x \in A : c = [b EXCEPT !.gap = Min({b.gap + 1, MaxGap})]
          \/ \E x \in D : c = [b EXCEPT !.written = b.written + 1, !.gap = 0, !.dirty = TRUE]
      BY Zenon DEF AfterFrame
    <2>2. \A x \in A : Whole(b.written) \/ b.gap < MaxGap
      OBVIOUS
    <2>3. \A x \in D : b.written < MaxWritten
      OBVIOUS
    <2>. QED
      BY <2>1, <2>2, <2>3
  <1>. QED
    BY <1>2, <1>3, <1>4

LEMMA WatchedTyped ==
  ASSUME NEW b \in Backup, NEW w \in Watch
  PROVE  /\ Watched(w, b) \in Watch
         /\ Watched(w, b).epoch = Epoch(b)
         /\ Watched(w, b).quiet = IF Epoch(b) # w.epoch THEN 0
                                  ELSE IF w.quiet + 1 <= Quiet THEN w.quiet + 1 ELSE Quiet
  <1>1. Epoch(b) \in 0 .. MaxWritten
    BY SaveRulesAssumption DEF Backup, Epoch
  <1>2. Min({w.quiet + 1, Quiet}) = IF w.quiet + 1 <= Quiet THEN w.quiet + 1 ELSE Quiet
    BY SaveRulesAssumption, MinOfTwo DEF Watch
  <1>. QED
    BY <1>1, <1>2, SaveRulesAssumption DEF Watch, Watched

(* A counter stays behind the game, whether or not it sees a frame.        *)
LEMMA StaysBehind ==
  ASSUME NEW b \in Backup, NEW w \in Watch, Behind(b, w), NEW c \in AfterFrame(b)
  PROVE  Behind(c, w) /\ Behind(c, Watched(w, c))
  <1>1. /\ c \in Backup /\ c.epochs = b.epochs
        /\ \/ /\ c.written = b.written /\ c.dirty = b.dirty
              /\ ~Whole(b.written) => c.gap = b.gap + 1
           \/ c.written = b.written + 1 /\ c.gap = 0 /\ c.dirty
    BY FrameCases
  <1>2. /\ Watched(w, c).epoch = Epoch(c)
        /\ Watched(w, c).quiet = IF Epoch(c) # w.epoch THEN 0
                                 ELSE IF w.quiet + 1 <= Quiet THEN w.quiet + 1 ELSE Quiet
    BY <1>1, WatchedTyped
  <1>3. /\ b.written \in Nat /\ b.gap \in Nat /\ c.written \in Nat /\ c.gap \in Nat
        /\ w.epoch \in Nat /\ w.quiet \in Nat /\ Quiet \in Nat
    BY <1>1, SaveRulesAssumption DEF Backup, Watch
  <1>. QED
    BY <1>1, <1>2, <1>3 DEF Behind, Epoch

(* A counter that has come to rest has seen the end of a save.             *)
LEMMA RestedIsWhole ==
  ASSUME NEW b \in Backup, NEW w \in Watch, Behind(b, w), b.epochs,
         w.epoch = b.written, w.quiet >= Quiet
  PROVE  Whole(b.written)
  BY SaveRulesAssumption DEF Backup, Watch, Behind

LEMMA FlushedCases ==
  ASSUME NEW b \in Backup, NEW file, NEW f \in Flushed(b, file)
  PROVE  /\ f[1] \in Backup /\ f[1].written = b.written /\ f[1].gap = b.gap
         /\ f[1].epochs = b.epochs
         /\ \/ f[1] = b /\ f[2] = file
            \/ b.dirty /\ ~f[1].dirty /\ f[2] = b.written
  <1>1. \/ f = <<b, file>>
        \/ b.dirty /\ f = <<[b EXCEPT !.dirty = FALSE], b.written>>
    BY DEF Flushed
  <1>2. CASE f = <<b, file>>
    BY <1>2
  <1>3. CASE b.dirty /\ f = <<[b EXCEPT !.dirty = FALSE], b.written>>
    <2>1. f[1] = [b EXCEPT !.dirty = FALSE] /\ f[2] = b.written
      BY <1>3
    <2>. QED
      BY <1>3, <2>1 DEF Backup
  <1>. QED
    BY <1>1, <1>2, <1>3
-----------------------------------------------------------------------------
(* The frames a flush waits, by the stores it sees.                        *)
LEMMA FlushGoesOn ==
  ASSUME NEW b \in Backup, NEW w \in Watch, NEW frames \in Nat, NEW mark \in Nat,
         Flushes(b, w, frames, mark), Behind(b, w), KeepsWaiting(w, frames),
         NEW c \in AfterFrame(b)
  PROVE  Flushes(c, Watched(w, c), frames + 1, mark)
  <1>. DEFINE v == Watched(w, c)
              s == b.written - mark
              G == MaxGap + 1
  <1>1. /\ c \in Backup /\ c.epochs = b.epochs
        /\ \/ /\ c.written = b.written /\ c.dirty = b.dirty
              /\ ~Whole(b.written) => c.gap = b.gap + 1
           \/ c.written = b.written + 1 /\ c.gap = 0 /\ c.dirty
    BY FrameCases
  <1>2. /\ v.epoch = Epoch(c)
        /\ v.quiet = IF Epoch(c) # w.epoch THEN 0
                     ELSE IF w.quiet + 1 <= Quiet THEN w.quiet + 1 ELSE Quiet
    BY <1>1, WatchedTyped
  <1>3. /\ b.written \in Nat /\ b.gap \in Nat /\ b.gap <= MaxGap /\ MaxGap \in Nat
        /\ c.written \in Nat /\ c.gap \in Nat /\ Quiet \in Nat /\ SaveLength \in Nat \ {0}
        /\ w.epoch \in Nat /\ w.quiet \in Nat /\ w.quiet < Quiet
    BY <1>1, SaveRulesAssumption DEF Backup, Watch, KeepsWaiting
  <1>4. (c.epochs => v.epoch = c.written) /\ mark <= c.written
    BY <1>1, <1>2, <1>3 DEF Flushes, Epoch
  <1>5. ASSUME c.epochs, c.written - mark < SaveLength
        PROVE  /\ Whole(c.written) => frames + 1 <= (c.written - mark) * G + v.quiet
               /\ ~Whole(c.written) =>
                    frames + 1 <= (c.written - mark) * G + c.gap
                                  + IF Crossed(mark, c.written) THEN Quiet ELSE 0
    <2>1. /\ s \in Nat /\ s < SaveLength /\ w.epoch = b.written
          /\ Whole(b.written) => frames <= s * G + w.quiet
          /\ ~Whole(b.written) =>
               frames <= s * G + b.gap + IF Crossed(mark, b.written) THEN Quiet ELSE 0
      BY <1>1, <1>3, <1>5 DEF Flushes, Waited
    <2>2. s * G \in Nat /\ (s + 1) * G = s * G + G
      BY <1>3, <2>1
    <2>3. CASE c.written = b.written /\ (~Whole(b.written) => c.gap = b.gap + 1)
      <3>. DEFINE P == s * G
      <3>1. c.written - mark = s /\ P \in Nat
        BY <2>2, <2>3
      <3>2. v.quiet = w.quiet + 1
        BY <1>1, <1>2, <1>3, <1>5, <2>1, <2>3 DEF Epoch
      <3>. HIDE DEF P
      <3>. QED
        BY <1>3, <2>1, <2>3, <3>1, <3>2 DEF P
    <2>4. CASE c.written = b.written + 1 /\ c.gap = 0
      <3>. DEFINE P == s * G
      <3>1. (c.written - mark) * G = P + G /\ P \in Nat
        <4>1. c.written - mark = s + 1
          BY <1>3, <2>4
        <4>. QED
          BY <2>2, <4>1
      <3>2. v.quiet = 0
        BY <1>1, <1>2, <1>3, <1>5, <2>1, <2>4 DEF Epoch
      <3>3. CASE Whole(b.written)
        <4>1. ~Whole(c.written)
          BY <1>3, <1>5, <2>4, <3>3, WholeApart DEF Flushes
        <4>2. Crossed(mark, c.written)
          BY <1>3, <2>1, <2>4, <3>3 DEF Crossed
        <4>. QED
          BY <1>3, <2>1, <2>4, <3>1, <3>3, <4>1, <4>2
      <3>4. CASE ~Whole(b.written)
        <4>1. Crossed(mark, c.written) <=> Crossed(mark, b.written)
          BY <1>3, <2>4, <3>4 DEF Crossed
        <4>2. CASE Whole(c.written)
          <5>1. ASSUME NEW n \in mark .. b.written - 1, Whole(n) PROVE FALSE
            BY <1>3, <1>5, <2>4, <4>2, <5>1, WholeApart
          <5>2. ~Crossed(mark, b.written)
            BY <5>1 DEF Crossed
          <5>. QED
            BY <1>3, <2>1, <2>4, <3>1, <3>2, <3>4, <4>2, <5>2
        <4>3. CASE ~Whole(c.written)
          BY <1>3, <2>1, <2>4, <3>1, <3>4, <4>1, <4>3
        <4>. QED
          BY <4>2, <4>3
      <3>. QED
        BY <3>3, <3>4
    <2>. QED
      BY <1>1, <2>3, <2>4
  <1>. QED
    BY <1>4, <1>5 DEF Flushes, Waited

(* A flush that waits no longer has a whole save, or has let the game make *)
(* as many stores as a save has.                                           *)
LEMMA FlushIsSettled ==
  ASSUME NEW b \in Backup, NEW w \in Watch, NEW frames \in Nat, NEW mark \in Nat,
         Flushes(b, w, frames, mark), Behind(b, w), ~KeepsWaiting(w, frames), b.epochs
  PROVE  Settled(b.written, mark)
  <1>. DEFINE s == b.written - mark
              G == MaxGap + 1
  <1>1. /\ b.written \in Nat /\ b.gap \in Nat /\ b.gap <= MaxGap /\ MaxGap \in Nat
        /\ MaxGap < Quiet /\ Quiet \in Nat /\ SaveLength \in Nat \ {0} /\ Guard \in Nat
        /\ SaveLength * G + Quiet <= Guard /\ w.quiet \in Nat
    BY SaveRulesAssumption DEF Backup, Watch
  <1>2. SUFFICES ASSUME ~Whole(b.written), s < SaveLength PROVE FALSE
    BY <1>1 DEF Settled
  <1>3. w.quiet < Quiet
    BY <1>1, <1>2 DEF Behind, Flushes
  <1>4. frames >= Guard
    BY <1>1, <1>3 DEF KeepsWaiting
  <1>5. s \in Nat /\ frames <= s * G + b.gap + Quiet
    BY <1>1, <1>2 DEF Flushes, Waited
  <1>6. (s + 1) * G <= SaveLength * G
    BY <1>1, <1>2, <1>5
  <1>7. (s + 1) * G = s * G + G
    BY <1>1, <1>5
  <1>. DEFINE P == s * G
              R == SaveLength * G
  <1>8. P \in Nat /\ R \in Nat /\ P + G <= R /\ frames <= P + b.gap + Quiet /\ R + Quiet <= Guard
    BY <1>1, <1>5, <1>6, <1>7
  <1>. HIDE DEF P, R
  <1>. QED
    BY <1>1, <1>4, <1>8
-----------------------------------------------------------------------------
(* What the connections and the consoles are: the identities of the        *)
(* connections differ from the mark for none, and a console counts its     *)
(* stores or it does not.                                                  *)
SessionConstants == NoConnection \notin Connections /\ Counting \subseteq BOOLEAN

LEMMA NewLinkFacts ==
  NewLink \in Link /\ IntentInv(NewLink) /\ Told(NewLink)
  BY DEF NewLink, Link, Statuses, CoreUnlinked, IntentInv, Told

LEMMA InitIInv ==
  ASSUME SessionConstants, Init
  PROVE  IInv
  <1>1. PICK epochs \in Counting :
          session = [ui |-> "new", emu |-> "off", alive |-> FALSE, reasons |-> {},
                     lock |-> "free", lid |-> "open", audio |-> "off",
                     backup |-> NewBackup(epochs), watch |-> NewWatch(NewBackup(epochs)),
                     flush |-> NewWatch(NewBackup(epochs)), frames |-> 0, mark |-> 0, file |-> 0,
                     link |-> NewLink, away |-> FALSE, menu |-> FALSE, late |-> 0]
    BY DEF Init
  <1>2. epochs \in BOOLEAN
    BY DEF SessionConstants
  <1>. DEFINE b == NewBackup(epochs)
  <1>3. b \in Backup /\ b.written = 0 /\ b.dirty = FALSE
    BY <1>2, SaveRulesAssumption DEF Backup, NewBackup
  <1>4. NewWatch(b) \in Watch /\ Behind(b, NewWatch(b))
    BY <1>3, NewWatchTyped
  <1>5. 0 \in 0 .. Guard /\ 0 \in 0 .. MaxWritten /\ 0 \in Nat /\ Whole(0)
    BY SaveRulesAssumption DEF Whole
  <1>. HIDE DEF b
  <1>6. session \in Session
    BY <1>1, <1>3, <1>4, <1>5, NewLinkFacts DEF Session, b
  <1>7. PauseInv
    BY <1>1 DEF PauseInv
  <1>8. LinkInv
    BY <1>1, NewLinkFacts DEF LinkInv
  <1>9. SaveInv
    BY <1>1, <1>3, <1>4, <1>5 DEF SaveInv, CleanIsOnFile, Flushing, Settled, b
  <1>. QED
    BY <1>6, <1>7, <1>8, <1>9 DEF IInv

(* The reasons to pause change together with what is out of sight.         *)
LEMMA PauseStep ==
  ASSUME session \in Session, PauseInv, session.ui \notin {"new", "gone"},
         session' \in Session, session'.ui \notin {"new", "gone"}, session'.emu = session.emu,
         session'.reasons = (IF session'.away THEN {"lifecycle"} ELSE {})
                            \cup (IF session'.menu THEN {"menu"} ELSE {}),
         session'.audio = IF session'.reasons = {} /\ session.reasons # {} THEN "playing"
                          ELSE IF session'.reasons # {} /\ session.reasons = {} THEN "paused"
                          ELSE session.audio,
         session'.late = IF (session.away \/ session.menu) /\ (session'.away \/ session'.menu)
                         THEN session.late ELSE 0
  PROVE  PauseInv'
  <1>1. session'.reasons = {} <=> ~(session'.away \/ session'.menu)
    OBVIOUS
  <1>2. session.reasons = {} <=> ~(session.away \/ session.menu)
    BY DEF PauseInv
  <1>3. session'.audio = IF session'.away \/ session'.menu THEN "paused" ELSE "playing"
    BY <1>1, <1>2 DEF PauseInv
  <1>4. session'.away \/ session'.menu =>
          session'.late + (IF session'.emu = "bound" THEN 1 ELSE 0) <= 1
    BY DEF PauseInv
  <1>. QED
    BY <1>3, <1>4 DEF PauseInv

(* A step that concerns neither the pauses, nor the saves, nor the link    *)
(* keeps what is known of them.                                            *)
LEMMA PauseKept ==
  ASSUME PauseInv, session.ui \notin {"new", "gone"} \/ session'.ui = session.ui,
         session'.ui # "new" \/ session.ui = "new", session'.reasons = session.reasons,
         session'.away = session.away, session'.menu = session.menu,
         session'.audio = session.audio \/ session'.ui = "gone", session'.late = session.late,
         session'.emu = "bound" => session.emu = "bound", session \in Session
  PROVE  PauseInv'
  BY DEF PauseInv, Session

LEMMA SaveKept ==
  ASSUME SaveInv, session'.backup = session.backup, session'.watch = session.watch,
         session'.flush = session.flush, session'.frames = session.frames,
         session'.mark = session.mark, session'.file = session.file,
         session'.lock = "ui" => session.lock = "ui" /\ session'.ui = session.ui
  PROVE  SaveInv'
  BY DEF SaveInv, CleanIsOnFile, Flushing

LEMMA LinkKept ==
  ASSUME LinkInv, session'.link = session.link, session.ui # "gone" \/ session'.ui = "gone"
  PROVE  LinkInv'
  BY DEF LinkInv

LEMMA PauseTyped ==
  ASSUME NEW s \in Session, NEW reason \in Reasons
  PROVE  Pause(s, reason, TRUE) \in Session /\ Pause(s, reason, FALSE) \in Session
  BY ZenonT(60) DEF Session, Pause

LEMMA HiddenTyped ==
  ASSUME NEW s \in Session, NEW away \in BOOLEAN, NEW menu \in BOOLEAN
  PROVE  Hidden(s, away, menu) \in Session
  BY ZenonT(60) DEF Session, Hidden

(* What a pause leaves alone.                                              *)
SameMachine ==
  /\ session'.emu = session.emu /\ session'.lock = session.lock
  /\ session'.lid = session.lid /\ session'.backup = session.backup
  /\ session'.watch = session.watch /\ session'.flush = session.flush
  /\ session'.frames = session.frames /\ session'.mark = session.mark
  /\ session'.file = session.file /\ session'.link = session.link

(* What the sound and the history do in a step that pauses or resumes.     *)
PauseFollows ==
  /\ session'.audio = IF session'.reasons = {} /\ session.reasons # {} THEN "playing"
                      ELSE IF session'.reasons # {} /\ session.reasons = {} THEN "paused"
                      ELSE session.audio
  /\ session'.late = IF (session.away \/ session.menu) /\ (session'.away \/ session'.menu)
                     THEN session.late ELSE 0

(* What every action but those of the flushes and the ticks leaves alone.  *)
SameSaves ==
  /\ session'.lid = session.lid /\ session'.backup = session.backup
  /\ session'.watch = session.watch /\ session'.flush = session.flush
  /\ session'.frames = session.frames /\ session'.mark = session.mark
  /\ session'.file = session.file
-----------------------------------------------------------------------------
(* The operations on the link keep its intents in order, and what the core *)
(* was told with the carrier.                                              *)
LEMMA StopListenerFacts ==
  ASSUME NEW l \in Link, IntentInv(l), NEW up \in BOOLEAN
  PROVE  LET k == [StopListener(l) EXCEPT !.listening = up]
         IN  k \in Link /\ IntentInv(k) /\ (Told(l) => Told(k))
  BY DEF Link, IntentInv, Told, StopListener

LEMMA SetCarrierIntentFacts ==
  ASSUME SessionConstants, NEW l \in Link, IntentInv(l), NEW c \in Unused(l), NEW id \in {0, 1},
         NEW k, k = SetCarrierIntent(l, c, id)
  PROVE  /\ k \in Link /\ IntentInv(k) /\ (Told(l) => Told(k))
         /\ k.accepting = l.accepting /\ k.knocking = l.knocking
  <1>1. /\ c \in Connections /\ l.conns[c].status = "unused" /\ c # NoConnection /\ c # l.carrier
        /\ l.conns \in [Connections -> [status : Statuses, id : {0, 1}]]
    BY DEF Unused, IntentInv, SessionConstants, Link
  <1>2. PICK conns : conns = [l.conns EXCEPT ![c] = [status |-> "connecting", id |-> id]]
    OBVIOUS
  <1>3. conns \in [Connections -> [status : Statuses, id : {0, 1}]]
    BY <1>1, <1>2 DEF Statuses
  <1>4. k = [l EXCEPT !.conns = conns, !.pending = c, !.drop = FALSE, !.asked = c]
    BY <1>1, <1>2 DEF SetCarrierIntent, Link
  <1>5. k \in Link
    BY <1>1, <1>3, <1>4 DEF Link
  <1>6. /\ k.conns = conns /\ k.pending = c /\ k.drop = FALSE /\ k.asked = c
        /\ k.carrier = l.carrier /\ k.core = l.core /\ k.configured = l.configured
        /\ k.accepting = l.accepting /\ k.knocking = l.knocking
    BY <1>4 DEF Link
  <1>7. /\ conns[c].status = "connecting"
        /\ \A d \in Connections : d # c => conns[d] = l.conns[d]
    BY <1>1, <1>2
  <1>8. l.carrier \in Connections \cup {NoConnection}
    BY DEF Link
  <1>. QED
    BY <1>1, <1>5, <1>6, <1>7, <1>8 DEF IntentInv, Told

LEMMA LinkCallFacts ==
  ASSUME SessionConstants, NEW l \in Link, IntentInv(l),
         NEW k \in Hosted(l) \cup Joined(l) \cup {Disconnected(l)}
  PROVE  k \in Link /\ IntentInv(k) /\ (Told(l) => Told(k))
  <1>1. PICK s : s = StopListener(l)
    OBVIOUS
  <1>2. s \in Link /\ IntentInv(s) /\ (Told(l) => Told(s))
    BY <1>1 DEF Link, IntentInv, Told, StopListener
  <1>3. CASE k \in Hosted(l)
    BY <1>3, StopListenerFacts DEF Hosted
  <1>4. CASE k \in Joined(l)
    <2>1. PICK c \in Unused(l) : k = SetCarrierIntent(s, c, 1)
      BY <1>1, <1>4 DEF Joined
    <2>2. c \in Unused(s)
      BY <1>1 DEF Unused, StopListener, Link
    <2>. QED
      BY <1>2, <2>1, <2>2, SetCarrierIntentFacts
  <1>5. CASE k = Disconnected(l)
    BY <1>5 DEF Disconnected, StopListener, Link, IntentInv, Told
  <1>. QED
    BY <1>3, <1>4, <1>5

LEMMA NetworkFacts ==
  ASSUME SessionConstants, NEW l \in Link, IntentInv(l),
         NEW k \in Knocked(l) \cup Accepted(l) \cup AcceptEnded(l) \cup NetworkChanged(l)
  PROVE  k \in Link /\ IntentInv(k) /\ (Told(l) => Told(k))
  <1>1. CASE k \in Knocked(l)
    BY <1>1 DEF Knocked, Link, IntentInv, Told
  <1>2. CASE k \in Accepted(l)
    <2>1. PICK c \in Unused(l) :
            k = [SetCarrierIntent(l, c, 0) EXCEPT !.knocking = FALSE, !.accepting = TRUE]
      BY <1>2 DEF Accepted
    <2>2. PICK m : m = SetCarrierIntent(l, c, 0)
      OBVIOUS
    <2>3. m \in Link /\ IntentInv(m) /\ (Told(l) => Told(m))
      BY <2>2, SetCarrierIntentFacts
    <2>4. k = [m EXCEPT !.knocking = FALSE, !.accepting = TRUE]
      BY <2>1, <2>2
    <2>. QED
      BY <2>3, <2>4 DEF Link, IntentInv, Told
  <1>3. CASE k \in AcceptEnded(l)
    BY ZenonT(60), <1>3 DEF AcceptEnded, StopListener, Link, IntentInv, Told
  <1>4. CASE k \in NetworkChanged(l)
    <2>1. PICK c \in Connections, s \in Statuses \ {"unused"} :
            k = [l EXCEPT !.conns[c].status = s]
      BY <1>4 DEF NetworkChanged, Statuses
    <2>2. l.conns \in [Connections -> [status : Statuses, id : {0, 1}]]
      BY DEF Link
    <2>3. PICK conns : conns = [l.conns EXCEPT ![c] = [status |-> s, id |-> l.conns[c].id]]
      OBVIOUS
    <2>4. k = [l EXCEPT !.conns = conns]
      <3>1. PICK r : r = l.conns[c]
        OBVIOUS
      <3>2. r \in [status : Statuses, id : {0, 1}]
        BY <2>2, <3>1
      <3>3. [r EXCEPT !.status = s] = [status |-> s, id |-> r.id]
        BY <3>2
      <3>4. conns = [l.conns EXCEPT ![c] = [l.conns[c] EXCEPT !.status = s]]
        BY <2>3, <3>1, <3>3
      <3>. QED
        BY <2>1, <3>4, Zenon
    <2>5. conns \in [Connections -> [status : Statuses, id : {0, 1}]]
      BY <2>2, <2>3 DEF Statuses
    <2>6. \A d \in Connections : /\ conns[d].id = l.conns[d].id
                                 /\ conns[d].status = "unused" => l.conns[d].status = "unused"
      BY <2>2, <2>3
    <2>7. k \in Link
      BY <2>4, <2>5 DEF Link
    <2>8. /\ k.conns = conns /\ k.pending = l.pending /\ k.drop = l.drop /\ k.asked = l.asked
          /\ k.carrier = l.carrier /\ k.core = l.core /\ k.configured = l.configured
      BY <2>4 DEF Link
    <2>9. /\ l.carrier \in Connections \cup {NoConnection}
          /\ l.pending \in Connections \cup {NoConnection}
      BY DEF Link
    <2>. QED
      BY <2>6, <2>7, <2>8, <2>9 DEF IntentInv, Told
  <1>. QED
    BY <1>1, <1>2, <1>3, <1>4

LEMMA CancelledFacts ==
  ASSUME NEW l \in Link, NEW k, k = Cancelled(l)
  PROVE  /\ k \in Link /\ k.carrier = NoConnection
         /\ k.pending = l.pending /\ k.drop = l.drop /\ k.asked = l.asked
         /\ k.core = l.core /\ k.configured = l.configured
         /\ \A d \in Connections : /\ k.conns[d].id = l.conns[d].id
                                   /\ k.conns[d].status = "unused" => l.conns[d].status = "unused"
  <1>1. CASE l.carrier = NoConnection
    BY <1>1 DEF Cancelled
  <1>2. CASE l.carrier # NoConnection
    <2>1. l.conns \in [Connections -> [status : Statuses, id : {0, 1}]] /\ l.carrier \in Connections
      BY <1>2 DEF Link
    <2>2. PICK conns : conns = [l.conns EXCEPT ![l.carrier] =
                                  [status |-> "closed", id |-> l.conns[l.carrier].id]]
      OBVIOUS
    <2>3. k = [l EXCEPT !.conns = conns, !.carrier = NoConnection]
      <3>1. PICK r : r = l.conns[l.carrier]
        OBVIOUS
      <3>2. r \in [status : Statuses, id : {0, 1}]
        BY <2>1, <3>1
      <3>3. [r EXCEPT !.status = "closed"] = [status |-> "closed", id |-> r.id]
        BY <3>2
      <3>4. conns = [l.conns EXCEPT ![l.carrier] = [l.conns[l.carrier] EXCEPT !.status = "closed"]]
        BY <2>2, <3>1, <3>3
      <3>. QED
        BY <1>2, <3>4, Zenon DEF Cancelled
    <2>4. conns \in [Connections -> [status : Statuses, id : {0, 1}]]
      BY <2>1, <2>2 DEF Statuses
    <2>5. \A d \in Connections : /\ conns[d].id = l.conns[d].id
                                 /\ conns[d].status = "unused" => l.conns[d].status = "unused"
      BY <2>1, <2>2
    <2>6. k \in Link
      BY <2>3, <2>4 DEF Link
    <2>7. /\ k.conns = conns /\ k.pending = l.pending /\ k.drop = l.drop /\ k.asked = l.asked
          /\ k.carrier = NoConnection /\ k.core = l.core /\ k.configured = l.configured
      BY <2>3 DEF Link
    <2>. QED
      BY <2>5, <2>6, <2>7
  <1>. QED
    BY <1>1, <1>2

LEMMA TornDownFacts ==
  ASSUME NEW l \in Link, NEW k, k = TornDown(l)
  PROVE  /\ k \in Link /\ k.carrier = NoConnection /\ ~k.configured
         /\ k.pending = l.pending /\ k.drop = l.drop /\ k.asked = l.asked
         /\ (l.core.linked => l.configured) => ~k.core.linked
         /\ \A d \in Connections : k.conns[d].status = "unused" => l.conns[d].status = "unused"
  <1>1. PICK c : c = Cancelled(l)
    OBVIOUS
  <1>2. /\ c \in Link /\ c.carrier = NoConnection
        /\ c.pending = l.pending /\ c.drop = l.drop /\ c.asked = l.asked
        /\ c.core = l.core /\ c.configured = l.configured
        /\ \A d \in Connections : c.conns[d].status = "unused" => l.conns[d].status = "unused"
    BY <1>1, CancelledFacts
  <1>3. k = IF c.configured THEN [c EXCEPT !.core = CoreUnlinked, !.configured = FALSE] ELSE c
    BY <1>1 DEF TornDown
  <1>4. CoreUnlinked \in [linked : BOOLEAN, id : {0, 1}] /\ ~CoreUnlinked.linked
    BY DEF CoreUnlinked
  <1>5. CASE c.configured
    <2>1. k = [c EXCEPT !.core = CoreUnlinked, !.configured = FALSE]
      BY <1>3, <1>5
    <2>2. k \in Link
      BY <1>2, <1>4, <2>1 DEF Link
    <2>3. /\ k.carrier = c.carrier /\ k.configured = FALSE /\ k.pending = c.pending
          /\ k.drop = c.drop /\ k.asked = c.asked /\ k.core = CoreUnlinked /\ k.conns = c.conns
      BY <1>2, <2>1 DEF Link
    <2>. QED
      BY <1>2, <1>4, <2>2, <2>3
  <1>6. CASE ~c.configured
    BY <1>2, <1>3, <1>6
  <1>. QED
    BY <1>5, <1>6

(* Once the intents are applied, none is left, and the carrier is the one  *)
(* asked for last, or none.                                                *)
LEMMA IntentsAppliedFacts ==
  ASSUME SessionConstants, NEW l \in Link, IntentInv(l), NEW k, k = IntentsApplied(l)
  PROVE  k \in Link /\ IntentInv(k) /\ (Told(l) => Told(k))
  <1>1. PICK t : t = [l EXCEPT !.pending = NoConnection, !.drop = FALSE]
    OBVIOUS
  <1>2. /\ t \in Link /\ t.pending = NoConnection /\ t.drop = FALSE /\ t.asked = l.asked
        /\ t.carrier = l.carrier /\ t.conns = l.conns /\ t.core = l.core
        /\ t.configured = l.configured
    BY <1>1 DEF Link
  <1>3. PICK d : d = IF l.drop THEN TornDown(t) ELSE t
    OBVIOUS
  <1>4. /\ d \in Link /\ d.pending = NoConnection /\ d.drop = FALSE /\ d.asked = l.asked
        /\ d.carrier = (IF l.drop THEN NoConnection ELSE l.carrier)
        /\ \A c \in Connections : d.conns[c].status = "unused" => l.conns[c].status = "unused"
        /\ Told(l) => Told(d)
    <2>1. CASE l.drop
      <3>1. /\ d \in Link /\ d.carrier = NoConnection /\ ~d.configured
            /\ d.pending = t.pending /\ d.drop = t.drop /\ d.asked = t.asked
            /\ (t.core.linked => t.configured) => ~d.core.linked
            /\ \A c \in Connections : d.conns[c].status = "unused" => t.conns[c].status = "unused"
        BY <1>2, <1>3, <2>1, TornDownFacts
      <3>. QED
        BY <1>2, <2>1, <3>1 DEF Told
    <2>2. CASE ~l.drop
      BY <1>2, <1>3, <2>2 DEF Told
    <2>. QED
      BY <2>1, <2>2
  <1>5. /\ l.carrier \in Connections \cup {NoConnection}
        /\ l.pending \in Connections \cup {NoConnection} /\ l.drop \in BOOLEAN
    BY DEF Link
  <1>6. CASE l.pending = NoConnection
    <2>1. k = d
      BY <1>1, <1>3, <1>6 DEF IntentsApplied
    <2>2. d.carrier \in {d.asked, NoConnection}
      BY <1>4, <1>6 DEF IntentInv
    <2>3. IntentInv(d)
      BY <1>4, <1>5, <2>2 DEF IntentInv
    <2>. QED
      BY <1>4, <2>1, <2>3
  <1>7. CASE l.pending # NoConnection
    <2>1. PICK u : u = TornDown(d)
      OBVIOUS
    <2>2. k = [u EXCEPT !.carrier = l.pending]
      BY <1>1, <1>3, <1>7, <2>1 DEF IntentsApplied
    <2>3. /\ u \in Link /\ ~u.configured
          /\ u.pending = d.pending /\ u.drop = d.drop /\ u.asked = d.asked
          /\ (d.core.linked => d.configured) => ~u.core.linked
          /\ \A c \in Connections : u.conns[c].status = "unused" => d.conns[c].status = "unused"
      BY <1>4, <2>1, TornDownFacts
    <2>4. k \in Link
      BY <1>5, <2>2, <2>3 DEF Link
    <2>5. /\ k.carrier = l.pending /\ k.pending = u.pending /\ k.drop = u.drop
          /\ k.asked = u.asked /\ k.conns = u.conns /\ k.core = u.core
          /\ k.configured = u.configured
      BY <2>2, <2>3 DEF Link
    <2>6. l.asked = l.pending /\ l.conns[l.pending].status # "unused"
      BY <1>7 DEF IntentInv
    <2>7. IntentInv(k)
      BY <1>4, <1>5, <1>7, <2>3, <2>5, <2>6 DEF IntentInv
    <2>8. Told(l) => Told(k)
      BY <1>4, <2>3, <2>5 DEF Told
    <2>. QED
      BY <2>4, <2>7, <2>8
  <1>. QED
    BY <1>6, <1>7

LEMMA ReconciledFacts ==
  ASSUME SessionConstants, NEW l \in Link, IntentInv(l), NEW k, k = Reconciled(l)
  PROVE  k \in Link /\ IntentInv(k) /\ (Told(l) => Told(k))
  <1>1. PICK a : a = IntentsApplied(l)
    OBVIOUS
  <1>2. a \in Link /\ IntentInv(a) /\ (Told(l) => Told(a))
    BY <1>1, IntentsAppliedFacts
  <1>. DEFINE c == a.carrier
              told == IF a.configured THEN a.core ELSE [linked |-> TRUE, id |-> a.conns[c].id]
  <1>3. CASE k = a
    BY <1>2, <1>3
  <1>4. CASE k = [a EXCEPT !.core = told, !.configured = TRUE] /\ c # NoConnection
    <2>1. c \in Connections /\ a.conns[c].id \in {0, 1} /\ a.core \in [linked : BOOLEAN, id : {0, 1}]
      BY <1>2, <1>4 DEF Link
    <2>2. told \in [linked : BOOLEAN, id : {0, 1}]
      BY <2>1
    <2>3. ~a.configured => told.linked = TRUE /\ told.id = a.conns[c].id
      OBVIOUS
    <2>4. a.configured => told = a.core
      OBVIOUS
    <2>. HIDE DEF told
    <2>5. k \in Link
      BY <1>2, <1>4, <2>2 DEF Link
    <2>6. /\ k.core = told /\ k.configured = TRUE /\ k.carrier = a.carrier /\ k.pending = a.pending
          /\ k.drop = a.drop /\ k.asked = a.asked /\ k.conns = a.conns
      BY <1>2, <1>4 DEF Link
    <2>7. IntentInv(k)
      BY <1>2, <2>6 DEF IntentInv
    <2>8. Told(a) => Told(k)
      BY <1>4, <2>3, <2>4, <2>6 DEF Told
    <2>. QED
      BY <1>2, <2>5, <2>7, <2>8
  <1>5. CASE k = TornDown(a)
    <2>1. /\ k \in Link /\ k.carrier = NoConnection /\ ~k.configured
          /\ k.pending = a.pending /\ k.drop = a.drop /\ k.asked = a.asked
          /\ (a.core.linked => a.configured) => ~k.core.linked
          /\ \A d \in Connections : k.conns[d].status = "unused" => a.conns[d].status = "unused"
      BY <1>2, <1>5, TornDownFacts
    <2>2. a.pending \in Connections \cup {NoConnection}
      BY <1>2 DEF Link
    <2>3. IntentInv(k)
      BY <1>2, <2>1, <2>2 DEF IntentInv
    <2>. QED
      BY <1>2, <2>1, <2>3 DEF Told
  <1>6. \/ k = a \/ k = TornDown(a)
        \/ k = [a EXCEPT !.core = told, !.configured = TRUE] /\ c # NoConnection
    <2>1. CASE c = NoConnection
      BY <1>1, <2>1 DEF Reconciled
    <2>2. CASE c # NoConnection /\ a.conns[c].status = "connecting"
      BY <1>1, <2>2 DEF Reconciled
    <2>3. CASE c # NoConnection /\ a.conns[c].status = "ready"
      BY <1>1, <2>3 DEF Reconciled
    <2>4. CASE c # NoConnection /\ a.conns[c].status \notin {"connecting", "ready"}
      BY <1>1, <2>4 DEF Reconciled
    <2>. QED
      BY <2>1, <2>2, <2>3, <2>4
  <1>. QED
    BY <1>3, <1>4, <1>5, <1>6

LEMMA ShutDownFacts ==
  ASSUME SessionConstants, NEW l \in Link, IntentInv(l), NEW k, k = ShutDown(l)
  PROVE  k \in Link /\ IntentInv(k)
  <1>1. PICK s : s = StopListener(l)
    OBVIOUS
  <1>2. s \in Link /\ IntentInv(s)
    BY <1>1 DEF Link, IntentInv, StopListener
  <1>3. PICK c : c = Cancelled(s)
    OBVIOUS
  <1>4. k = [c EXCEPT !.configured = FALSE]
    BY <1>1, <1>3 DEF ShutDown
  <1>5. /\ c \in Link /\ c.carrier = NoConnection
        /\ c.pending = s.pending /\ c.drop = s.drop /\ c.asked = s.asked
        /\ \A d \in Connections : c.conns[d].status = "unused" => s.conns[d].status = "unused"
    BY <1>2, <1>3, CancelledFacts
  <1>6. /\ k \in Link /\ k.carrier = NoConnection
        /\ k.pending = s.pending /\ k.drop = s.drop /\ k.asked = s.asked /\ k.conns = c.conns
    BY <1>4, <1>5 DEF Link
  <1>7. s.pending \in Connections \cup {NoConnection}
    BY <1>2 DEF Link
  <1>. QED
    BY <1>2, <1>5, <1>6, <1>7 DEF IntentInv
-----------------------------------------------------------------------------
(* The actions of the main thread.                                         *)
LEMMA ResignStep ==
  ASSUME IInv, Resign
  PROVE  IInv' /\ SameMachine
  <1>1. /\ session \in Session /\ session.ui = "idle" /\ "lifecycle" \in Reasons
        /\ session.menu \in BOOLEAN
    BY DEF Resign, Idle, IInv, Session
  <1>2. session' = Hidden(Pause(session, "lifecycle", TRUE), TRUE, session.menu)
    BY DEF Resign
  <1>3. session' \in Session
    BY <1>1, <1>2, PauseTyped, HiddenTyped
  <1>4. SameMachine /\ session'.ui = session.ui
    BY <1>1, <1>2 DEF Session, Pause, Hidden, SameMachine
  <1>5. /\ session'.away = TRUE /\ session'.menu = session.menu
        /\ session'.reasons = session.reasons \cup {"lifecycle"}
    BY <1>1, <1>2 DEF Session, Pause, Hidden
  <1>6. PauseFollows
    BY <1>1, <1>2 DEF Session, Pause, Hidden, PauseFollows
  <1>7. session'.reasons = (IF session'.away THEN {"lifecycle"} ELSE {})
                           \cup (IF session'.menu THEN {"menu"} ELSE {})
    BY <1>5 DEF PauseInv, IInv
  <1>8. PauseInv'
    BY <1>1, <1>3, <1>4, <1>6, <1>7, PauseStep DEF SameMachine, PauseFollows, IInv
  <1>. QED
    BY <1>1, <1>3, <1>4, <1>8, SaveKept, LinkKept DEF SameMachine, IInv

LEMMA MenuStep ==
  ASSUME IInv, Menu
  PROVE  IInv' /\ SameMachine
  <1>1. /\ session \in Session /\ session.ui = "idle" /\ "menu" \in Reasons
        /\ session.away \in BOOLEAN
    BY DEF Menu, Idle, IInv, Session
  <1>2. ASSUME session' = Hidden(Pause(session, "menu", TRUE), session.away, TRUE)
        PROVE  /\ session' \in Session /\ SameMachine /\ session'.ui = session.ui /\ PauseFollows
               /\ session'.reasons = (IF session'.away THEN {"lifecycle"} ELSE {})
                                     \cup (IF session'.menu THEN {"menu"} ELSE {})
    <2>1. session' \in Session
      BY <1>1, <1>2, PauseTyped, HiddenTyped
    <2>2. SameMachine /\ session'.ui = session.ui
      BY <1>1, <1>2 DEF Session, Pause, Hidden, SameMachine
    <2>3. /\ session'.menu = TRUE /\ session'.away = session.away
          /\ session'.reasons = session.reasons \cup {"menu"}
      BY <1>1, <1>2 DEF Session, Pause, Hidden
    <2>4. PauseFollows
      BY <1>1, <1>2 DEF Session, Pause, Hidden, PauseFollows
    <2>. QED
      BY <2>1, <2>2, <2>3, <2>4 DEF PauseInv, IInv
  <1>3. ASSUME session' = Hidden(Pause(session, "menu", FALSE), session.away, FALSE)
        PROVE  /\ session' \in Session /\ SameMachine /\ session'.ui = session.ui /\ PauseFollows
               /\ session'.reasons = (IF session'.away THEN {"lifecycle"} ELSE {})
                                     \cup (IF session'.menu THEN {"menu"} ELSE {})
    <2>1. session' \in Session
      BY <1>1, <1>3, PauseTyped, HiddenTyped
    <2>2. SameMachine /\ session'.ui = session.ui
      BY <1>1, <1>3 DEF Session, Pause, Hidden, SameMachine
    <2>3. /\ session'.menu = FALSE /\ session'.away = session.away
          /\ session'.reasons = session.reasons \ {"menu"}
      BY <1>1, <1>3 DEF Session, Pause, Hidden
    <2>4. PauseFollows
      BY <1>1, <1>3 DEF Session, Pause, Hidden, PauseFollows
    <2>. QED
      BY <2>1, <2>2, <2>3, <2>4 DEF PauseInv, IInv
  <1>4. /\ session' \in Session /\ SameMachine /\ session'.ui = session.ui /\ PauseFollows
        /\ session'.reasons = (IF session'.away THEN {"lifecycle"} ELSE {})
                              \cup (IF session'.menu THEN {"menu"} ELSE {})
    BY <1>2, <1>3 DEF Menu
  <1>5. PauseInv'
    BY <1>1, <1>4, PauseStep DEF SameMachine, PauseFollows, IInv
  <1>. QED
    BY <1>1, <1>4, <1>5, SaveKept, LinkKept DEF SameMachine, IInv

LEMMA EnterBackgroundStep ==
  ASSUME IInv, EnterBackground
  PROVE  IInv' /\ SameMachine
  <1>1. /\ session \in Session /\ session.ui = "idle" /\ "lifecycle" \in Reasons
        /\ session.menu \in BOOLEAN
    BY DEF EnterBackground, Idle, IInv, Session
  <1>2. PICK t : t = Hidden(Pause(session, "lifecycle", TRUE), TRUE, session.menu)
    OBVIOUS
  <1>3. session' = [t EXCEPT !.ui = "sleep"] /\ t \in Session
    BY <1>1, <1>2, PauseTyped, HiddenTyped DEF EnterBackground
  <1>4. session' \in Session /\ session'.ui = "sleep"
    BY <1>3 DEF Session
  <1>5. SameMachine
    <2>1. /\ t.emu = session.emu /\ t.lock = session.lock /\ t.lid = session.lid
          /\ t.backup = session.backup /\ t.watch = session.watch /\ t.flush = session.flush
          /\ t.frames = session.frames /\ t.mark = session.mark /\ t.file = session.file
          /\ t.link = session.link
      BY <1>1, <1>2 DEF Session, Pause, Hidden
    <2>. QED
      BY <1>3, <2>1 DEF Session, SameMachine
  <1>6. /\ t.away = TRUE /\ t.menu = session.menu
        /\ t.reasons = session.reasons \cup {"lifecycle"}
        /\ t.audio = IF t.reasons = {} /\ session.reasons # {} THEN "playing"
                     ELSE IF t.reasons # {} /\ session.reasons = {} THEN "paused"
                     ELSE session.audio
        /\ t.late = IF (session.away \/ session.menu) /\ (t.away \/ t.menu)
                    THEN session.late ELSE 0
    BY <1>1, <1>2 DEF Session, Pause, Hidden
  <1>7. /\ session'.away = t.away /\ session'.menu = t.menu /\ session'.reasons = t.reasons
        /\ session'.audio = t.audio /\ session'.late = t.late
    BY <1>3 DEF Session
  <1>8. session'.reasons = (IF session'.away THEN {"lifecycle"} ELSE {})
                           \cup (IF session'.menu THEN {"menu"} ELSE {})
    BY <1>6, <1>7 DEF PauseInv, IInv
  <1>9. PauseInv'
    BY <1>1, <1>4, <1>5, <1>6, <1>7, <1>8, PauseStep DEF SameMachine, IInv
  <1>10. session.lock # "ui"
    BY <1>1 DEF IInv, SaveInv
  <1>. QED
    BY <1>1, <1>4, <1>5, <1>9, <1>10, SaveKept, LinkKept DEF SameMachine, IInv

LEMMA EnterForegroundStep ==
  ASSUME IInv, EnterForeground
  PROVE  /\ IInv' /\ session'.backup = session.backup /\ session'.file = session.file
         /\ session'.lid = "open" \/ session'.lid = session.lid
  <1>1. CASE /\ Idle /\ session.lock = "free"
             /\ session' = [session EXCEPT !.lid = "open", !.ui = "wake"]
    <2>1. session' \in Session
      BY <1>1 DEF IInv, Session
    <2>2. /\ session'.ui = "wake" /\ session'.lock = "free" /\ session'.lid = "open"
          /\ session'.emu = session.emu /\ session'.reasons = session.reasons
          /\ session'.away = session.away /\ session'.menu = session.menu
          /\ session'.audio = session.audio /\ session'.late = session.late
          /\ session'.backup = session.backup /\ session'.watch = session.watch
          /\ session'.flush = session.flush /\ session'.frames = session.frames
          /\ session'.mark = session.mark /\ session'.file = session.file
          /\ session'.link = session.link
      BY <1>1 DEF IInv, Session
    <2>3. PauseInv'
      BY <1>1, <2>2, PauseKept DEF IInv, Idle
    <2>. QED
      BY <1>1, <2>1, <2>2, <2>3, SaveKept, LinkKept DEF IInv, Idle
  <1>2. CASE /\ session.ui = "wake"
             /\ session' = [Hidden(Pause(session, "lifecycle", FALSE), FALSE, session.menu)
                              EXCEPT !.ui = "idle"]
    <2>1. session \in Session /\ session.menu \in BOOLEAN
      BY DEF IInv, Session
    <2>2. PICK t : t = Hidden(Pause(session, "lifecycle", FALSE), FALSE, session.menu)
      OBVIOUS
    <2>3. t \in Session
      <3>1. PICK p : p = Pause(session, "lifecycle", FALSE)
        OBVIOUS
      <3>2. p \in Session
        BY ZenonT(60), <2>1, <3>1 DEF Session, Pause
      <3>. QED
        BY <2>1, <2>2, <3>1, <3>2, HiddenTyped
    <2>4. session' = [t EXCEPT !.ui = "idle"]
      BY <1>2, <2>2
    <2>5. session' \in Session /\ session'.ui = "idle"
      BY <2>3, <2>4 DEF Session
    <2>6. SameMachine
      BY <2>1, <2>2, <2>4 DEF Session, Pause, Hidden, SameMachine
    <2>7. /\ session'.away = FALSE /\ session'.menu = session.menu
          /\ session'.reasons = session.reasons \ {"lifecycle"}
      BY <2>1, <2>2, <2>4 DEF Session, Pause, Hidden
    <2>8. PauseFollows
      BY <2>1, <2>2, <2>4 DEF Session, Pause, Hidden, PauseFollows
    <2>9. session'.reasons = (IF session'.away THEN {"lifecycle"} ELSE {})
                             \cup (IF session'.menu THEN {"menu"} ELSE {})
      BY <2>7 DEF PauseInv, IInv
    <2>10. PauseInv'
      BY <1>2, <2>1, <2>5, <2>6, <2>8, <2>9, PauseStep DEF SameMachine, PauseFollows, IInv
    <2>11. session.lock # "ui"
      BY <1>2 DEF IInv, SaveInv
    <2>. QED
      BY <1>2, <2>5, <2>6, <2>10, <2>11, SaveKept, LinkKept DEF SameMachine, IInv
  <1>. QED
    BY <1>1, <1>2 DEF EnterForeground

LEMMA StartStep ==
  ASSUME IInv, Start
  PROVE  IInv' /\ SameSaves
  <1>1. session \in Session /\ session.ui = "new"
    BY DEF Start, IInv
  <1>2. session' = [session EXCEPT !.ui = "idle", !.alive = TRUE, !.emu = "top",
                                   !.audio = "playing"]
    BY DEF Start
  <1>3. session' \in Session
    BY <1>1, <1>2 DEF Session
  <1>4. /\ SameSaves /\ session'.lock = session.lock /\ session'.link = session.link
        /\ session'.ui = "idle" /\ session'.emu = "top" /\ session'.audio = "playing"
        /\ session'.reasons = session.reasons /\ session'.away = session.away
        /\ session'.menu = session.menu
    BY <1>1, <1>2 DEF Session, SameSaves
  <1>5. session.lock # "ui"
    BY <1>1 DEF IInv, SaveInv
  <1>6. PauseInv'
    BY <1>1, <1>4 DEF PauseInv, IInv
  <1>. QED
    BY <1>1, <1>3, <1>4, <1>5, <1>6, SaveKept, LinkKept DEF IInv, SameSaves

LEMMA TeardownStep ==
  ASSUME IInv, Teardown
  PROVE  IInv' /\ SameSaves
  <1>1. session \in Session /\ session.ui = "idle"
    BY DEF Teardown, Idle, IInv
  <1>2. session' = [session EXCEPT !.alive = FALSE, !.ui = "leave"]
    BY DEF Teardown
  <1>3. session' \in Session
    BY <1>1, <1>2 DEF Session
  <1>4. /\ SameSaves /\ session'.lock = session.lock /\ session'.link = session.link
        /\ session'.ui = "leave" /\ session'.emu = session.emu
        /\ session'.audio = session.audio /\ session'.late = session.late
        /\ session'.reasons = session.reasons /\ session'.away = session.away
        /\ session'.menu = session.menu
    BY <1>1, <1>2 DEF Session, SameSaves
  <1>5. session.lock # "ui"
    BY <1>1 DEF IInv, SaveInv
  <1>6. PauseInv'
    BY <1>1, <1>4, PauseKept DEF IInv
  <1>. QED
    BY <1>1, <1>3, <1>4, <1>5, <1>6, SaveKept, LinkKept DEF IInv, SameSaves

LEMMA ShutDownLinkStep ==
  ASSUME SessionConstants, IInv, ShutDownLink
  PROVE  IInv' /\ SameSaves
  <1>1. session \in Session /\ session.ui = "unlink" /\ session.link \in Link
    BY DEF ShutDownLink, IInv, Session
  <1>2. PICK l : l = ShutDown(session.link)
    OBVIOUS
  <1>3. session' = [session EXCEPT !.ui = "gone", !.link = l, !.audio = "off"]
    BY <1>2 DEF ShutDownLink
  <1>4. l \in Link /\ IntentInv(l)
    BY <1>1, <1>2, ShutDownFacts DEF IInv, LinkInv
  <1>5. session' \in Session
    BY <1>1, <1>3, <1>4 DEF Session
  <1>6. /\ SameSaves /\ session'.lock = session.lock /\ session'.link = l
        /\ session'.ui = "gone" /\ session'.emu = session.emu
        /\ session'.late = session.late
        /\ session'.reasons = session.reasons /\ session'.away = session.away
        /\ session'.menu = session.menu
    BY <1>1, <1>3 DEF Session, SameSaves
  <1>7. session.lock # "ui"
    BY <1>1 DEF IInv, SaveInv
  <1>8. PauseInv'
    BY <1>1, <1>6, PauseKept DEF IInv
  <1>9. LinkInv'
    BY <1>4, <1>6 DEF LinkInv
  <1>. QED
    BY <1>1, <1>5, <1>6, <1>7, <1>8, <1>9, SaveKept DEF IInv, SameSaves

(* A step that only changes the link. *)
LEMMA LinkStep ==
  ASSUME IInv, NEW l \in Link, session' = [session EXCEPT !.link = l], IntentInv(l),
         session.ui # "gone" => Told(l)
  PROVE  IInv' /\ SameSaves
  <1>1. session \in Session
    BY DEF IInv
  <1>2. session' \in Session
    BY <1>1 DEF Session
  <1>3. /\ SameSaves /\ session'.lock = session.lock /\ session'.link = l
        /\ session'.ui = session.ui /\ session'.emu = session.emu
        /\ session'.audio = session.audio /\ session'.late = session.late
        /\ session'.reasons = session.reasons /\ session'.away = session.away
        /\ session'.menu = session.menu
    BY <1>1 DEF Session, SameSaves
  <1>4. PauseInv'
    BY <1>1, <1>3, PauseKept DEF IInv
  <1>5. LinkInv'
    BY <1>3 DEF LinkInv
  <1>. QED
    BY <1>2, <1>3, <1>4, <1>5, SaveKept DEF IInv, SameSaves

LEMMA LinkCallStep ==
  ASSUME SessionConstants, IInv, LinkCall
  PROVE  IInv' /\ SameSaves
  <1>1. PICK l \in Hosted(session.link) \cup Joined(session.link)
                   \cup {Disconnected(session.link)} :
          session' = [session EXCEPT !.link = l]
    BY DEF LinkCall
  <1>2. l \in Link /\ IntentInv(l) /\ (Told(session.link) => Told(l))
    BY <1>1, LinkCallFacts DEF IInv, LinkInv, Session
  <1>. QED
    BY <1>1, <1>2, LinkStep DEF IInv, LinkInv

LEMMA NetworkStep ==
  ASSUME SessionConstants, IInv, Network
  PROVE  IInv' /\ SameSaves
  <1>1. PICK l \in Knocked(session.link) \cup Accepted(session.link)
                   \cup AcceptEnded(session.link) \cup NetworkChanged(session.link) :
          session' = [session EXCEPT !.link = l]
    BY DEF Network
  <1>2. l \in Link /\ IntentInv(l) /\ (Told(session.link) => Told(l))
    BY <1>1, NetworkFacts DEF IInv, LinkInv, Session
  <1>. QED
    BY <1>1, <1>2, LinkStep DEF IInv, LinkInv

(* The flushes of the main thread.                                         *)
LEMMA TakeCoreStep ==
  ASSUME IInv, TakeCore
  PROVE  IInv' /\ session'.file = session.file /\ session'.lid = session.lid
  <1>1. /\ session \in Session /\ session.ui \in {"sleep", "leave"} /\ session.lock = "free"
        /\ session.backup \in Backup
    BY DEF TakeCore, IInv, Session
  <1>. DEFINE b == session.backup
              w == NewWatch(b)
              mark == IF b.dirty THEN b.written ELSE session.mark
  <1>2. session' = [session EXCEPT !.lock = "ui", !.flush = w, !.frames = 0, !.mark = mark]
    BY <1>1 DEF TakeCore, Session
  <1>3. w \in Watch /\ Behind(b, w) /\ w.epoch = Epoch(b) /\ w.quiet = 0
    BY <1>1, NewWatchTyped DEF NewWatch
  <1>4. mark \in 0 .. MaxWritten /\ mark <= b.written /\ b.written \in Nat /\ b.gap \in Nat
    BY <1>1, SaveRulesAssumption DEF IInv, SaveInv, Session, Backup
  <1>5. 0 \in 0 .. Guard
    BY SaveRulesAssumption
  <1>6. b.dirty => Flushes(b, w, 0, mark)
    <2>1. SUFFICES ASSUME b.dirty PROVE Flushes(b, w, 0, mark)
      OBVIOUS
    <2>2. mark = b.written
      BY <2>1
    <2>3. MaxGap \in Nat /\ Quiet \in Nat /\ b.written - b.written = 0 /\ 0 * (MaxGap + 1) = 0
      BY <1>4, SaveRulesAssumption
    <2>4. Waited(b, w, 0, b.written)
      BY <1>3, <1>4, <2>3 DEF Waited
    <2>. QED
      BY <1>3, <1>4, <2>2, <2>4 DEF Flushes, Epoch
  <1>. HIDE DEF w, mark
  <1>7. session' \in Session
    BY ZenonT(60), <1>1, <1>2, <1>3, <1>4, <1>5 DEF Session
  <1>8. /\ session'.lock = "ui" /\ session'.flush = w /\ session'.frames = 0
        /\ session'.mark = mark /\ session'.backup = b /\ session'.watch = session.watch
        /\ session'.file = session.file /\ session'.lid = session.lid
        /\ session'.ui = session.ui /\ session'.emu = session.emu
        /\ session'.audio = session.audio /\ session'.late = session.late
        /\ session'.reasons = session.reasons /\ session'.away = session.away
        /\ session'.menu = session.menu /\ session'.link = session.link
    BY <1>1, <1>2 DEF Session
  <1>9. PauseInv'
    BY <1>1, <1>8, PauseKept DEF IInv
  <1>10. b.epochs /\ ~b.dirty => Settled(b.written, mark)
    BY DEF IInv, SaveInv, mark
  <1>11. SaveInv'
    BY <1>1, <1>3, <1>4, <1>6, <1>8, <1>10 DEF IInv, SaveInv, CleanIsOnFile, Flushing
  <1>. QED
    BY <1>1, <1>7, <1>8, <1>9, <1>11, LinkKept DEF IInv

LEMMA FlushFrameStep ==
  ASSUME IInv, FlushFrame
  PROVE  IInv' /\ session'.file = session.file /\ session'.lid = session.lid
  <1>1. /\ session \in Session /\ Flushing /\ session.backup.dirty
        /\ KeepsWaiting(session.flush, session.frames)
        /\ session.backup \in Backup /\ session.flush \in Watch /\ session.watch \in Watch
        /\ session.frames \in Nat /\ session.mark \in Nat
    BY DEF FlushFrame, IInv, Session
  <1>2. PICK b \in AfterFrame(session.backup) :
          session' = [session EXCEPT !.backup = b, !.flush = Watched(session.flush, b),
                                     !.frames = session.frames + 1]
    BY DEF FlushFrame
  <1>. DEFINE w == Watched(session.flush, b)
              n == session.frames + 1
  <1>3. /\ b \in Backup /\ b.epochs = session.backup.epochs
        /\ b.dirty /\ b.written >= session.backup.written
    BY <1>1, <1>2, FrameCases DEF Backup
  <1>4. w \in Watch
    BY <1>1, <1>3, WatchedTyped
  <1>5. Behind(b, session.watch) /\ Behind(b, w)
    BY <1>1, <1>2, StaysBehind DEF IInv, SaveInv
  <1>6. Flushes(b, w, n, session.mark)
    BY <1>1, <1>2, FlushGoesOn DEF IInv, SaveInv
  <1>7. n \in 0 .. Guard
    BY <1>1, SaveRulesAssumption DEF KeepsWaiting
  <1>8. session.mark <= b.written
    BY <1>6 DEF Flushes
  <1>. HIDE DEF w, n
  <1>9. session' = [session EXCEPT !.backup = b, !.flush = w, !.frames = n]
    BY <1>2 DEF w, n
  <1>10. session' \in Session
    BY <1>1, <1>3, <1>4, <1>7, <1>9 DEF Session
  <1>11. /\ session'.lock = session.lock /\ session'.flush = w /\ session'.frames = n
         /\ session'.mark = session.mark /\ session'.backup = b
         /\ session'.watch = session.watch
         /\ session'.file = session.file /\ session'.lid = session.lid
         /\ session'.ui = session.ui /\ session'.emu = session.emu
         /\ session'.audio = session.audio /\ session'.late = session.late
         /\ session'.reasons = session.reasons /\ session'.away = session.away
         /\ session'.menu = session.menu /\ session'.link = session.link
    BY <1>1, <1>9 DEF Session
  <1>12. PauseInv'
    BY <1>1, <1>11, PauseKept DEF IInv
  <1>13. SaveInv'
    BY <1>1, <1>3, <1>5, <1>6, <1>8, <1>11 DEF IInv, SaveInv, CleanIsOnFile, Flushing
  <1>. QED
    BY <1>1, <1>10, <1>11, <1>12, <1>13, LinkKept DEF IInv

(* The flush ends on a whole save, or on what the game has stored meanwhile. *)
LEMMA FlushEndStep ==
  ASSUME IInv, FlushEnd
  PROVE  IInv' /\ FileStep /\ LidStep
  <1>1. /\ session \in Session /\ Flushing /\ session.lock = "ui"
        /\ session.backup.dirty => ~KeepsWaiting(session.flush, session.frames)
        /\ session.backup \in Backup /\ session.flush \in Watch /\ session.watch \in Watch
        /\ session.frames \in Nat /\ session.mark \in Nat /\ session.file \in 0 .. MaxWritten
    BY DEF FlushEnd, Flushing, IInv, Session
  <1>. DEFINE b == session.backup
              lid == IF session.ui = "sleep" THEN "closed" ELSE session.lid
              ui == IF session.ui = "sleep" THEN "idle" ELSE "unlink"
  <1>2. PICK f \in Flushed(b, session.file) :
          session' = [session EXCEPT !.backup = f[1], !.file = f[2], !.lock = "free",
                                     !.lid = lid, !.ui = ui]
    BY DEF FlushEnd
  <1>3. /\ f[1] \in Backup /\ f[1].written = b.written /\ f[1].gap = b.gap
        /\ f[1].epochs = b.epochs
        /\ \/ f[1] = b /\ f[2] = session.file
           \/ b.dirty /\ ~f[1].dirty /\ f[2] = b.written
    BY <1>1, FlushedCases
  <1>4. b.epochs => Settled(b.written, session.mark)
    BY <1>1, FlushIsSettled DEF IInv, SaveInv
  <1>5. f[2] \in 0 .. MaxWritten /\ b.written \in 0 .. MaxWritten
    BY <1>1, <1>3 DEF Backup
  <1>6. lid \in {"open", "closed"} /\ ui \in {"idle", "unlink"}
    BY <1>1 DEF Session
  <1>. HIDE DEF lid, ui
  <1>7. session' \in Session
    BY ZenonT(60), <1>1, <1>2, <1>3, <1>5, <1>6 DEF Session
  <1>8. /\ session'.lock = "free" /\ session'.flush = session.flush
        /\ session'.frames = session.frames /\ session'.mark = session.mark
        /\ session'.backup = f[1] /\ session'.file = f[2] /\ session'.watch = session.watch
        /\ session'.ui = ui /\ session'.emu = session.emu
        /\ session'.audio = session.audio /\ session'.late = session.late
        /\ session'.reasons = session.reasons /\ session'.away = session.away
        /\ session'.menu = session.menu /\ session'.link = session.link
    BY <1>1, <1>2 DEF Session
  <1>9. PauseInv'
    BY <1>1, <1>6, <1>8, PauseKept DEF IInv, Flushing
  <1>10. Behind(f[1], session.watch)
    BY <1>3 DEF IInv, SaveInv, Behind
  <1>11. SaveInv'
    BY <1>3, <1>4, <1>8, <1>10 DEF IInv, SaveInv, CleanIsOnFile, Flushing
  <1>12. FileStep
    BY <1>1, <1>3, <1>4, <1>8 DEF FileStep
  <1>13. LidStep
    BY <1>3, <1>4, <1>8 DEF LidStep
  <1>. QED
    BY <1>1, <1>6, <1>7, <1>8, <1>9, <1>11, <1>12, <1>13, LinkKept DEF IInv, Flushing
-----------------------------------------------------------------------------
(* The actions of the emulation thread.                                    *)
LEMMA CheckStep ==
  ASSUME IInv, Check
  PROVE  IInv' /\ SameSaves
  <1>. DEFINE emu == IF session.alive THEN "bound" ELSE "ended"
  <1>1. /\ session \in Session /\ session.emu = "top"
        /\ session' = [session EXCEPT !.emu = emu]
        /\ emu = "bound" => session.reasons = {}
    BY DEF Check, IInv
  <1>2. emu \in {"bound", "ended"}
    OBVIOUS
  <1>. HIDE DEF emu
  <1>3. session' \in Session
    BY <1>1, <1>2 DEF Session
  <1>4. /\ SameSaves /\ session'.lock = session.lock /\ session'.link = session.link
        /\ session'.ui = session.ui /\ session'.emu = emu
        /\ session'.audio = session.audio /\ session'.late = session.late
        /\ session'.reasons = session.reasons /\ session'.away = session.away
        /\ session'.menu = session.menu
    BY <1>1 DEF Session, SameSaves
  <1>5. PauseInv'
    <2>1. session.late \in Nat
      BY <1>1 DEF Session
    <2>2. emu = "bound" => ~session.away /\ ~session.menu
      BY <1>1 DEF PauseInv, IInv
    <2>3. session.away \/ session.menu => session.late <= 1
      BY <1>1, <2>1 DEF PauseInv, IInv
    <2>. QED
      BY <1>2, <1>4, <2>1, <2>2, <2>3 DEF PauseInv, IInv
  <1>. QED
    BY <1>1, <1>3, <1>4, <1>5, SaveKept, LinkKept DEF IInv, SameSaves

LEMMA BeginTickStep ==
  ASSUME SessionConstants, IInv, BeginTick
  PROVE  IInv' /\ SameSaves
  <1>1. session \in Session /\ session.emu = "bound" /\ session.lock = "free"
    BY DEF BeginTick, IInv
  <1>2. PICK l : l = Reconciled(session.link)
    OBVIOUS
  <1>3. PICK late : late = IF session.away \/ session.menu THEN session.late + 1
                           ELSE session.late
    OBVIOUS
  <1>4. session' = [session EXCEPT !.emu = "tick", !.lock = "emu", !.link = l, !.late = late]
    BY <1>2, <1>3 DEF BeginTick
  <1>5. l \in Link /\ IntentInv(l) /\ (Told(session.link) => Told(l))
    BY <1>1, <1>2, ReconciledFacts DEF IInv, LinkInv, Session
  <1>6. late \in Nat
    BY <1>1, <1>3 DEF Session
  <1>7. session' \in Session
    BY <1>1, <1>4, <1>5, <1>6 DEF Session
  <1>8. /\ SameSaves /\ session'.lock = "emu" /\ session'.link = l
        /\ session'.ui = session.ui /\ session'.emu = "tick"
        /\ session'.audio = session.audio /\ session'.late = late
        /\ session'.reasons = session.reasons /\ session'.away = session.away
        /\ session'.menu = session.menu
    BY <1>1, <1>4 DEF Session, SameSaves
  <1>9. PauseInv'
    <2>1. session.away \/ session.menu => session.late + 1 <= 1
      BY <1>1 DEF PauseInv, IInv
    <2>. QED
      BY <1>3, <1>6, <1>8, <2>1 DEF PauseInv, IInv
  <1>10. LinkInv'
    BY <1>5, <1>8 DEF LinkInv, IInv
  <1>. QED
    BY <1>1, <1>7, <1>8, <1>9, <1>10, SaveKept DEF IInv, SameSaves

(* A tick flushes a save that has come to rest, which is whole.            *)
LEMMA EndTickStep ==
  ASSUME IInv, EndTick
  PROVE  IInv' /\ FileStep /\ session'.lid = session.lid
  <1>1. /\ session \in Session /\ session.emu = "tick"
        /\ session.backup \in Backup /\ session.watch \in Watch
        /\ session.mark \in Nat /\ session.file \in 0 .. MaxWritten
        /\ Behind(session.backup, session.watch)
    BY DEF EndTick, IInv, SaveInv, Session
  <1>. DEFINE Ends(w, f) == session' = [session EXCEPT !.emu = "top", !.lock = "free",
                                             !.watch = w, !.backup = f[1], !.file = f[2]]
              Files(b, w) == {<<b, session.file>>}
                             \cup (IF w.quiet >= Quiet THEN Flushed(b, session.file) ELSE {})
  <1>2. PICK a \in AfterFrame(session.backup) :
          \E b \in {a} \cup AfterFrame(a) :
            LET w == Watched(session.watch, b)
            IN  \E f \in Files(b, w) : Ends(w, f)
    BY DEF EndTick
  <1>3. PICK b \in {a} \cup AfterFrame(a) :
            LET w == Watched(session.watch, b)
            IN  \E f \in Files(b, w) : Ends(w, f)
    BY <1>2
  <1>4. /\ a \in Backup /\ a.epochs = session.backup.epochs
        /\ \/ a.written = session.backup.written /\ a.dirty = session.backup.dirty
           \/ a.written = session.backup.written + 1 /\ a.dirty
        /\ Behind(a, session.watch) /\ Behind(a, Watched(session.watch, a))
    BY <1>1, FrameCases, StaysBehind
  <1>5. /\ b \in Backup /\ b.epochs = session.backup.epochs
        /\ \/ b.written = session.backup.written /\ b.dirty = session.backup.dirty
           \/ b.written > session.backup.written /\ b.dirty
        /\ Behind(b, Watched(session.watch, b))
    <2>1. CASE b = a
      BY <1>1, <1>4, <2>1 DEF Backup
    <2>2. CASE b \in AfterFrame(a)
      <3>1. /\ b \in Backup /\ b.epochs = a.epochs
            /\ \/ b.written = a.written /\ b.dirty = a.dirty
               \/ b.written = a.written + 1 /\ b.dirty
        BY <1>4, <2>2, FrameCases
      <3>2. Behind(b, Watched(session.watch, b))
        BY <1>1, <1>4, <2>2, StaysBehind
      <3>3. session.backup.written \in Int /\ a.written \in Int
        BY <1>1, <1>4 DEF Backup
      <3>. QED
        BY <1>4, <3>1, <3>2, <3>3
    <2>. QED
      BY <2>1, <2>2
  <1>6. PICK w : w = Watched(session.watch, b)
    OBVIOUS
  <1>7. /\ w \in Watch /\ w.epoch = Epoch(b) /\ Behind(b, w)
    BY <1>1, <1>5, <1>6, WatchedTyped
  <1>8. PICK f \in Files(b, w) : Ends(w, f)
    BY <1>3, <1>6
  <1>9. /\ f[1] \in Backup /\ f[1].written = b.written /\ f[1].gap = b.gap
        /\ f[1].epochs = b.epochs
        /\ \/ f[1] = b /\ f[2] = session.file
           \/ b.dirty /\ ~f[1].dirty /\ f[2] = b.written /\ w.quiet >= Quiet
    <2>1. CASE f = <<b, session.file>>
      BY <1>5, <2>1
    <2>2. CASE f \in Flushed(b, session.file) /\ w.quiet >= Quiet
      BY <1>5, <2>2, FlushedCases
    <2>. QED
      BY <1>8, <2>1, <2>2
  <1>10. w.quiet >= Quiet /\ b.epochs => Whole(b.written)
    BY <1>5, <1>7, RestedIsWhole DEF Epoch
  <1>11. f[2] \in 0 .. MaxWritten /\ b.written \in 0 .. MaxWritten
    BY <1>1, <1>5, <1>9 DEF Backup
  <1>12. session' \in Session
    BY <1>1, <1>7, <1>8, <1>9, <1>11 DEF Session
  <1>13. /\ session'.lock = "free" /\ session'.flush = session.flush
         /\ session'.frames = session.frames /\ session'.mark = session.mark
         /\ session'.backup = f[1] /\ session'.file = f[2] /\ session'.watch = w
         /\ session'.ui = session.ui /\ session'.emu = "top" /\ session'.lid = session.lid
         /\ session'.audio = session.audio /\ session'.late = session.late
         /\ session'.reasons = session.reasons /\ session'.away = session.away
         /\ session'.menu = session.menu /\ session'.link = session.link
    BY <1>1, <1>8 DEF Session
  <1>14. PauseInv'
    BY <1>1, <1>13, PauseKept DEF IInv
  <1>15. Behind(f[1], w)
    BY <1>7, <1>9 DEF Behind
  <1>16. session.mark <= b.written
    BY <1>1, <1>5, <1>11 DEF IInv, SaveInv, Backup
  <1>17. b.epochs /\ ~f[1].dirty => Settled(b.written, session.mark)
    <2>1. CASE f[1] = b
      BY <1>5, <2>1 DEF IInv, SaveInv
    <2>2. CASE w.quiet >= Quiet
      BY <1>10, <2>2 DEF Settled
    <2>. QED
      BY <1>9, <2>1, <2>2
  <1>18. ~f[1].dirty => f[2] = b.written
    BY <1>5, <1>9 DEF IInv, SaveInv, CleanIsOnFile
  <1>19. SaveInv'
    BY <1>9, <1>13, <1>15, <1>16, <1>17, <1>18 DEF SaveInv, CleanIsOnFile, Flushing
  <1>20. FileStep
    BY <1>5, <1>9, <1>10, <1>13 DEF FileStep
  <1>. QED
    BY <1>12, <1>13, <1>14, <1>19, <1>20, LinkKept DEF IInv
-----------------------------------------------------------------------------
LEMMA NextStep ==
  ASSUME SessionConstants, IInv, [Next]_vars
  PROVE  IInv' /\ FileStep /\ LidStep
  <1>1. CASE Start
    BY <1>1, StartStep DEF SameSaves, FileStep, LidStep
  <1>2. CASE Resign
    BY <1>2, ResignStep DEF SameMachine, FileStep, LidStep
  <1>3. CASE Menu
    BY <1>3, MenuStep DEF SameMachine, FileStep, LidStep
  <1>4. CASE EnterBackground
    BY <1>4, EnterBackgroundStep DEF SameMachine, FileStep, LidStep
  <1>5. CASE Teardown
    BY <1>5, TeardownStep DEF SameSaves, FileStep, LidStep
  <1>6. CASE TakeCore
    BY <1>6, TakeCoreStep DEF FileStep, LidStep
  <1>7. CASE FlushFrame
    BY <1>7, FlushFrameStep DEF FileStep, LidStep
  <1>8. CASE FlushEnd
    BY <1>8, FlushEndStep
  <1>9. CASE ShutDownLink
    BY <1>9, ShutDownLinkStep DEF SameSaves, FileStep, LidStep
  <1>10. CASE EnterForeground
    BY <1>10, EnterForegroundStep DEF FileStep, LidStep
  <1>11. CASE LinkCall
    BY <1>11, LinkCallStep DEF SameSaves, FileStep, LidStep
  <1>12. CASE Check
    BY <1>12, CheckStep DEF SameSaves, FileStep, LidStep
  <1>13. CASE BeginTick
    BY <1>13, BeginTickStep DEF SameSaves, FileStep, LidStep
  <1>14. CASE EndTick
    BY <1>14, EndTickStep DEF LidStep
  <1>15. CASE Network
    BY <1>15, NetworkStep DEF SameSaves, FileStep, LidStep
  <1>16. CASE UNCHANGED vars
    BY <1>16 DEF vars, FileStep, LidStep, IInv, PauseInv, LinkInv, SaveInv, CleanIsOnFile,
                 Flushing
  <1>. QED
    BY <1>1, <1>2, <1>3, <1>4, <1>5, <1>6, <1>7, <1>8, <1>9, <1>10, <1>11, <1>12, <1>13,
       <1>14, <1>15, <1>16 DEF Next, MainThread, EmulationThread

(* The session stays in order, whatever its two threads, the user and the  *)
(* network do.                                                             *)
THEOREM Invariant ==
  ASSUME SessionConstants
  PROVE  Spec => []IInv
  <1>1. Init => IInv
    BY InitIInv
  <1>2. IInv /\ [Next]_vars => IInv'
    BY NextStep
  <1>. QED
    BY <1>1, <1>2, PTL DEF Spec

(* Both threads, the save and the link stay in their states.               *)
THEOREM TypeCorrect ==
  ASSUME SessionConstants
  PROVE  Spec => []TypeOK
  <1>1. IInv => TypeOK
    BY DEF IInv, Session, TypeOK, Link, LinkTypeOK
  <1>. QED
    BY <1>1, Invariant, PTL

(* Of the independent causes for a pause none lifts another's: out of      *)
(* sight or under its menu the game gets one more tick at most.            *)
THEOREM Paused ==
  ASSUME SessionConstants
  PROVE  Spec => []PausesHold
  <1>1. IInv => PausesHold
    BY DEF IInv, PauseInv, PausesHold, Session
  <1>. QED
    BY <1>1, Invariant, PTL

(* The link a tick drives is the one last asked for, by the user or by a   *)
(* peer let in, whatever was recorded between two ticks.                   *)
THEOREM LinkFollows ==
  ASSUME SessionConstants
  PROVE  Spec => []LinkAsAsked
  <1>1. IInv => LinkAsAsked
    BY DEF IInv, LinkInv, IntentInv, Told, LinkAsAsked, FollowsIntent, Session, Link
  <1>. QED
    BY <1>1, Invariant, PTL

(* The flag is only cleared with the content it stood for on file.         *)
THEOREM CleanSession ==
  ASSUME SessionConstants
  PROVE  Spec => []CleanIsOnFile
  <1>1. IInv => CleanIsOnFile
    BY DEF IInv, SaveInv
  <1>. QED
    BY <1>1, Invariant, PTL

(* No thread ever writes half a save of a game that comes to rest.         *)
THEOREM WholeFiles ==
  ASSUME SessionConstants
  PROVE  Spec => FilesWhole
  <1>1. IInv /\ [Next]_vars => [FileStep]_vars
    BY NextStep
  <1>. QED
    BY <1>1, Invariant, PTL DEF Spec, FilesWhole

(* The lid does not go down on half a save of a game that comes to rest.   *)
THEOREM LidWaits ==
  ASSUME SessionConstants
  PROVE  Spec => LidSparesSave
  <1>1. IInv /\ [Next]_vars => [LidStep]_vars
    BY NextStep
  <1>. QED
    BY <1>1, Invariant, PTL DEF Spec, LidSparesSave
-----------------------------------------------------------------------------
(* The desktop window loop, by the same rules. *)
VARIABLE desktop

Desk == INSTANCE DesktopSave

DeskState ==
  [phase : {"live", "closing", "closed", "killed"}, backup : Backup, watch : Watch,
   frames : 0 .. Guard, mark : 0 .. MaxWritten, tape : SUBSET Backup,
   file : {Desk!Torn} \cup 0 .. MaxWritten, sidecar : BOOLEAN,
   writer : {"none", "save", "sidecar"}, failed : BOOLEAN, rewound : BOOLEAN,
   recount : BOOLEAN]

(* A write is of a dirty backup, of a whole save or one that was waited    *)
(* for, and the sidecar comes after the save.                              *)
WriterInv ==
  desktop.writer # "none" =>
    /\ desktop.phase \in {"live", "closing"} /\ desktop.backup.dirty
    /\ desktop.writer = "sidecar" => desktop.file = desktop.backup.written
    /\ desktop.phase = "live" /\ desktop.backup.epochs /\ ~desktop.recount =>
         Whole(desktop.backup.written)
    /\ desktop.phase = "closing" /\ desktop.backup.epochs =>
         Settled(desktop.backup.written, desktop.mark)

(* The counter is behind the game, but for a seek it does not know of.     *)
WatchInv ==
  /\ desktop.phase = "live" /\ ~desktop.recount => Behind(desktop.backup, desktop.watch)
  /\ desktop.phase = "closing" =>
       /\ desktop.backup.dirty
       /\ Behind(desktop.backup, desktop.watch)
       /\ Flushes(desktop.backup, desktop.watch, desktop.frames, desktop.mark)

DeskInv ==
  /\ desktop \in DeskState
  /\ \A t \in desktop.tape : t.epochs = desktop.backup.epochs
  /\ Desk!CleanIsOnFile
  /\ Desk!ExitKeeps
  /\ Desk!TornIsKnown
  /\ WriterInv
  /\ WatchInv

LEMMA SameRules ==
  /\ \A b : Desk!AfterFrame(b) = AfterFrame(b)
  /\ \A w, b : Desk!Watched(w, b) = Watched(w, b)
  /\ \A b : Desk!NewWatch(b) = NewWatch(b)
  /\ \A w, n : Desk!KeepsWaiting(w, n) <=> KeepsWaiting(w, n)
  /\ \A n : Desk!Whole(n) <=> Whole(n)
  /\ \A n, m : Desk!Settled(n, m) <=> Settled(n, m)
  /\ \A b : Desk!Epoch(b) = Epoch(b)
  <1>1. \A b : Desk!AfterFrame(b) = AfterFrame(b)
    BY Zenon DEF Desk!AfterFrame, AfterFrame, Desk!Whole, Whole, Desk!Min, Min
  <1>2. \A w, b : Desk!Watched(w, b) = Watched(w, b)
    BY Zenon DEF Desk!Watched, Watched, Desk!Epoch, Epoch, Desk!Min, Min
  <1>3. \A b : Desk!NewWatch(b) = NewWatch(b)
    BY Zenon DEF Desk!NewWatch, NewWatch, Desk!Epoch, Epoch
  <1>4. \A w, n : Desk!KeepsWaiting(w, n) <=> KeepsWaiting(w, n)
    BY DEF Desk!KeepsWaiting, KeepsWaiting
  <1>5. \A n : Desk!Whole(n) <=> Whole(n)
    BY DEF Desk!Whole, Whole
  <1>6. \A n, m : Desk!Settled(n, m) <=> Settled(n, m)
    BY DEF Desk!Settled, Settled, Desk!Whole, Whole
  <1>7. \A b : Desk!Epoch(b) = Epoch(b)
    BY DEF Desk!Epoch, Epoch
  <1>. QED
    BY <1>1, <1>2, <1>3, <1>4, <1>5, <1>6, <1>7

LEMMA InitDeskInv ==
  ASSUME Desk!Init
  PROVE  DeskInv
  <1>1. PICK epochs \in BOOLEAN :
          desktop = [phase |-> "live", backup |-> Desk!NewBackup(epochs),
                     watch |-> Desk!NewWatch(Desk!NewBackup(epochs)), frames |-> 0,
                     mark |-> 0, tape |-> {}, file |-> 0, sidecar |-> FALSE,
                     writer |-> "none", failed |-> FALSE, rewound |-> FALSE,
                     recount |-> FALSE]
    BY DEF Desk!Init
  <1>. DEFINE b == Desk!NewBackup(epochs)
  <1>2. b \in Backup /\ b.written = 0
    BY SaveRulesAssumption DEF Backup, Desk!NewBackup
  <1>3. NewWatch(b) \in Watch /\ Behind(b, NewWatch(b)) /\ Desk!NewWatch(b) = NewWatch(b)
    BY <1>2, NewWatchTyped, SameRules
  <1>4. 0 \in 0 .. Guard /\ 0 \in 0 .. MaxWritten /\ 0 # Desk!Torn
    BY SaveRulesAssumption DEF Desk!Torn
  <1>. HIDE DEF b
  <1>5. desktop \in DeskState
    BY <1>1, <1>2, <1>3, <1>4 DEF DeskState, b
  <1>6. /\ desktop.backup = b /\ desktop.watch = NewWatch(b) /\ desktop.file = 0
        /\ desktop.tape = {} /\ desktop.phase = "live" /\ desktop.writer = "none"
    BY <1>1, <1>3 DEF b
  <1>. QED
    BY <1>2, <1>3, <1>4, <1>5, <1>6
    DEF DeskInv, WriterInv, WatchInv, Desk!CleanIsOnFile, Desk!ExitKeeps, Desk!TornIsKnown,
        Desk!OnFile

(* A turn of the loop, after one frame or several.                         *)
LEMMA TurnStep ==
  ASSUME DeskInv, Desk!Playing, NEW b \in Backup, Desk!Turn(b),
         b.epochs = desktop.backup.epochs,
         b.written = desktop.backup.written \/ b.dirty, desktop.backup.dirty => b.dirty,
         ~desktop.recount => Behind(b, Watched(desktop.watch, b))
  PROVE  DeskInv' /\ Desk!FileStep
  <1>1. /\ desktop \in DeskState /\ desktop.watch \in Watch /\ desktop.phase = "live"
        /\ desktop.writer = "none" /\ b.written \in 0 .. MaxWritten
        /\ desktop.rewound \in BOOLEAN /\ desktop.recount \in BOOLEAN
    BY DEF DeskInv, DeskState, Backup, Desk!Playing
  <1>2. PICK w : w = Watched(desktop.watch, b)
    OBVIOUS
  <1>3. /\ w \in Watch /\ w.epoch = Epoch(b)
        /\ Epoch(b) # desktop.watch.epoch => w.quiet = 0
    BY <1>1, <1>2, WatchedTyped
  <1>. DEFINE tape == Desk!Recorded(b)
              writer == IF b.dirty /\ w.quiet >= Quiet THEN "save" ELSE "none"
              rewound == desktop.rewound /\ b.written = desktop.backup.written
              recount == desktop.recount /\ Epoch(b) = desktop.watch.epoch
  <1>4. desktop' = [desktop EXCEPT !.backup = b, !.watch = w, !.tape = tape,
                                   !.writer = writer, !.rewound = rewound,
                                   !.recount = recount]
    <2>1. Desk!Watched(desktop.watch, b) = w /\ Desk!Epoch(b) = Epoch(b)
      BY <1>2, SameRules
    <2>. QED
      BY <2>1 DEF Desk!Turn
  <1>5. tape \in SUBSET Backup /\ \A t \in tape : t.epochs = b.epochs
    BY <1>1 DEF Desk!Recorded, DeskInv, DeskState
  <1>6. writer \in {"none", "save"} /\ (writer = "save" => b.dirty /\ w.quiet >= Quiet)
    OBVIOUS
  <1>7. /\ rewound \in BOOLEAN /\ recount \in BOOLEAN
        /\ rewound => desktop.rewound
        /\ ~rewound => ~desktop.rewound \/ b.dirty
        /\ ~recount => ~desktop.recount \/ w.quiet = 0
    BY <1>1, <1>3
  <1>8. ~recount => Behind(b, w)
    <2>1. CASE ~desktop.recount
      BY <1>2, <2>1
    <2>2. CASE w.quiet = 0
      BY <1>3, <2>2, SaveRulesAssumption DEF Behind, Epoch, Backup
    <2>. QED
      BY <1>7, <2>1, <2>2
  <1>. HIDE DEF tape, writer, rewound, recount
  <1>9. desktop' \in DeskState
    BY <1>1, <1>3, <1>4, <1>5, <1>6, <1>7 DEF DeskState
  <1>10. /\ desktop'.backup = b /\ desktop'.watch = w /\ desktop'.tape = tape
         /\ desktop'.writer = writer /\ desktop'.rewound = rewound
         /\ desktop'.recount = recount /\ desktop'.phase = "live"
         /\ desktop'.file = desktop.file /\ desktop'.sidecar = desktop.sidecar
         /\ desktop'.failed = desktop.failed
    BY <1>1, <1>4 DEF DeskState
  <1>11. Desk!CleanIsOnFile'
    <2>1. ~b.dirty /\ ~rewound => ~desktop.backup.dirty /\ ~desktop.rewound
                                  /\ b.written = desktop.backup.written
      BY <1>1, <1>7
    <2>. QED
      BY <1>10, <2>1 DEF DeskInv, Desk!CleanIsOnFile, Desk!OnFile
  <1>12. WriterInv'
    <2>1. writer = "save" /\ b.epochs /\ ~recount => Whole(b.written)
      BY <1>3, <1>6, <1>8, RestedIsWhole DEF Epoch
    <2>. QED
      BY <1>6, <1>10, <2>1 DEF WriterInv
  <1>13. Desk!ExitKeeps' /\ Desk!TornIsKnown' /\ Desk!FileStep
    <2>1. Desk!TornIsKnown
      BY DEF DeskInv
    <2>. QED
      BY <1>1, <1>10, <2>1 DEF Desk!ExitKeeps, Desk!TornIsKnown, Desk!FileStep
  <1>14. WatchInv'
    BY <1>8, <1>10 DEF WatchInv
  <1>15. \A t \in desktop'.tape : t.epochs = desktop'.backup.epochs
    BY <1>5, <1>10
  <1>. QED
    BY <1>9, <1>11, <1>12, <1>13, <1>14, <1>15 DEF DeskInv

LEMMA SeekStep ==
  ASSUME DeskInv, Desk!Seek
  PROVE  DeskInv' /\ Desk!FileStep
  <1>1. /\ desktop \in DeskState /\ desktop.phase = "live" /\ desktop.writer = "none"
        /\ desktop.tape \in SUBSET Backup
    BY DEF DeskInv, DeskState, Desk!Seek, Desk!Playing
  <1>2. PICK t \in desktop.tape, dirty \in BOOLEAN :
          desktop' = [desktop EXCEPT !.backup = [t EXCEPT !.dirty = dirty],
                                     !.rewound = TRUE, !.recount = TRUE]
    <2>1. PICK t \in desktop.tape : \E key \in {k \in desktop.tape : Desk!NotAfter(k, t)} :
            desktop' = [desktop EXCEPT !.backup = [t EXCEPT !.dirty = t.dirty \/ key.dirty],
                                       !.rewound = TRUE, !.recount = TRUE]
      BY DEF Desk!Seek
    <2>2. PICK key \in desktop.tape :
            desktop' = [desktop EXCEPT !.backup = [t EXCEPT !.dirty = t.dirty \/ key.dirty],
                                       !.rewound = TRUE, !.recount = TRUE]
      BY <2>1
    <2>3. (t.dirty \/ key.dirty) \in BOOLEAN
      OBVIOUS
    <2>. QED
      BY <2>2, <2>3
  <1>. DEFINE b == [t EXCEPT !.dirty = dirty]
  <1>3. b \in Backup /\ b.epochs = desktop.backup.epochs
    <2>1. t \in Backup /\ t.epochs = desktop.backup.epochs
      BY <1>1 DEF DeskInv
    <2>. QED
      BY <2>1 DEF Backup
  <1>4. desktop' = [desktop EXCEPT !.backup = b, !.rewound = TRUE, !.recount = TRUE]
    BY <1>2
  <1>. HIDE DEF b
  <1>5. desktop' \in DeskState
    BY <1>1, <1>3, <1>4 DEF DeskState
  <1>6. /\ desktop'.backup = b /\ desktop'.rewound /\ desktop'.recount
        /\ desktop'.phase = "live" /\ desktop'.writer = "none"
        /\ desktop'.file = desktop.file /\ desktop'.tape = desktop.tape
        /\ desktop'.failed = desktop.failed
    BY <1>1, <1>4 DEF DeskState
  <1>7. Desk!CleanIsOnFile' /\ Desk!ExitKeeps' /\ Desk!TornIsKnown' /\ Desk!FileStep
    <2>1. Desk!TornIsKnown
      BY DEF DeskInv
    <2>. QED
      BY <1>1, <1>6, <2>1
      DEF Desk!CleanIsOnFile, Desk!ExitKeeps, Desk!TornIsKnown, Desk!FileStep
  <1>8. WatchInv' /\ WriterInv'
    BY <1>6 DEF WatchInv, WriterInv
  <1>9. \A k \in desktop'.tape : k.epochs = desktop'.backup.epochs
    BY <1>3, <1>6 DEF DeskInv
  <1>. QED
    BY <1>5, <1>7, <1>8, <1>9 DEF DeskInv

(* The two writes, whole or cut short by an error.                         *)
LEMMA WriteSaveStep ==
  ASSUME DeskInv, Desk!WriteSave
  PROVE  DeskInv' /\ Desk!FileStep
  <1>1. /\ desktop \in DeskState /\ desktop.writer = "save" /\ desktop.backup.dirty
        /\ desktop.phase \in {"live", "closing"} /\ desktop.backup \in Backup
        /\ desktop.backup.written \in 0 .. MaxWritten
        /\ desktop.file \in {Desk!Torn} \cup 0 .. MaxWritten
    BY DEF DeskInv, WriterInv, DeskState, Backup, Desk!WriteSave
  <1>2. CASE desktop' = [desktop EXCEPT !.file = desktop.backup.written, !.writer = "sidecar"]
    <2>1. desktop' \in DeskState
      BY <1>1, <1>2 DEF DeskState
    <2>2. /\ desktop'.file = desktop.backup.written /\ desktop'.writer = "sidecar"
          /\ desktop'.backup = desktop.backup /\ desktop'.phase = desktop.phase
          /\ desktop'.watch = desktop.watch /\ desktop'.frames = desktop.frames
          /\ desktop'.mark = desktop.mark /\ desktop'.tape = desktop.tape
          /\ desktop'.recount = desktop.recount
      BY <1>1, <1>2 DEF DeskState
    <2>3. desktop'.file # Desk!Torn
      BY <1>1, <2>2, SaveRulesAssumption DEF Desk!Torn
    <2>4. Desk!FileStep
      BY <1>1, <2>2, SameRules DEF DeskInv, WriterInv, Desk!FileStep, Desk!CompleteWrite
    <2>. QED
      BY <1>1, <2>1, <2>2, <2>3, <2>4
      DEF DeskInv, WatchInv, WriterInv, Desk!CleanIsOnFile, Desk!ExitKeeps, Desk!TornIsKnown
  <1>3. ASSUME NEW left \in {desktop.file, Desk!Torn},
               desktop' = [desktop EXCEPT !.file = left, !.writer = "none", !.failed = TRUE,
                                          !.phase = Desk!Ended]
        PROVE  DeskInv' /\ Desk!FileStep
    <2>1. Desk!Ended \in {"live", "closed"} /\ (Desk!Ended = "live" => desktop.phase = "live")
      BY <1>1 DEF Desk!Ended
    <2>2. desktop' \in DeskState
      BY <1>1, <1>3, <2>1 DEF DeskState
    <2>3. /\ desktop'.file = left /\ desktop'.writer = "none" /\ desktop'.failed
          /\ desktop'.phase = Desk!Ended /\ desktop'.backup = desktop.backup
          /\ desktop'.watch = desktop.watch /\ desktop'.tape = desktop.tape
          /\ desktop'.recount = desktop.recount
      BY <1>1, <1>3 DEF DeskState
    <2>. QED
      BY <1>1, <2>1, <2>2, <2>3
      DEF DeskInv, WatchInv, WriterInv, Desk!CleanIsOnFile, Desk!ExitKeeps, Desk!TornIsKnown,
          Desk!FileStep, Desk!CompleteWrite
  <1>. QED
    BY <1>2, <1>3 DEF Desk!WriteSave

LEMMA WriteSidecarStep ==
  ASSUME DeskInv, Desk!WriteSidecar
  PROVE  DeskInv' /\ Desk!FileStep
  <1>1. /\ desktop \in DeskState /\ desktop.writer = "sidecar" /\ desktop.backup.dirty
        /\ desktop.phase \in {"live", "closing"} /\ desktop.backup \in Backup
        /\ desktop.backup.written \in 0 .. MaxWritten /\ desktop.sidecar \in BOOLEAN
        /\ desktop.file = desktop.backup.written
    BY DEF DeskInv, WriterInv, DeskState, Backup, Desk!WriteSidecar
  <1>2. /\ Desk!Ended \in {"live", "closed"}
        /\ Desk!Ended = "live" <=> desktop.phase = "live"
        /\ Desk!Ended = "closed" <=> desktop.phase = "closing"
    BY <1>1 DEF Desk!Ended
  <1>3. desktop.file # Desk!Torn
    BY <1>1, SaveRulesAssumption DEF Desk!Torn
  <1>4. CASE desktop' = [desktop EXCEPT !.sidecar = TRUE, !.writer = "none", !.failed = FALSE,
                                        !.rewound = FALSE, !.phase = Desk!Ended,
                                        !.backup.dirty = @ /\ desktop.phase = "closing"]
    <2>1. PICK b : b = [desktop.backup EXCEPT !.dirty = @ /\ desktop.phase = "closing"]
      OBVIOUS
    <2>2. /\ b \in Backup /\ b.written = desktop.backup.written /\ b.gap = desktop.backup.gap
          /\ b.epochs = desktop.backup.epochs
      BY <1>1, <2>1 DEF Backup
    <2>3. desktop' = [desktop EXCEPT !.sidecar = TRUE, !.writer = "none", !.failed = FALSE,
                                     !.rewound = FALSE, !.phase = Desk!Ended, !.backup = b]
      BY <1>4, <2>1
    <2>4. desktop' \in DeskState
      BY <1>1, <1>2, <2>2, <2>3 DEF DeskState
    <2>5. /\ desktop'.sidecar = TRUE /\ desktop'.writer = "none"
          /\ desktop'.phase = Desk!Ended /\ desktop'.backup = b
          /\ desktop'.watch = desktop.watch /\ desktop'.tape = desktop.tape
          /\ desktop'.file = desktop.file /\ desktop'.recount = desktop.recount
      BY <1>1, <2>3 DEF DeskState
    <2>6. Desk!OnFile'
      BY <1>1, <2>2, <2>5 DEF Desk!OnFile
    <2>7. Behind(desktop.backup, desktop.watch) => Behind(b, desktop.watch)
      BY <2>2 DEF Behind
    <2>. QED
      BY <1>2, <1>3, <2>2, <2>4, <2>5, <2>6, <2>7
      DEF DeskInv, WatchInv, WriterInv, Desk!CleanIsOnFile, Desk!ExitKeeps, Desk!TornIsKnown,
          Desk!FileStep
  <1>5. ASSUME NEW left \in {desktop.sidecar, FALSE},
               desktop' = [desktop EXCEPT !.sidecar = left, !.writer = "none", !.failed = TRUE,
                                          !.phase = Desk!Ended]
        PROVE  DeskInv' /\ Desk!FileStep
    <2>1. desktop' \in DeskState
      BY <1>1, <1>2, <1>5 DEF DeskState
    <2>2. /\ desktop'.writer = "none" /\ desktop'.failed /\ desktop'.phase = Desk!Ended
          /\ desktop'.backup = desktop.backup /\ desktop'.watch = desktop.watch
          /\ desktop'.tape = desktop.tape /\ desktop'.file = desktop.file
          /\ desktop'.recount = desktop.recount
      BY <1>1, <1>5 DEF DeskState
    <2>. QED
      BY <1>1, <1>2, <2>1, <2>2
      DEF DeskInv, WatchInv, WriterInv, Desk!CleanIsOnFile, Desk!ExitKeeps, Desk!TornIsKnown,
          Desk!FileStep
  <1>. QED
    BY <1>4, <1>5 DEF Desk!WriteSidecar

(* The end of the process may leave the file in pieces, not half a save.   *)
LEMMA KillStep ==
  ASSUME DeskInv, Desk!Kill
  PROVE  DeskInv' /\ Desk!FileStep
  <1>1. /\ desktop \in DeskState /\ desktop.phase \in {"live", "closing"}
        /\ desktop.file \in {Desk!Torn} \cup 0 .. MaxWritten /\ desktop.sidecar \in BOOLEAN
        /\ desktop.backup \in Backup
    BY DEF DeskInv, DeskState, Desk!Kill
  <1>. DEFINE d == Desk!Dead
  <1>2. /\ d \in DeskState /\ d.phase = "killed" /\ d.writer = "none" /\ d.tape = {}
        /\ d.file = desktop.file /\ d.sidecar = desktop.sidecar
        /\ d.backup = desktop.backup /\ d.rewound = desktop.rewound
    BY <1>1 DEF DeskState, Desk!Dead
  <1>. HIDE DEF d
  <1>3. ASSUME NEW e \in DeskState, e.phase = "killed", e.writer = "none", e.tape = {},
               e.backup = d.backup, e.rewound = d.rewound, desktop' = e,
               e.file = desktop.file \/ (e.file = Desk!Torn /\ desktop.writer = "save"),
               e.sidecar = desktop.sidecar \/ desktop.writer = "sidecar"
        PROVE  DeskInv' /\ Desk!FileStep
    <2>1. CASE desktop.writer = "none"
      <3>1. Desk!CleanIsOnFile'
        BY <1>2, <1>3, <2>1 DEF DeskInv, Desk!CleanIsOnFile, Desk!OnFile
      <3>. QED
        BY <1>2, <1>3, <2>1, <3>1
        DEF DeskInv, WatchInv, WriterInv, Desk!ExitKeeps, Desk!TornIsKnown, Desk!FileStep
    <2>2. CASE desktop.writer # "none"
      <3>1. Desk!CleanIsOnFile'
        BY <1>2, <1>3, <2>2 DEF DeskInv, WriterInv, Desk!CleanIsOnFile
      <3>. QED
        BY <1>2, <1>3, <3>1
        DEF DeskInv, WatchInv, WriterInv, Desk!ExitKeeps, Desk!TornIsKnown, Desk!FileStep,
            Desk!CompleteWrite
    <2>. QED
      BY <2>1, <2>2
  <1>4. CASE desktop' = d
    BY <1>2, <1>3, <1>4, Zenon
  <1>5. CASE desktop.writer = "save" /\ desktop' = [d EXCEPT !.file = Desk!Torn]
    <2>1. PICK e : e = [d EXCEPT !.file = Desk!Torn]
      OBVIOUS
    <2>2. /\ e \in DeskState /\ e.phase = d.phase /\ e.writer = d.writer /\ e.tape = d.tape
          /\ e.backup = d.backup /\ e.rewound = d.rewound /\ e.file = Desk!Torn
          /\ e.sidecar = d.sidecar
      BY <1>2, <2>1 DEF DeskState
    <2>. QED
      BY <1>2, <1>3, <1>5, <2>1, <2>2
  <1>6. CASE desktop.writer = "sidecar" /\ desktop' = [d EXCEPT !.sidecar = FALSE]
    <2>1. PICK e : e = [d EXCEPT !.sidecar = FALSE]
      OBVIOUS
    <2>2. /\ e \in DeskState /\ e.phase = d.phase /\ e.writer = d.writer /\ e.tape = d.tape
          /\ e.backup = d.backup /\ e.rewound = d.rewound /\ e.file = d.file
      BY <1>2, <2>1 DEF DeskState
    <2>. QED
      BY <1>2, <1>3, <1>6, <2>1, <2>2
  <1>. QED
    BY <1>4, <1>5, <1>6 DEF Desk!Kill, d

LEMMA DeskStep ==
  ASSUME DeskInv, [Desk!Next]_(Desk!vars)
  PROVE  DeskInv' /\ Desk!FileStep
  <1>1. /\ desktop \in DeskState /\ desktop.backup \in Backup /\ desktop.watch \in Watch
        /\ desktop.frames \in 0 .. Guard /\ desktop.mark \in 0 .. MaxWritten
        /\ desktop.backup.written \in 0 .. MaxWritten /\ desktop.backup.gap \in Nat
        /\ MaxWritten \in Nat /\ Guard \in Nat /\ Quiet \in Nat /\ MaxGap \in Nat
        /\ desktop.frames \in Nat /\ desktop.mark \in Nat
    BY SaveRulesAssumption DEF DeskInv, DeskState, Backup
  <1>2. ASSUME NEW a \in AfterFrame(desktop.backup)
        PROVE  /\ a \in Backup /\ a.epochs = desktop.backup.epochs
               /\ a.written = desktop.backup.written \/ a.dirty
               /\ desktop.backup.dirty => a.dirty
               /\ Behind(desktop.backup, desktop.watch) =>
                    Behind(a, desktop.watch) /\ Behind(a, Watched(desktop.watch, a))
    BY <1>1, <1>2, FrameCases, StaysBehind
  <1>3. CASE Desk!LiveFrame
    <2>1. PICK b \in AfterFrame(desktop.backup) : Desk!Turn(b)
      BY <1>3, SameRules DEF Desk!LiveFrame
    <2>2. Desk!Playing /\ (~desktop.recount => Behind(desktop.backup, desktop.watch))
      BY <1>3 DEF Desk!LiveFrame, Desk!Playing, DeskInv, WatchInv
    <2>. QED
      BY <1>2, <2>1, <2>2, TurnStep
  <1>4. CASE Desk!WarpFrames
    <2>1. PICK a \in AfterFrame(desktop.backup) : \E b \in AfterFrame(a) : Desk!Turn(b)
      BY <1>4, SameRules DEF Desk!WarpFrames
    <2>2. PICK b \in AfterFrame(a) : Desk!Turn(b)
      BY <2>1
    <2>3. Desk!Playing /\ (~desktop.recount => Behind(desktop.backup, desktop.watch))
      BY <1>4 DEF Desk!WarpFrames, Desk!Playing, DeskInv, WatchInv
    <2>4. /\ a \in Backup /\ a.epochs = desktop.backup.epochs
          /\ a.written = desktop.backup.written \/ a.dirty
          /\ desktop.backup.dirty => a.dirty
          /\ ~desktop.recount => Behind(a, desktop.watch)
      BY <1>2, <2>1, <2>3
    <2>5. /\ b \in Backup /\ b.epochs = a.epochs
          /\ b.written = a.written \/ b.dirty
          /\ a.dirty => b.dirty
      BY <2>2, <2>4, FrameCases
    <2>6. ~desktop.recount => Behind(b, Watched(desktop.watch, b))
      BY <1>1, <2>2, <2>4, StaysBehind
    <2>7. b.written = desktop.backup.written \/ b.dirty
      BY <2>4, <2>5
    <2>. QED
      BY <2>2, <2>3, <2>4, <2>5, <2>6, <2>7, TurnStep
  <1>5. CASE Desk!Close
    <2>. DEFINE phase == IF desktop.backup.dirty THEN "closing" ELSE "closed"
                w == NewWatch(desktop.backup)
    <2>1. /\ desktop.phase = "live" /\ desktop.writer = "none"
          /\ Desk!NewWatch(desktop.backup) = w
      BY <1>5, SameRules DEF Desk!Close, Desk!Playing
    <2>2. desktop' = [desktop EXCEPT !.phase = phase, !.watch = w, !.frames = 0,
                                     !.mark = desktop.backup.written, !.tape = {},
                                     !.recount = FALSE]
      BY <1>5, <2>1 DEF Desk!Close
    <2>3. /\ w \in Watch /\ Behind(desktop.backup, w)
          /\ w.epoch = Epoch(desktop.backup) /\ w.quiet = 0
      BY <1>1, NewWatchTyped DEF NewWatch
    <2>4. Flushes(desktop.backup, w, 0, desktop.backup.written)
      <3>1. /\ desktop.backup.written - desktop.backup.written = 0 /\ 0 * (MaxGap + 1) = 0
            /\ desktop.backup.written <= desktop.backup.written
        BY <1>1
      <3>2. Waited(desktop.backup, w, 0, desktop.backup.written)
        BY <1>1, <2>3, <3>1 DEF Waited
      <3>. QED
        BY <2>3, <3>1, <3>2 DEF Flushes, Epoch
    <2>5. phase \in {"closing", "closed"} /\ (phase = "closing" <=> desktop.backup.dirty)
      OBVIOUS
    <2>. HIDE DEF phase, w
    <2>6. desktop' \in DeskState
      <3>1. 0 \in 0 .. Guard
        BY <1>1
      <3>. QED
        BY <1>1, <2>2, <2>3, <2>5, <3>1 DEF DeskState
    <2>7. /\ desktop'.backup = desktop.backup /\ desktop'.watch = w /\ desktop'.frames = 0
          /\ desktop'.mark = desktop.backup.written /\ desktop'.file = desktop.file
          /\ desktop'.phase = phase /\ desktop'.writer = "none" /\ desktop'.tape = {}
          /\ desktop'.sidecar = desktop.sidecar /\ desktop'.rewound = desktop.rewound
          /\ desktop'.failed = desktop.failed
      BY <1>1, <2>1, <2>2 DEF DeskState
    <2>8. Desk!CleanIsOnFile' /\ Desk!ExitKeeps' /\ Desk!TornIsKnown'
      BY <2>1, <2>5, <2>7
      DEF DeskInv, Desk!CleanIsOnFile, Desk!ExitKeeps, Desk!TornIsKnown, Desk!OnFile
    <2>. QED
      BY <2>3, <2>4, <2>5, <2>6, <2>7, <2>8 DEF DeskInv, WatchInv, WriterInv, Desk!FileStep
  <1>6. CASE Desk!ClosingFrame
    <2>1. /\ desktop.phase = "closing" /\ KeepsWaiting(desktop.watch, desktop.frames)
          /\ Behind(desktop.backup, desktop.watch) /\ desktop.backup.dirty
          /\ Flushes(desktop.backup, desktop.watch, desktop.frames, desktop.mark)
          /\ desktop.writer = "none"
      BY <1>6, SameRules DEF Desk!ClosingFrame, Desk!Waiting, DeskInv, WatchInv
    <2>2. PICK b \in AfterFrame(desktop.backup) :
            desktop' = [desktop EXCEPT !.backup = b, !.watch = Watched(desktop.watch, b),
                                       !.frames = desktop.frames + 1,
                                       !.rewound = @ /\ b.written = desktop.backup.written]
      BY <1>6, SameRules DEF Desk!ClosingFrame
    <2>. DEFINE w == Watched(desktop.watch, b)
                n == desktop.frames + 1
                r == desktop.rewound /\ b.written = desktop.backup.written
    <2>3. /\ b \in Backup /\ b.dirty /\ Behind(b, w) /\ w \in Watch /\ r \in BOOLEAN
          /\ b.epochs = desktop.backup.epochs
      BY <1>1, <1>2, <2>1, WatchedTyped
    <2>4. Flushes(b, w, n, desktop.mark)
      BY <1>1, <2>1, FlushGoesOn
    <2>5. n \in 0 .. Guard
      BY <1>1, <2>1 DEF KeepsWaiting
    <2>6. desktop' = [desktop EXCEPT !.backup = b, !.watch = w, !.frames = n, !.rewound = r]
      BY <2>2
    <2>. HIDE DEF w, n, r
    <2>7. desktop' \in DeskState
      BY <1>1, <2>3, <2>5, <2>6 DEF DeskState
    <2>8. /\ desktop'.backup = b /\ desktop'.watch = w /\ desktop'.frames = n
          /\ desktop'.mark = desktop.mark /\ desktop'.file = desktop.file
          /\ desktop'.phase = "closing" /\ desktop'.writer = "none"
          /\ desktop'.tape = desktop.tape /\ desktop'.failed = desktop.failed
      BY <1>1, <2>1, <2>6 DEF DeskState
    <2>9. Desk!CleanIsOnFile' /\ Desk!ExitKeeps' /\ Desk!TornIsKnown' /\ Desk!FileStep
      <3>1. Desk!TornIsKnown
        BY DEF DeskInv
      <3>. QED
        BY <2>1, <2>3, <2>8, <3>1
        DEF Desk!CleanIsOnFile, Desk!ExitKeeps, Desk!TornIsKnown, Desk!FileStep
    <2>10. WatchInv' /\ WriterInv'
      BY <2>3, <2>4, <2>8 DEF WatchInv, WriterInv
    <2>11. \A t \in desktop'.tape : t.epochs = desktop'.backup.epochs
      BY <2>3, <2>8 DEF DeskInv
    <2>. QED
      BY <2>7, <2>9, <2>10, <2>11 DEF DeskInv
  <1>7. CASE Desk!FinalWrite
    <2>1. /\ desktop.phase = "closing" /\ ~KeepsWaiting(desktop.watch, desktop.frames)
          /\ Behind(desktop.backup, desktop.watch) /\ desktop.backup.dirty
          /\ Flushes(desktop.backup, desktop.watch, desktop.frames, desktop.mark)
      BY <1>7, SameRules DEF Desk!FinalWrite, Desk!Waiting, DeskInv, WatchInv
    <2>2. desktop' = [desktop EXCEPT !.writer = "save"]
      BY <1>7 DEF Desk!FinalWrite
    <2>3. desktop.backup.epochs => Settled(desktop.backup.written, desktop.mark)
      BY <1>1, <2>1, FlushIsSettled
    <2>4. desktop' \in DeskState
      BY <1>1, <2>2 DEF DeskState
    <2>5. /\ desktop'.backup = desktop.backup /\ desktop'.phase = "closing"
          /\ desktop'.watch = desktop.watch /\ desktop'.frames = desktop.frames
          /\ desktop'.mark = desktop.mark /\ desktop'.file = desktop.file
          /\ desktop'.tape = desktop.tape /\ desktop'.failed = desktop.failed
          /\ desktop'.writer = "save"
      BY <1>1, <2>1, <2>2 DEF DeskState
    <2>. QED
      BY <2>1, <2>3, <2>4, <2>5
      DEF DeskInv, WatchInv, WriterInv, Desk!CleanIsOnFile, Desk!ExitKeeps, Desk!TornIsKnown,
          Desk!FileStep
  <1>8. CASE UNCHANGED Desk!vars
    BY <1>8
    DEF Desk!vars, DeskInv, WatchInv, WriterInv, Desk!CleanIsOnFile, Desk!ExitKeeps,
        Desk!TornIsKnown, Desk!OnFile, Desk!FileStep
  <1>. QED
    BY <1>3, <1>4, <1>5, <1>6, <1>7, <1>8, SeekStep, WriteSaveStep, WriteSidecarStep, KillStep
    DEF Desk!Next

(* The window loop stays in order, through fast-forwards, seeks, and       *)
(* writes that fail or are cut short.                                      *)
THEOREM DeskInvariant == Desk!Spec => []DeskInv
  <1>1. Desk!Init => DeskInv
    BY InitDeskInv
  <1>2. DeskInv /\ [Desk!Next]_(Desk!vars) => DeskInv'
    BY DeskStep
  <1>. QED
    BY <1>1, <1>2, PTL DEF Desk!Spec

THEOREM DeskTypeCorrect == Desk!Spec => []Desk!TypeOK
  <1>1. DeskInv => Desk!TypeOK
    BY DEF DeskInv, DeskState, Desk!TypeOK, Backup, Watch
  <1>. QED
    BY <1>1, DeskInvariant, PTL

(* No store is forgotten, though the write of the save or of its sidecar   *)
(* stopped half-way; none is lost on the way out but by a write that       *)
(* failed; and the file is in pieces only after an error or a kill.        *)
THEOREM DeskKeeps ==
  Desk!Spec => [](Desk!CleanIsOnFile /\ Desk!ExitKeeps /\ Desk!TornIsKnown)
  <1>1. DeskInv => Desk!CleanIsOnFile /\ Desk!ExitKeeps /\ Desk!TornIsKnown
    BY DEF DeskInv
  <1>. QED
    BY <1>1, DeskInvariant, PTL

(* No write that ends puts half a save of a game that comes to rest on     *)
(* file, once the counter has started afresh after a seek.                 *)
THEOREM DeskWholeFiles == Desk!Spec => Desk!FilesWhole
  <1>1. DeskInv /\ [Desk!Next]_(Desk!vars) => [Desk!FileStep]_(Desk!vars)
    BY DeskStep
  <1>. QED
    BY <1>1, DeskInvariant, PTL DEF Desk!Spec, Desk!FilesWhole
=============================================================================

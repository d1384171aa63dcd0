----------------------------- MODULE DesktopSave -----------------------------
(***************************************************************************)
(* Battery saves in the desktop window loop (crates/rewinds/src/main.rs):  *)
(* one thread, one record `desktop`.  write_save overwrites the file in    *)
(* place and then its sidecar, so each is an action that may be cut short, *)
(* and the scrubber puts an earlier backup back under the loop.            *)
(***************************************************************************)
EXTENDS SaveRules

VARIABLE
  desktop  (* [phase, backup, watch, frames, mark, tape, file, sidecar,     *)
           (* writer, failed, rewound, recount]: the loop, the cartridge,   *)
           (* the quiescence counter, the frames of the final flush and     *)
           (* (history) the stores made before it, the backups at the       *)
           (* recorded frames, the content of the file, whether its sidecar *)
           (* is there and whole, which of the two is being written,        *)
           (* whether the last write failed, and (history) whether a seek   *)
           (* put back a backup not stored to or written since, and whether *)
           (* the counter has not started afresh since                      *)

(* What a write cut short leaves of the file: it was truncated first.      *)
Torn == -1

Init ==
  \E epochs \in BOOLEAN :
    LET b == NewBackup(epochs)
    IN  desktop = [phase |-> "live", backup |-> b, watch |-> NewWatch(b), frames |-> 0,
                   mark |-> 0, tape |-> {}, file |-> 0, sidecar |-> FALSE, writer |-> "none",
                   failed |-> FALSE, rewound |-> FALSE, recount |-> FALSE]

(* A frame of the timeline is no later than another.                       *)
NotAfter(t, b) ==
  \/ t.written < b.written
  \/ t.written = b.written /\ t.gap <= b.gap

(* record_frame: what was rewound past is gone, `b` is recorded, and the   *)
(* oldest frames make room (bound of the model: those a save ago).         *)
Recorded(b) ==
  {t \in desktop.tape : NotAfter(t, desktop.backup) /\ t.written + SaveLength >= b.written}
  \cup {b}

(* One turn of the window loop in which `b` came out of the machine: it is *)
(* recorded, and the save is written if it is dirty and has come to rest.  *)
Turn(b) ==
  LET w == Watched(desktop.watch, b)
  IN  desktop' = [desktop EXCEPT
        !.backup = b, !.watch = w, !.tape = Recorded(b),
        !.writer = IF b.dirty /\ w.quiet >= Quiet THEN "save" ELSE "none",
        !.rewound = @ /\ b.written = desktop.backup.written,
        !.recount = @ /\ Epoch(b) = desktop.watch.epoch]

Playing == desktop.phase = "live" /\ desktop.writer = "none"

LiveFrame == Playing /\ \E b \in AfterFrame(desktop.backup) : Turn(b)

(* Fast-forward: several frames, one recorded, one look at the epoch.      *)
WarpFrames ==
  Playing /\ \E a \in AfterFrame(desktop.backup) : \E b \in AfterFrame(a) : Turn(b)

(* The scrubber puts the machine of a recorded frame back, by replaying    *)
(* from a keyframe: a flush that came between is not repeated, so what was *)
(* dirty at the keyframe still is.  The loop's counter knows nothing of it.*)
Seek ==
  /\ Playing
  /\ \E t \in desktop.tape : \E key \in {k \in desktop.tape : NotAfter(k, t)} :
       desktop' = [desktop EXCEPT !.backup = [t EXCEPT !.dirty = t.dirty \/ key.dirty],
                                  !.rewound = TRUE, !.recount = TRUE]

(* The window is closed: there is no more scrubbing, and the final flush   *)
(* starts counting afresh.                                                 *)
Close ==
  /\ Playing
  /\ desktop' = [desktop EXCEPT !.phase = IF desktop.backup.dirty THEN "closing" ELSE "closed",
                                !.watch = NewWatch(desktop.backup), !.frames = 0,
                                !.mark = desktop.backup.written, !.tape = {},
                                !.recount = FALSE]

Waiting == desktop.phase = "closing" /\ desktop.writer = "none"

ClosingFrame ==
  /\ Waiting
  /\ KeepsWaiting(desktop.watch, desktop.frames)
  /\ \E b \in AfterFrame(desktop.backup) :
       desktop' = [desktop EXCEPT !.backup = b, !.watch = Watched(@, b), !.frames = @ + 1,
                                  !.rewound = @ /\ b.written = desktop.backup.written]

FinalWrite ==
  /\ Waiting
  /\ ~KeepsWaiting(desktop.watch, desktop.frames)
  /\ desktop' = [desktop EXCEPT !.writer = "save"]

(* write_save ended, well or with an error: the loop goes on, and so does  *)
(* the way out, where an error is only logged.                             *)
Ended == IF desktop.phase = "closing" THEN "closed" ELSE desktop.phase

(* fs::write of the backup: truncate, write. *)
WriteSave ==
  /\ desktop.writer = "save"
  /\ \/ desktop' = [desktop EXCEPT !.file = desktop.backup.written, !.writer = "sidecar"]
     \/ \E left \in {desktop.file, Torn} :
          desktop' = [desktop EXCEPT !.file = left, !.writer = "none", !.failed = TRUE,
                                     !.phase = Ended]

(* fs::write of the sidecar; only when both are on file does the loop      *)
(* clear the dirty flag.                                                   *)
WriteSidecar ==
  /\ desktop.writer = "sidecar"
  /\ \/ desktop' = [desktop EXCEPT !.sidecar = TRUE, !.writer = "none", !.failed = FALSE,
                                   !.rewound = FALSE, !.phase = Ended,
                                   !.backup.dirty = @ /\ desktop.phase = "closing"]
     \/ \E left \in {desktop.sidecar, FALSE} :
          desktop' = [desktop EXCEPT !.sidecar = left, !.writer = "none", !.failed = TRUE,
                                     !.phase = Ended]

(* The process is killed, or leaves by an error of the window system, at   *)
(* any moment: what was being written stays as it is.                      *)
Dead == [desktop EXCEPT !.phase = "killed", !.writer = "none", !.tape = {}]

Kill ==
  /\ desktop.phase \in {"live", "closing"}
  /\ \/ desktop' = Dead
     \/ desktop.writer = "save" /\ desktop' = [Dead EXCEPT !.file = Torn]
     \/ desktop.writer = "sidecar" /\ desktop' = [Dead EXCEPT !.sidecar = FALSE]

Next ==
  \/ LiveFrame \/ WarpFrames \/ Seek \/ Close \/ ClosingFrame \/ FinalWrite
  \/ WriteSave \/ WriteSidecar \/ Kill

vars == desktop
Spec == Init /\ [][Next]_vars
-----------------------------------------------------------------------------
TypeOK ==
  LET Backups == [written : 0 .. MaxWritten, gap : 0 .. MaxGap, dirty : BOOLEAN,
                  epochs : BOOLEAN]
  IN  desktop \in [phase : {"live", "closing", "closed", "killed"},
                   backup : Backups, watch : [epoch : 0 .. MaxWritten, quiet : 0 .. Quiet],
                   frames : 0 .. Guard, mark : 0 .. MaxWritten, tape : SUBSET Backups,
                   file : {Torn} \cup 0 .. MaxWritten, sidecar : BOOLEAN,
                   writer : {"none", "save", "sidecar"}, failed : BOOLEAN,
                   rewound : BOOLEAN, recount : BOOLEAN]

(* The file and its sidecar hold the backup. *)
OnFile == desktop.file = desktop.backup.written /\ (desktop.file # 0 => desktop.sidecar)

(* main.rs:406: "Flush a COMPLETE save". No write that ends puts a save on *)
(* file with some of its stores missing, whatever the frames, the fast-    *)
(* forwards and the failed writes before, and however the window is        *)
(* closed; only the final flush gives up, on a game that has stored more   *)
(* than a save meanwhile. It is true of a console that reports its write   *)
(* epoch, once the counter has started afresh after a seek.                *)
CompleteWrite ==
  \/ desktop'.file = Torn
  \/ Whole(desktop'.file)
  \/ desktop.phase = "closing" /\ Settled(desktop'.file, desktop.mark)
FileStep ==
  desktop'.file # desktop.file /\ desktop.backup.epochs /\ ~desktop.recount => CompleteWrite
FilesWhole == [][FileStep]_vars

(* A backup that is not marked dirty is on file with its sidecar, as it    *)
(* stands: neither half a write, of the save or of its sidecar, nor a      *)
(* later store of the game is ever forgotten. A seek may bring back a      *)
(* clean backup the file has moved on from.                                *)
CleanIsOnFile == ~desktop.backup.dirty /\ ~desktop.rewound => OnFile

(* Leaving by the window loses nothing unless the write itself failed.     *)
ExitKeeps == desktop.phase = "closed" /\ ~desktop.failed /\ ~desktop.rewound => OnFile

(* The file is only left in pieces by an error the loop has seen, or by    *)
(* the end of the process.                                                 *)
TornIsKnown == desktop.file = Torn => desktop.failed \/ desktop.phase = "killed"

(* main.rs:406-407: "Flush a COMPLETE save: dirty, and the game hasn't     *)
(* touched the backup for a short while (its save routine finished)". The  *)
(* comment makes no exception of a game that was scrubbed.                 *)
LiveWritesAreWhole ==
  desktop.writer = "sidecar" /\ desktop.phase = "live" /\ desktop.backup.epochs =>
    Whole(desktop.file)
=============================================================================

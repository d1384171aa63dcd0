------------------------------ MODULE SaveRules ------------------------------
(***************************************************************************)
(* When a host may write the battery save to its file: the rules shared by *)
(* the desktop window loop (crates/rewinds/src/main.rs) and the iOS        *)
(* session (EmulatorSession.swift, SaveStore.swift).                       *)
(*                                                                         *)
(* A backup is [written, gap, dirty, epochs]: how many stores the game has *)
(* made to the chip, how many frames it has let pass since the last one,   *)
(* the dirty flag, and whether the console counts its stores for the host  *)
(* (the DS does, the GBA reports a constant). A save of the game is        *)
(* SaveLength stores; the content is whole between two saves.              *)
(***************************************************************************)
EXTENDS Integers, FiniteSetsExt

CONSTANTS
  Quiet,       (* SAVE_QUIESCENT_FRAMES / saveQuiescentFrames: 20           *)
  Guard,       (* frames a final flush waits at most: 600                   *)
  SaveLength,  (* stores of one save of the game                            *)
  MaxGap,      (* frames a game lets pass between two stores of one save    *)
  MaxWritten   (* bound of the model: stores to the chip, in whole saves   *)

(* The rule is a heuristic: it is right for games that pause less than     *)
(* Quiet frames inside a save, and save in less than Guard frames.         *)
ASSUME SaveRulesAssumption ==
  /\ Quiet \in Nat \ {0} /\ Guard \in Nat /\ SaveLength \in Nat \ {0}
  /\ MaxGap \in Nat /\ MaxGap < Quiet
  /\ SaveLength * (MaxGap + 1) + Quiet <= Guard
  /\ MaxWritten \in Nat /\ MaxWritten % SaveLength = 0

NewBackup(epochs) == [written |-> 0, gap |-> 0, dirty |-> FALSE, epochs |-> epochs]

Whole(written) == written % SaveLength = 0

(* The backup after a frame in which the game makes no store, or one.      *)
AfterFrame(b) ==
  {[b EXCEPT !.gap = Min({@ + 1, MaxGap})] :
     x \in IF Whole(b.written) \/ b.gap < MaxGap THEN {0} ELSE {}}
  \cup
  {[b EXCEPT !.written = @ + 1, !.gap = 0, !.dirty = TRUE] :
     x \in IF b.written < MaxWritten THEN {0} ELSE {}}

(* save_write_epoch. *)
Epoch(b) == IF b.epochs THEN b.written ELSE 0

NewWatch(b) == [epoch |-> Epoch(b), quiet |-> 0]

(* Mutant: the counter is not restarted by a store. *)
WatchedNoReset(w, b) ==
  [epoch |-> Epoch(b), quiet |-> Min({w.quiet + 1, Quiet})]

(* The quiescence counter after a frame (saturating at Quiet).             *)
Watched(w, b) ==
  [epoch |-> Epoch(b),
   quiet |-> IF Epoch(b) # w.epoch THEN 0 ELSE Min({w.quiet + 1, Quiet})]

(* The final flush goes on for one more frame.                             *)
KeepsWaiting(w, frames) == w.quiet < Quiet /\ frames < Guard

(* What a host may put on file: a whole save, or what it finds of a game   *)
(* that does not come to rest, once that has stored as much as a whole     *)
(* save since the flush began to wait, at `mark` stores.                   *)
Settled(written, mark) == Whole(written) \/ written - mark >= SaveLength

(* Mutant: the flag is cleared though the write failed. *)
FlushedAnyway(b, file) == {<<[b EXCEPT !.dirty = FALSE], b.written>>,
                           <<[b EXCEPT !.dirty = FALSE], file>>}

(* flushIfDirty of the iOS session: <<backup, file>>.  SaveStore writes    *)
(* the file whole or, on an error, not at all (Data.write, .atomic); the   *)
(* desktop's write_save does not, see DesktopSave.                         *)
Flushed(b, file) ==
  IF ~b.dirty THEN {<<b, file>>}
  ELSE {<<[b EXCEPT !.dirty = FALSE], b.written>>, <<b, file>>}
=============================================================================

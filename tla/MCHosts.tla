------------------------------- MODULE MCHosts -------------------------------
(***************************************************************************)
(* The hosts for TLC: the rewind timeline, the desktop's saves, the iOS    *)
(* session once with its saves and pauses and once with its link, the GBA  *)
(* run loop under a host that slices it, and the ring to the host's sound  *)
(* thread.  `unit` says which of them a behaviour is about; `dev` is the   *)
(* state of all but the timeline.                                          *)
(***************************************************************************)
EXTENDS RewindTimeline, SaveRules

CONSTANTS
  Units,           (* the units a run is about *)
  DeskWritten,     (* MaxWritten of the desktop *)
  Connections,     (* the connections of the linked session *)
  Slice, Period,   (* the run loop: a call's cycles, and a frame's *)
  Grain, Base,     (* the ring: parts of a source frame, and those of an output frame *)
  RingCapacities, Chunks, Wants,
  RingFrames       (* MaxFrames of the ring *)

(* A slice is shorter than a frame by more than an instruction runs over   *)
(* (SLICE_CYCLES is 512); the ring holds whole stereo frames and is asked  *)
(* for whole ones; the adjustment of the ratio leaves a step between two   *)
(* output frames.                                                          *)
ASSUME HostsAssumption ==
  /\ DeskWritten \in Nat /\ DeskWritten % SaveLength = 0
  /\ "none" \notin Connections
  /\ Slice \in Nat \ {0} /\ Period \in Nat /\ Slice + 1 < Period
  /\ Grain \in Nat \ {0} /\ Base \in Nat /\ Base >= 2
  /\ \A n \in RingCapacities \cup Wants : n \in Nat /\ n % 2 = 0
  /\ Chunks \subseteq Nat /\ RingFrames \in Nat

VARIABLES unit, dev

Desktop == INSTANCE DesktopSave WITH desktop <- dev, MaxWritten <- DeskWritten
Saving == INSTANCE EmulatorSession WITH
  session <- dev, Connections <- {}, Reasons <- {"lifecycle", "menu"}, Counting <- BOOLEAN
Linking == INSTANCE EmulatorSession WITH
  session <- dev, Reasons <- {}, Counting <- {TRUE}, MaxGap <- 0, Quiet <- 1, MaxWritten <- 0
Loop == INSTANCE GbaRunLoop WITH loop <- dev
Ring == INSTANCE AudioRing WITH
  audio <- dev, Capacities <- RingCapacities, MaxFrames <- RingFrames

Parked ==
  /\ emu = [played |-> <<>>, keypad |-> NoInput, lastInput |-> NoInput]
  /\ timeline = NewTimeline(1, 1) /\ scrubbing = FALSE /\ story = <<>>

HostsInit ==
  /\ unit \in Units
  /\ \/ unit = "rewind" /\ Init /\ dev = <<>>
     \/ unit = "desktop" /\ Parked /\ Desktop!Init
     \/ unit = "saving" /\ Parked /\ Saving!Init
     \/ unit = "linking" /\ Parked /\ Linking!Init
     \/ unit = "loop" /\ Parked /\ Loop!Init
     \/ unit = "ring" /\ Parked /\ Ring!Init

Still == UNCHANGED <<vars, unit>>

HostsNext ==
  \/ unit = "rewind" /\ NextWindow /\ UNCHANGED <<unit, dev>>
  \/ unit = "desktop" /\ Desktop!Next /\ Still
  \/ unit = "saving" /\ Saving!Next /\ Still
  \/ unit = "linking" /\ Linking!Next /\ Still
  \/ unit = "loop" /\ Loop!Next /\ Still
  \/ unit = "ring" /\ Ring!Next /\ Still

HostsSpec ==
  /\ HostsInit /\ [][HostsNext]_<<vars, unit, dev>>
  /\ WF_dev(unit = "saving" /\ Saving!EmulationThread /\ Still)
  /\ WF_dev(unit = "saving" /\ Saving!LeavingThread /\ Still)
  /\ WF_dev(unit = "linking" /\ Linking!EmulationThread /\ Still)
  /\ WF_dev(unit = "linking" /\ Linking!LeavingThread /\ Still)
  /\ WF_dev(unit = "loop" /\ Loop!GoesOn /\ Still)
  /\ WF_dev(unit = "loop" /\ Loop!Deliver /\ Still)
-----------------------------------------------------------------------------
(* The state of every unit is well formed.                                 *)
HostsTypeOK ==
  /\ unit = "rewind" => TypeOK
  /\ unit = "desktop" => Desktop!TypeOK
  /\ unit = "saving" => Saving!TypeOK
  /\ unit = "linking" => Linking!TypeOK
  /\ unit = "loop" => Loop!TypeOK
  /\ unit = "ring" => Ring!TypeOK

(* Neither host puts half a save of the game on file or forgets a store:   *)
(* what is not marked dirty is on file, through writes that fail or stop   *)
(* half-way, fast-forwards, seeks and whatever way the program is left;    *)
(* the desktop's file is in pieces only after an error or a kill; and the  *)
(* game has finished its save before the lid of the console goes down.     *)
FilesAreKept ==
  /\ unit = "desktop" => Desktop!CleanIsOnFile /\ Desktop!ExitKeeps /\ Desktop!TornIsKnown
  /\ unit = "saving" => Saving!CleanIsOnFile
FlushStep ==
  /\ unit = "desktop" => Desktop!FileStep
  /\ unit = "saving" => Saving!FileStep /\ Saving!LidStep
FilesWhole == [][FilesAreKept' /\ FlushStep]_<<vars, unit, dev>>

(* No reason to pause is lifted by another's end: one late tick at most.   *)
PausesHold == unit = "saving" => Saving!PausesHold

(* A tick drives the link last asked for, and the core knows that link.    *)
LinkAsAsked == unit = "linking" => Linking!LinkAsAsked

(* The teardown of a session comes to its end.                             *)
TeardownEnds ==
  /\ (unit = "saving" /\ Saving!Leaving) ~> (unit = "saving" /\ Saving!Gone)
  /\ (unit = "linking" /\ Linking!Leaving) ~> (unit = "linking" /\ Linking!Gone)

(* What the machine made reaches its host: every frame is reported by the  *)
(* call that ends it, every sample is heard in order and in its pair.      *)
OutputReachesHost ==
  /\ unit = "loop" => Loop!FramesReported
  /\ unit = "ring" => Ring!SoundIsUnbroken

(* A sleeping CPU that may wake does.                                      *)
SleepersWake ==
  (unit = "loop" /\ Loop!MayWake) ~> (unit = "loop" /\ ~Loop!LowPower)
=============================================================================

SPECIFICATION HostsSpec
CONSTANTS
  Units = {"rewind", "desktop", "saving", "linking", "loop", "ring"}
  Inputs = {"none", "a"}
  NoInput = "none"
  Intervals = {1, 2, 3}
  Capacities = {1, 2}
  MaxFrame = 5
  Quiet = 2
  Guard = 6
  SaveLength = 2
  MaxGap = 1
  MaxWritten = 2
  DeskWritten = 6
  Connections = {"c1", "c2"}
  Slice = 2
  Period = 4
  Grain = 5
  Base = 3
  RingCapacities = {4, 6}
  Chunks = {1, 2}
  Wants = {2, 4}
  RingFrames = 5
INVARIANTS
  HostsTypeOK
  SeekExact
  TimelineSound
  PausesHold
  LinkAsAsked
  OutputReachesHost
PROPERTIES
  FilesWhole
  TeardownEnds
  SleepersWake
CHECK_DEADLOCK FALSE

SPECIFICATION Spec
CONSTANTS
  NTimers = 2
  Wrap = 2
  Shifts = {0}
  GenMod = 7
  MaxFetch = 2
  MaxStore = 1
  MaxTime = 6
PROPERTY NeverScheduledInPast
CHECK_DEADLOCK FALSE

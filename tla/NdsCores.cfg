SPECIFICATION Spec
CONSTANTS
  CrossSources = {"ipc"}
  DeviceSources = {"timer"}
  MaxCost = 1
  MaxDelay = 1
  MaxQueue = 1
  MaxTime = 5
INVARIANTS
  TypeOK
  BarrierReached
PROPERTIES
  InstructionsInOrder
  DeliveredAfterRaise
  WokenAtOnce
CHECK_DEADLOCK FALSE

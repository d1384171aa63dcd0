SPECIFICATION FairSpec
CONSTANTS
  MaxTime = 3
  MaxEvents = 4
INVARIANTS
  TypeOK
  DispatchOrder
  Conserved
  LateByOneInstruction
PROPERTIES
  EveryEventFires
  ImplementsTimeline
CHECK_DEADLOCK FALSE

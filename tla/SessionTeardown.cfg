SPECIFICATION Spec
CONSTANTS
  Connections = {}
  Reasons = {"menu"}
  Counting = {TRUE}
  Quiet = 2
  Guard = 6
  SaveLength = 2
  MaxGap = 1
  MaxWritten = 2
INVARIANTS
  CoreIsOurs
CHECK_DEADLOCK FALSE

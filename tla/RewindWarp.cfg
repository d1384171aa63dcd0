SPECIFICATION WarpSpec
CONSTANTS
  Inputs = {"none", "a"}
  NoInput = "none"
  Intervals = {1, 2, 3}
  Capacities = {1, 2}
  MaxFrame = 5
INVARIANTS
  SeekExact
CHECK_DEADLOCK FALSE

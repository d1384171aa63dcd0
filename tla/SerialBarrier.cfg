SPECIFICATION Spec
CONSTANTS
  Halfwords = {0}
  NoData = 65535
  Modes = {"Multiplayer"}
  Count = 2
  RoundMod = 3
  Reconciles = TRUE
  MaxSessions = 2
INVARIANTS
  BarrierHasTransfer

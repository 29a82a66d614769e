CONSTANTS
  MaxTime = 4
  Tolerance = 1
  Stores <- UpToTwo
SPECIFICATION YieldSpec
INVARIANTS
  TilesWindow
CHECK_DEADLOCK FALSE

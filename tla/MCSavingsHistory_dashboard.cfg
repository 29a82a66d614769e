CONSTANTS
  a = a
  b = b
  MaxBlock = 3
  HourLength = 2
  DayLength = 4
  History <- ThreeBlocks
  Pending <- PendingYield
  Broken = {}
  Windows <- TwoWindows
  Lanes = {a, b}
  Requests <- ScanAndFlows
  MaxStarts = 2
  OwnChunk = 2
  ChunkSizes <- Providers2
  Free = free
  Ghost = ghost
SPECIFICATION Spec
INVARIANTS
  DashboardFlowsExact
CHECK_DEADLOCK FALSE

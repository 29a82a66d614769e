CONSTANTS
  a = a
  b = b
  MaxBlock = 3
  HourLength = 2
  DayLength = 4
  History <- ThreeBlocks
  Pending <- PendingYield
  Broken = {}
  Windows <- TwoWindows
  Lanes = {a, b}
  Requests <- ScanAndCopy
  MaxStarts = 2
  OwnChunk = 2
  ChunkSizes <- Providers2
  Free = free
  Ghost = ghost
SPECIFICATION FairSpec
INVARIANTS
  EvidenceBehindCoverage
  EconomicMatchesFlows
PROPERTIES
  ImplementsExactIntervals
  ScansGoForward
  LanesReturn
CHECK_DEADLOCK FALSE

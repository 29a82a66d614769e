CONSTANTS
  MaxBlock = 4
  MaxRows = 4
  Holders = {a, b}
  Zero = zero
  Transferred = {0, 1}
  Histories <- UpToFour
  Base = 4
  Amounts = {3, 8}
  Rates = {0, 2}
  Waits = {0, 2}
  LogGaps = {0, 2}
  LastBlock = 2
  MaxEvents = 6
  MaxLost = 1
  MaxTime = 5
  Tolerance = 1
  Stores <- UpToThree
SPECIFICATION MCSpec
INVARIANTS
  GateIsExact
  GapsAreMaximal
  BalancesAreNets
  HoldersCountedOnce
  RefusedIfOverdrawn
  VerifiedMeansEarned
  TrueHistoryVerified
  TrueHistoryHasNoDelta
  NothingCountedTwice
  CompleteMeansCovered
CHECK_DEADLOCK FALSE

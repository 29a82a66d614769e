CONSTANTS
  p = p
  q = q
  a = a
  b = b
  Chains = {a, b}
  SavingsChains = {a, b}
  SupplyChains = {a, b}
  MaxAge = 1
  Horizon = 2
  Answers <- OneLags
  Boundaries <- Boundary
  Processes = {p, q}
  Roles <- TwoWorkers
  LockAttempts = 2
  Free = free
  Ghost = ghost
  Urls <- TwoUrls
  Finalized <- Finality
  Confirmed <- Lagged
  Skew = 0
  LifetimeChains = {b}
  LifetimeYields = 1
  Callers = {p, q}
SPECIFICATION MCSpec
INVARIANTS
  TypeOK
  OneWorkerCycles
  SumsComplete
  SupplyChainsNamed
  SupplyAligned
  AvailableMeansWhole
PROPERTIES
  SumsGoForward
  KeepsPublishing

CONSTANTS
  a = a
  b = b
  l1 = l1
  r1 = r1
  Holders = {a, b}
  Zero = zero
  History <- FourBlocks
  Deploy = 1
  MaxBlock = 4
  Lanes = {l1}
  Replayers = {}
  Caps = {2}
  Vault = a
  VaultEvents <- TheVaultSays
  Transaction <- Hashes
  Asked <- AskedRanges
  Circumstances <- Situations
  Rounding = 0
  GoalBlock = 2
  CoverageKind = "lifetime"
SPECIFICATION MCSpec
INVARIANT
  CompleteMeansPublished

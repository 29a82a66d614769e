CONSTANTS
  MaxBlock = 4
  StartHead = 3
  ReorgDepth = 2
  Ingesters = {a}
  Requests <- FinalityWindows
  Signalled = {a}
  LogBlocks = {1, 2, 4}
  Decodable = {1, 4}
  FinalityLag = 0
  FinalizedTag = TRUE
  ChunkSize = 3
  FetchConcurrency = 2
  AnchorEvery = 2
  MaxRetries = 1
  RateLimitsForever = FALSE
  ProviderLimit = 2
  RpcErrors = {"range", "rate-limit", "transient", "fatal", "quota"}
  AdvertisesLimit = TRUE
SPECIFICATION Spec
INVARIANTS
  EvidenceBehindCoverage
  CheckpointBacked

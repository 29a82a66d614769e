CONSTANTS
  MaxBlock = 4
  StartHead = 3
  ReorgDepth = 1
  Ingesters = {a}
  Workers = {a}
  Requests = {}
  Signalled = {a}
  LogBlocks = {2}
  Decodable = {2}
  FinalityLag = 1
  FinalizedTag = FALSE
  ChunkSize = 2
  FetchConcurrency = 2
  AnchorEvery = 2
  MaxRetries = 0
  RateLimitsForever = TRUE
  ProviderLimit = 1
  RpcErrors = {"rate-limit", "quota"}
  AdvertisesLimit = FALSE
  WindowLength = 2
  LockAttempts = 2
  MaxCrashes = 1
SPECIFICATION FairWorkerSpec
PROPERTY
  WorkerReturns
CHECK_DEADLOCK FALSE

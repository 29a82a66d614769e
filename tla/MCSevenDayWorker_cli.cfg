CONSTANTS
  MaxBlock = 4
  StartHead = 3
  ReorgDepth = 1
  Ingesters = {a, b}
  Workers = {a}
  Requests <- CLIRequests
  Signalled = {}
  LogBlocks = {2}
  Decodable = {2}
  FinalityLag = 1
  FinalizedTag = FALSE
  ChunkSize = 2
  FetchConcurrency = 2
  AnchorEvery = 2
  MaxRetries = 0
  RateLimitsForever = FALSE
  ProviderLimit = 1
  RpcErrors = {"transient"}
  AdvertisesLimit = FALSE
  WindowLength = 2
  LockAttempts = 2
  MaxCrashes = 0
SPECIFICATION WorkerSpec
INVARIANT
  AtMostOneScanner

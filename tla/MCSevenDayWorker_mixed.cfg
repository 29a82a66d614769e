CONSTANTS
  MaxBlock = 3
  StartHead = 3
  ReorgDepth = 0
  Ingesters = {a, b}
  Workers = {a}
  Requests <- CLIRequests
  Signalled = {b}
  LogBlocks = {1, 3}
  Decodable = {1}
  FinalityLag = 0
  FinalizedTag = FALSE
  ChunkSize = 2
  FetchConcurrency = 2
  AnchorEvery = 2
  MaxRetries = 0
  RateLimitsForever = FALSE
  ProviderLimit = 1
  RpcErrors = {"range"}
  AdvertisesLimit = FALSE
  WindowLength = 3
  LockAttempts = 2
  MaxCrashes = 0
SPECIFICATION WorkerSpec
PROPERTY
  ImplementsEvidenceLog

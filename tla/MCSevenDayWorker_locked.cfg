CONSTANTS
  MaxBlock = 4
  StartHead = 3
  ReorgDepth = 0
  Ingesters = {a, b}
  Workers = {a, b}
  Requests = {}
  Signalled = {}
  LogBlocks = {2}
  Decodable = {2}
  FinalityLag = 0
  FinalizedTag = FALSE
  ChunkSize = 2
  FetchConcurrency = 2
  AnchorEvery = 2
  MaxRetries = 0
  RateLimitsForever = FALSE
  ProviderLimit = 2
  RpcErrors = {"range"}
  AdvertisesLimit = FALSE
  WindowLength = 3
  LockAttempts = 2
  MaxCrashes = 2
SPECIFICATION WorkerSpec
INVARIANTS
  WorkerTypeOK
  AtMostOneScanner
  InterruptedMeansStopped
  NoBlockScannedTwice
  FinishedMeansCovered
PROPERTY
  CheckpointAdvances
CHECK_DEADLOCK FALSE

SPECIFICATION HostSpec
CONSTANTS
  MirrorPaths = {"p", "q"}
  Readers = {"r"}
  Entries = 2
  EntryBytes = 2
  MaxFileBytes = 3
  StoredFiles <- mcStored
  MaxUpdates <- mcUpdates
  MaxAttempts = 2
  MaxKills = 1
  KillAnywhere = FALSE
  AttachIds = {1, 2}
  MaxStarts = 2
  restartOption = TRUE
  MaxOwnerCalls = 2
  MAX_WORKERS = 2
  MaxSpawned = 3
  PModules = {"m"}
  PSchemas = {"s"}
  Uninitialised = {0, 5}
  MaxCalls = 2
  Procs = {1, 2, 3}
  MAX_PUBLISH_ATTEMPTS = 4
  MaxDamages = 1
  MaxDeaths = 1
  Builds = {1, 2}
  maxBytes = 1
  MaxEdits = 1
  MaxRounds = 3
  MaxCacheDeaths = 1
  CtxKeys = {"x", "y"}
  CtxCalls = {1, 2, 3}
  MaxCtxFaults = 1
  RequestKinds = {"tcp", "tls", "udp", "ws", "publish", "subscribe"}
  MaxPieces = 6
  AdapterIds = {"a", "b"}
  ProviderKinds = {"terrain", "imagery"}
  Costs = {0, 1}
  DeclaredCost <- mcDeclared
  LaterIds = {"a"}
  PaCalls = {1, 2}
  MaxRegistrations = 2
  FsThreads = {"a", "b"}
  FsInstances = {"i"}
  FsInstanceOf <- mcFsInstanceOf
  FsStored = {"p"}
  FsOpens <- mcFsOpens
  maxHandles = 1
  GenRange = 2
  MaxFsCalls = 4
  MaxRevokes = 1
CHECK_DEADLOCK FALSE
INVARIANTS
  
  
  AttachmentsHold
  RunningIsKept
  
  
  HandedOutRootStays
  
  KeptUnlessReloaded
  
  
  FdIsOfItsFile
  RevokedIsQuiet

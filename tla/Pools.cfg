SPECIFICATION PoolsSpec
CONSTANTS
  Capacity = 2
  Growable = TRUE
  MessageSlots = {}
  CannotBlock = {}
  SpawnWaits = TRUE
  MortalSlots = {0}
  MayTerminate = FALSE
  MaxTid = 2
  MaxCalls = 3
CHECK_DEADLOCK FALSE
INVARIANTS
  TypeOK
  ClaimIsExclusive
  ThreadRunsOnce
  SpawnedThreadIsKept

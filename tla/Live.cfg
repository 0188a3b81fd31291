SPECIFICATION LiveSpec
CONSTANTS
  Capacity = 1
  Growable = TRUE
  MessageSlots = {}
  CannotBlock = {}
  SpawnWaits = TRUE
  MortalSlots = {}
  MayTerminate = FALSE
  MaxTid = 3
  MaxCalls = 4
  MaxCommands = 2
  MaxHostcalls = 2
  MaxTimeouts = 2
  MayDestroy = TRUE
CHECK_DEADLOCK FALSE
INVARIANTS
  CleanAnswerIsOwn
PROPERTIES
  SpawnReturns
  AssignedRuns
  CommandSettles

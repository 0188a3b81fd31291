SPECIFICATION Spec
CONSTANTS
  Capacity = 2
  Growable = TRUE
  MessageSlots = {}
  CannotBlock = {}
  SpawnWaits = TRUE
  MortalSlots = {}
  MayTerminate = FALSE
  MaxTid = 1
  MaxCalls = 1
CHECK_DEADLOCK FALSE
PROPERTIES
  RetiredIsFinal

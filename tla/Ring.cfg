SPECIFICATION FairSpec
CONSTANTS
  c1 = c1
  c2 = c2
  c3 = c3
  Clients = {c1, c2}
  AsyncClients = {c2}
  InstanceOf <- OneInstance
  SlotCount = 1
  MaxRequests = 2
  MaxDeaths = 1
  Restart = TRUE
  MortalClients = {c1, c2}
  MayReclaim = TRUE
CHECK_DEADLOCK FALSE
INVARIANTS
  AnswerIsOwn
  SlotIsOwned
PROPERTIES
  KeepsLedger
  RequestReturns
  SlotsComeBack

SPECIFICATION LingerSpec
CONSTANTS
  c1 = c1
  c2 = c2
  c3 = c3
  Clients = {c1, c2}
  AsyncClients <- NoClients
  InstanceOf <- TwoInstances
  SlotCount = 1
  MaxRequests = 2
  MaxDeaths = 1
  Restart = TRUE
  MortalClients <- NoClients
  MayReclaim = FALSE
INVARIANTS
  AnswerIsOwn
CHECK_DEADLOCK FALSE

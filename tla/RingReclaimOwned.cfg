SPECIFICATION Spec
CONSTANTS
  c1 = c1
  c2 = c2
  c3 = c3
  Clients = {c1, c2, c3}
  AsyncClients <- NoClients
  InstanceOf <- TwoInstances
  SlotCount = 2
  MaxRequests = 1
  MaxDeaths = 0
  Restart = TRUE
  MortalClients = {c1}
  MayReclaim = TRUE
INVARIANTS
  SlotIsOwned
CHECK_DEADLOCK FALSE

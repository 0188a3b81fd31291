SPECIFICATION Spec
CONSTANTS
  c1 = c1
  c3 = c3
  Clients = {c1, c3}
  Instances = {1}
  InstanceOf <- OneOfEach
  Paths = {"f"}
  Menu <- DeferringMenu
  Revocable = {1}
  MaxHandle = 2
  MaxChunks = 2
  Budget <- TwoRequests
  MaxEntries = 4
  MaxPreopens = 1
  MayStop = FALSE
INVARIANTS
  OneFilePerPath
CHECK_DEADLOCK FALSE

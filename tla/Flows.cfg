SPECIFICATION FlowsSpec
CONSTANTS
  NodeCount = 3
  LinkedNodes = {0}
  HandledNodes = {1}
  FlowEdges <- mcFlowEdges
  TriggerBindings <- mcBindings
  RequiredPorts <- mcRequired
  kMaxInvocationFrames = 2
  frameBudget = 1
  GenerationRange = 4
  TriggerFrames <- mcTriggerFrames
  OutputLists <- mcOutputLists
  Drains = {d1, d2}
  MayReset = TRUE
  MaxEnqueues = 2
  MaxBegins = 4
  JsNodes <- mcJsNodes
  JsEdges <- mcJsEdges
  JsBindings <- mcJsBindings
  JsOutputs <- mcJsOutputs
  HasSink = TRUE
  maxInvocations = 2
  JsDrains = {1, 2}
  MaxFrames = 3
  Timers = {"t", "u"}
  EnabledTimers = {"t"}
  maxRunHistory = 2
  MaxIntervals = 2
  MaxRuns = 4
  StreamFrames = 3
  BadSize = {3}
  BadIdent = {}
  maxFramesPerInvoke = 2
  PushCalls = {1, 2}
  MayOverlap = TRUE
  IngestFrames = 3
  Invalid = {3}
  Pushes = {1, 2, 3}
  EventComponents = {1, 2}
  Scans <- mcScans
  Signals <- mcSignals
  Capacities = {1, 3}
  SCAN_BATCH = 3
  MAX_PENDING = 3
  MAX_HITS = 3
  MaxEvalFailures = 1
  HeapBlocks = 5
  BlockBytes = 4
  kInvokeAllocAlignment = 2
  kInvokeArenaAlignment = 2
  MaxArena = 3
  kMethodTable <- mcMethods
  IgPushes <- mcPushes
  MaxOutputs = 2
  MaxPayloads = 2
  DiRequests <- mcRequests
  OwnSize = 2
  MaxInvokes = 2
  MaxHostSteps = 4
  MaxGeneration = 2
CHECK_DEADLOCK FALSE
INVARIANTS
  PassedOverBound
  AwaitedInvocationIsOpen
  BookkeepingAgrees
  FanOutIsAllOrNothing
  FramesArriveInOrder
  RunsAreSerialized
  
  RowsAreTheStream
  HitsAreTheCrossings
  FramesAreReadable

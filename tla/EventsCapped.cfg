SPECIFICATION EventSpec
CONSTANTS
  EventComponents = {1, 2}
  Scans <- mcScans
  Signals <- mcSignals
  Capacities = {1, 3}
  SCAN_BATCH = 3
  MAX_PENDING = 3
  MAX_HITS = 3
  MaxEvalFailures = 1
INVARIANTS
  FirstEventsInScanOrder
CHECK_DEADLOCK FALSE

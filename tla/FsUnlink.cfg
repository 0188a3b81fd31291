SPECIFICATION FsSpec
CONSTANTS
  FsThreads = {"a", "b"}
  FsInstances = {"i"}
  FsInstanceOf <- mcFsInstanceOf
  FsStored = {"p"}
  FsOpens <- mcFsOpens
  maxHandles = 2
  GenRange = 2
  MaxFsCalls = 3
  MaxRevokes = 0
CHECK_DEADLOCK FALSE
PROPERTIES
  UnlinkSparesLive

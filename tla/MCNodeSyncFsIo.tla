--------------------------- MODULE MCNodeSyncFsIo ---------------------------
(* Instances of NodeSyncFsIo for TLC.                                      *)
EXTENDS NodeSyncFsIo

\* One thread of a revocable instance and one anonymous.
mcFsInstanceOf == [t \in FsThreads |-> IF t = "b" THEN "anonymous" ELSE "i"]
mcFsOpens ==
  {[path |-> "p", flags |-> {"DELETE_ON_CLOSE"}], [path |-> "q", flags |-> {"CREATE"}],
   [path |-> "p", flags |-> {"UNLINK_IF_UNUSED"}], [path |-> "q", flags |-> {"UNLINK"}],
   [path |-> "q", flags |-> {"PROBE"}]}
=============================================================================

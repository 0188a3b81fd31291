------------------------------- MODULE MCPools -------------------------------
(* The thread pool under its two hosts, for TLC.  The constants describe Node's *)
(* pool; Browser is the same pool as the browser host drives it: no spawner     *)
(* starts a worker, the owner cannot block, one slot's worker script predates   *)
(* the pool protocol, and the host may terminate the pool.                      *)
EXTENDS WasiThreadPool

VARIABLE host

Browser ==
  INSTANCE WasiThreadPool WITH
    Growable <- FALSE, MessageSlots <- {1}, CannotBlock <- {Owner}, MayTerminate <- TRUE

PoolsInit ==
  \/ host = "node" /\ Init
  \/ host = "browser" /\ Browser!Init

PoolsNext ==
  \/ host = "node" /\ Next /\ UNCHANGED host
  \/ host = "browser" /\ Browser!Next /\ UNCHANGED host

PoolsSpec == PoolsInit /\ [][PoolsNext]_<<host, vars>>

=============================================================================

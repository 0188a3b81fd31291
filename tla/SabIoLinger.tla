---------------------------- MODULE SabIoLinger -----------------------------
(***************************************************************************)
(* The ring when terminate() returns before the worker's thread has        *)
(* stopped.  handleDeath does not await it: the sweep, the clients and the *)
(* dying worker run side by side until the thread ends.                    *)
(***************************************************************************)
EXTENDS SabIoChannel

\* handleDeath of a worker that is still running.
KillLingering ==
  /\ sup = "watch" /\ srv = "run" /\ deaths < MaxDeaths
  /\ sup' = "sweep" /\ sat' = 0 /\ deaths' = deaths + 1
  /\ srv' = "dying"
  /\ UNCHANGED <<words, clientVars, claimed, job, completeVars, reclaimVars,
                 executed>>

\* The thread that terminate() was called on stops.
ServerStops ==
  /\ srv = "dying"
  /\ srv' = "down"
  /\ Forget
  /\ UNCHANGED <<words, clientVars, cslot, cstatus, cseq, supVars, reclaimVars,
                 executed>>

LingerNext == Next \/ KillLingering \/ ServerStops

LingerSpec == Init /\ [][LingerNext]_vars
=============================================================================

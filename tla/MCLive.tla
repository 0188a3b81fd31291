------------------------------- MODULE MCLive -------------------------------
(* What must eventually happen in the thread pool and in the worker harness,   *)
(* for TLC.  The two share nothing: part names the one that runs.              *)
EXTENDS WasiThreadPool, WorkerHarness

VARIABLE part

LiveInit == part \in {"pool", "harness"} /\ Init /\ HarnessInit

LiveNext ==
  \/ part = "pool" /\ Next /\ UNCHANGED <<part, harnessVars>>
  \/ part = "harness" /\ HarnessNext /\ UNCHANGED <<part, vars>>

\* Threads run, messages are taken and clocks advance.  Nothing forces a guest
\* thread to return, a worker to die, the host to terminate the pool, or a host
\* operation that a guest waits for to settle.
LiveSpec ==
  /\ LiveInit /\ [][LiveNext]_<<part, vars, harnessVars>>
  /\ \A t \in Threads :
       /\ WF_vars(part = "pool" /\ Tick(t))
       /\ WF_vars(part = "pool" /\ bumpGeneration(t))
       /\ WF_vars(part = "pool" /\ (Claiming(t) \/ Assigning(t)))
  /\ \A s \in Slots : WF_vars(part = "pool" /\ Serving(s))
  /\ WF_harnessVars(part = "harness" /\ WorkerStep)
  /\ WF_harnessVars(part = "harness" /\ HostStep)
=============================================================================

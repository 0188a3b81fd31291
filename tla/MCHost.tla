------------------------------- MODULE MCHost -------------------------------
(* The host's workers, processes and services, for TLC.  They share nothing,   *)
(* so one run checks them side by side: part names the one that runs, and the  *)
(* others stay in an initial state.                                            *)
EXTENDS SabIoMirror, IoSupervisor, WasiRunner, RuntimeHostProcess, EmceptionRoot,
        CompileCache, ContextStore, HostRequests, ProviderAccess, MCNodeSyncFsIo

VARIABLE part

hostPartVars == <<part, mirrorVars, supVars, rVars, pVars, eVars, cVars, ctxVars, reqVars, paVars, fsVars>>

\* The mirrored files: the first is there at the start and changes while it is
\* read, the second is new.
mcStored == [p |-> <<9>>, q |-> Absent]
mcUpdates == [p |-> 2, q |-> 1]

\* What the adapters declare their results to cost.
mcDeclared == [id \in AdapterIds |-> IF id = "b" THEN 1 ELSE 0]

AnyRequest == [kind |-> "udp", timed |-> FALSE, expects |-> TRUE, blob |-> FALSE]

HostInit ==
  /\ part \in {"mirror", "supervisor", "runner", "process", "root", "cache", "context",
               "request", "provider", "files"}
  /\ MirrorInit /\ SupInit /\ RInit /\ PInit /\ EInit /\ CInit /\ CtxInit /\ PaInit /\ FsInit
  /\ ReqInit /\ (part # "request" => req = AnyRequest)

HostNext ==
  \/ /\ part = "mirror" /\ MirrorNext
     /\ UNCHANGED <<part, supVars, rVars, pVars, eVars, cVars, ctxVars, reqVars, paVars, fsVars>>
  \/ /\ part = "supervisor" /\ SupNext
     /\ UNCHANGED <<part, mirrorVars, rVars, pVars, eVars, cVars, ctxVars, reqVars, paVars, fsVars>>
  \/ /\ part = "runner" /\ RNext
     /\ UNCHANGED <<part, mirrorVars, supVars, pVars, eVars, cVars, ctxVars, reqVars, paVars, fsVars>>
  \/ /\ part = "process" /\ PNext
     /\ UNCHANGED <<part, mirrorVars, supVars, rVars, eVars, cVars, ctxVars, reqVars, paVars, fsVars>>
  \/ /\ part = "root" /\ ENext
     /\ UNCHANGED <<part, mirrorVars, supVars, rVars, pVars, cVars, ctxVars, reqVars, paVars, fsVars>>
  \/ /\ part = "cache" /\ CNext
     /\ UNCHANGED <<part, mirrorVars, supVars, rVars, pVars, eVars, ctxVars, reqVars, paVars, fsVars>>
  \/ /\ part = "context" /\ CtxNext
     /\ UNCHANGED <<part, mirrorVars, supVars, rVars, pVars, eVars, cVars, reqVars, paVars, fsVars>>
  \/ /\ part = "request" /\ ReqNext
     /\ UNCHANGED <<part, mirrorVars, supVars, rVars, pVars, eVars, cVars, ctxVars, paVars, fsVars>>
  \/ /\ part = "provider" /\ PaNext
     /\ UNCHANGED <<part, mirrorVars, supVars, rVars, pVars, eVars, cVars, ctxVars, reqVars, fsVars>>
  \/ /\ part = "files" /\ FsNext
     /\ UNCHANGED <<part, mirrorVars, supVars, rVars, pVars, eVars, cVars, ctxVars, reqVars, paVars>>

HostSpec == HostInit /\ [][HostNext]_hostPartVars
=============================================================================

---------------------------- MODULE IoSupervisor ----------------------------
(* The controller of one FlatSQL I/O worker (flatsqlIoWorkers.js) and the    *)
(* worker's message loop (opfsIoWorker.mjs): start, attach, revoke, death,   *)
(* restart and stop.                                                         *)
(*                                                                          *)
(* The controller is single-threaded; an action is one callback up to its    *)
(* next await.  Workers are numbered in the order they are started.  Posts    *)
(* between the two threads are delivered in order; the instance words are     *)
(* shared memory.  A terminated worker runs no further step, but what it has  *)
(* posted still arrives.                                                     *)
EXTENDS Naturals, Sequences

CONSTANTS
  AttachIds,       \* instance ids
  MaxStarts,       \* workers that may be started
  restartOption,   \* options.restart
  MaxOwnerCalls    \* calls of the controller's methods

VARIABLES
  sup,         \* the controller's variables: worker, dead, stopping, info
  attachedMap, \* attached, in insertion order
  starting,    \* per worker: where its start() stands
  waiter,      \* pending[`attach:${id}`]: nobody, the caller or a start()
  control,     \* pending[id] of the other requests, in order of their ids
  ioWorker,    \* per worker: its thread
  word,        \* the instance words of the channel
  serverState, \* SAB_IO_H_SERVER_STATE is RUNNING
  revoker,     \* per instance: revoke() has not been called, waits, has returned
  stopCall,    \* stop(): not called, asked the worker, returned
  ownerCalls,  \* calls of the controller's methods made
  crossed      \* ghost: what a caller did at an awkward time, per kind

supVars == <<sup, attachedMap, starting, waiter, control, ioWorker, word, serverState, revoker,
             stopCall, ownerCalls, crossed>>

StartIds == 1..MaxStarts
nobody == 0
caller == MaxStarts + 1
NoThread == [alive |-> FALSE, server |-> FALSE, in |-> <<>>, out |-> <<>>, half |-> <<>>, mem |-> {}]
Posted(ws, g, m) == IF ws[g].alive THEN [ws EXCEPT ![g].in = Append(@, m)] ELSE ws
\* A thread that has ended: what it posted remains.
ended(thread) == [NoThread EXCEPT !.out = thread.out]
Range(s) == {s[i] : i \in DOMAIN s}

----------------------------------------------------------------------------
(* start(), which awaits the spawn, the worker's answer and each attach.     *)

WorkerCreated(g) ==
  /\ starting[g].pc = "spawn"
  /\ starting' = [starting EXCEPT ![g].pc = "ready"]
  /\ sup' = [sup EXCEPT !.worker = g, !.dead = FALSE]
  /\ ioWorker' = [ioWorker EXCEPT ![g] = [NoThread EXCEPT !.alive = TRUE, !.in = <<<<"init">>>>]]
  /\ UNCHANGED <<attachedMap, waiter, control, word, serverState, revoker, stopCall, ownerCalls, crossed>>

\* The loop over attached goes on to the first id it has not visited: it posts
\* to the current worker and waits under the id's key.
toVisit(g) == SelectSeq(attachedMap, LAMBDA i : i \notin starting[g].visited)
loopOn(g, w) ==
  LET left == toVisit(g) IN
  IF left = <<>>
  THEN /\ starting' = [starting EXCEPT ![g] = [pc |-> "done", visited |-> {}]]
       /\ waiter' = w /\ UNCHANGED ioWorker
  ELSE /\ starting' = [starting EXCEPT ![g].pc = "attach", ![g].visited = @ \union {left[1]}]
       /\ waiter' = [w EXCEPT ![left[1]] = g]
       /\ ioWorker' = Posted(ioWorker, sup.worker, <<"attach", left[1]>>)

\* A start() resumed by the death of the worker it waited for.
StartResumes(g) ==
  /\ starting[g].pc = "resume"
  /\ loopOn(g, waiter)
  /\ UNCHANGED <<sup, attachedMap, control, word, serverState, revoker, stopCall, ownerCalls, crossed>>

----------------------------------------------------------------------------
(* handleDeath; the onError hook may call stop().                            *)

\* A restart is on its way until its start() has gone through attached.
Restarting == \E g \in StartIds : starting[g].pc \in {"spawn", "ready", "attach", "resume"}
Created == starting[1].pc = "done" \/ \E g \in 2..MaxStarts : starting[g].pc # "no"

stopped == stopCall # "no"
died(ws) == [ws EXCEPT ![sup.worker] = ended(@)]
nextStart == CHOOSE g \in StartIds : starting[g].pc = "no" /\ \A h \in 1..(g - 1) : starting[h].pc # "no"
settleAll == [n \in DOMAIN control |-> IF control[n] = "pending" THEN "dead" ELSE control[n]]

handleDeath(ws, hookStops) ==
  /\ restartOption => \E g \in StartIds : starting[g].pc = "no"
  /\ hookStops => ~stopped
  /\ ioWorker' = died(ws)
  /\ serverState' = FALSE
  /\ waiter' = [i \in AttachIds |-> nobody]
  /\ control' = settleAll
  /\ sup' = [sup EXCEPT !.dead = TRUE, !.info = @ /\ ~restartOption, !.stopping = @ \/ hookStops]
  /\ starting' = [g \in StartIds |->
       IF restartOption /\ g = nextStart THEN [pc |-> "spawn", visited |-> {}]
       ELSE IF \E i \in AttachIds : waiter[i] = g THEN [starting[g] EXCEPT !.pc = "resume"]
       ELSE starting[g]]
  /\ stopCall' = IF hookStops \/ stopCall = "asked" THEN "returned" ELSE stopCall
  /\ crossed' = IF hookStops THEN [crossed EXCEPT !.stop = TRUE] ELSE crossed
  /\ UNCHANGED <<attachedMap, word, revoker, ownerCalls>>

\* Fault injection by the owner.
kill == Created /\ ~sup.dead /\ ~stopped /\ handleDeath(ioWorker, FALSE)

----------------------------------------------------------------------------
(* What a worker posted reaches the controller.                              *)

ignored(g) == sup.worker # g
errorIgnored(g) == sup.stopping \/ ignored(g)
errorAlways(g) == ignored(g)
deathIgnored(g) == errorIgnored(g)

Deliver(g, hookStops) ==
  /\ ioWorker[g].out # <<>>
  /\ LET m == Head(ioWorker[g].out)
         ws == [ioWorker EXCEPT ![g].out = Tail(@)]
         drop == ioWorker' = ws
                 /\ UNCHANGED <<sup, attachedMap, starting, waiter, control, word, serverState, revoker,
                                stopCall, ownerCalls, crossed>>
     IN
     \/ /\ m[1] = "ready" /\ ~ignored(g) /\ ~hookStops
        /\ IF m[2] /\ starting[g].pc = "ready"
           THEN /\ sup' = [sup EXCEPT !.info = TRUE]
                /\ LET left == toVisit(g) IN
                   /\ starting' = IF left = <<>> THEN [starting EXCEPT ![g].pc = "done"]
                        ELSE [starting EXCEPT ![g].pc = "attach", ![g].visited = {left[1]}]
                   /\ waiter' = IF left = <<>> THEN waiter ELSE [waiter EXCEPT ![left[1]] = g]
                   /\ ioWorker' = IF left = <<>> THEN ws ELSE Posted(ws, sup.worker, <<"attach", left[1]>>)
           ELSE /\ starting' = [starting EXCEPT ![g].pc = "failed"]
                /\ ioWorker' = [ws EXCEPT ![g] = ended(@)]
                /\ UNCHANGED <<sup, waiter>>
        /\ UNCHANGED <<attachedMap, control, word, serverState, revoker, stopCall, ownerCalls, crossed>>
     \/ /\ m[1] = "attached" /\ ~ignored(g) /\ ~hookStops
        /\ LET w == waiter[m[2]]
               cleared == [waiter EXCEPT ![m[2]] = nobody]
           IN IF w \in StartIds
              THEN /\ starting' = [starting EXCEPT ![w].pc = "resume"]
                   /\ waiter' = cleared
              ELSE waiter' = cleared /\ UNCHANGED starting
        /\ ioWorker' = ws
        /\ UNCHANGED <<sup, attachedMap, control, word, serverState, revoker, stopCall, ownerCalls, crossed>>
     \/ /\ m[1] = "reply" /\ ~ignored(g) /\ ~hookStops
        /\ control' = IF control[m[2]] = "pending" THEN [control EXCEPT ![m[2]] = "answered"] ELSE control
        /\ ioWorker' = ws
        /\ UNCHANGED <<sup, attachedMap, starting, waiter, word, serverState, revoker, stopCall, ownerCalls, crossed>>
     \/ /\ m[1] = "stopped" /\ ~ignored(g) /\ ~hookStops
        /\ stopCall' = "returned"
        /\ ioWorker' = died(ws)
        /\ UNCHANGED <<sup, attachedMap, starting, waiter, control, word, serverState, revoker, ownerCalls, crossed>>
     \/ /\ m[1] = "error" /\ ~deathIgnored(g) /\ ~sup.info /\ ~hookStops
        /\ starting' = IF starting[g].pc = "ready" THEN [starting EXCEPT ![g].pc = "failed"] ELSE starting
        /\ ioWorker' = ws
        /\ UNCHANGED <<sup, attachedMap, waiter, control, word, serverState, revoker, stopCall, ownerCalls, crossed>>
     \/ m[1] = "error" /\ ~deathIgnored(g) /\ sup.info /\ ~sup.dead /\ handleDeath(ws, hookStops)
     \/ m[1] = "error" /\ (deathIgnored(g) \/ (sup.info /\ sup.dead)) /\ ~hookStops /\ drop
     \/ m[1] # "error" /\ ignored(g) /\ ~hookStops /\ drop

----------------------------------------------------------------------------
(* The calls of the controller's owner.                                      *)

OwnerCalls == Created /\ ownerCalls < MaxOwnerCalls /\ ownerCalls' = ownerCalls + 1

attachMemory(i) ==
  /\ OwnerCalls
  /\ word' = IF word[i] = "REVOKED" THEN [word EXCEPT ![i] = "NONE"] ELSE word
  /\ revoker' = IF word[i] = "REVOKED" THEN [revoker EXCEPT ![i] = "no"] ELSE revoker
  /\ attachedMap' = IF i \in Range(attachedMap) THEN attachedMap ELSE Append(attachedMap, i)
  /\ waiter' = [waiter EXCEPT ![i] = caller]
  /\ ioWorker' = Posted(ioWorker, sup.worker, <<"attach", i>>)
  /\ crossed' = IF Restarting \/ word[i] = "REVOKING" THEN [crossed EXCEPT !.attach = TRUE] ELSE crossed
  /\ UNCHANGED <<sup, starting, control, serverState, stopCall>>

forget(i) ==
  /\ attachedMap' = SelectSeq(attachedMap, LAMBDA j : j # i)
  /\ starting' = [g \in StartIds |-> [starting[g] EXCEPT !.visited = @ \ {i}]]

detachMemory(i) ==
  /\ OwnerCalls /\ i \in Range(attachedMap)
  /\ forget(i)
  /\ ioWorker' = Posted(ioWorker, sup.worker, <<"detach", i>>)
  /\ UNCHANGED <<sup, waiter, control, word, serverState, revoker, stopCall, crossed>>

\* An attach or detach of the instance that its worker has not finished.
InFlight(i) ==
  \E g \in StartIds : /\ ioWorker[g].alive
                    /\ \/ \E m \in Range(ioWorker[g].in) : m[1] \in {"attach", "detach"} /\ m[2] = i
                       \/ ioWorker[g].half # <<>> /\ ioWorker[g].half[2] = i

revoke(i) ==
  /\ OwnerCalls /\ revoker[i] = "no"
  /\ forget(i)
  /\ word' = [word EXCEPT ![i] = "REVOKING"]
  /\ revoker' = [revoker EXCEPT ![i] = "waits"]
  /\ crossed' = IF InFlight(i) THEN [crossed EXCEPT !.revoke = TRUE] ELSE crossed
  /\ UNCHANGED <<sup, waiter, control, ioWorker, serverState, stopCall>>

\* The wait of revokeSabIoInstance ends; it answers for a server that is down.
RevokeReturns(i) ==
  /\ revoker[i] = "waits" /\ (word[i] = "REVOKED" \/ ~serverState)
  /\ word' = [word EXCEPT ![i] = "REVOKED"]
  /\ revoker' = [revoker EXCEPT ![i] = "returned"]
  /\ UNCHANGED <<sup, attachedMap, starting, waiter, control, ioWorker, serverState, stopCall, ownerCalls, crossed>>

request ==
  /\ OwnerCalls /\ ~stopped
  /\ control' = Append(control, "pending")
  /\ ioWorker' = Posted(ioWorker, sup.worker, <<"ask", Len(control) + 1>>)
  /\ UNCHANGED <<sup, attachedMap, starting, waiter, word, serverState, revoker, stopCall, crossed>>

stopSupervisor ==
  /\ OwnerCalls /\ ~stopped
  /\ sup' = [sup EXCEPT !.stopping = TRUE]
  /\ IF sup.dead THEN stopCall' = "returned" /\ ioWorker' = died(ioWorker)
     ELSE stopCall' = "asked" /\ ioWorker' = Posted(ioWorker, sup.worker, <<"stop">>)
  /\ crossed' = IF sup.dead THEN [crossed EXCEPT !.stop = TRUE] ELSE crossed
  /\ UNCHANGED <<attachedMap, starting, waiter, control, word, serverState, revoker>>

----------------------------------------------------------------------------
(* A worker's thread.                                                       *)

Takes(g, kind) == ioWorker[g].alive /\ ioWorker[g].half = <<>> /\ ioWorker[g].in # <<>>
                  /\ Head(ioWorker[g].in)[1] = kind
Taken(g) == [ioWorker[g] EXCEPT !.in = Tail(@)]
Becomes(g, thread) ==
  /\ ioWorker' = [ioWorker EXCEPT ![g] = thread]
  /\ UNCHANGED <<sup, attachedMap, starting, waiter, control, revoker, stopCall, ownerCalls, crossed>>
Answer(thread, m) == [thread EXCEPT !.out = Append(@, m)]

handleInit(g, ok) ==
  /\ Takes(g, "init")
  /\ Becomes(g, Answer([Taken(g) EXCEPT !.server = ok], <<"ready", ok>>))
  /\ serverState' = (serverState \/ ok)
  /\ UNCHANGED word

\* attachMemory and detachMemory of the server load the word here and store it
\* in AttachStores and DetachStores.
refusedOnceRevoked(i) == word[i] = "REVOKED"
refused(i) == word[i] \in {"REVOKING", "REVOKED"}

AttachLoads(g) ==
  /\ Takes(g, "attach")
  /\ LET i == Head(ioWorker[g].in)[2] IN
     Becomes(g, IF ~ioWorker[g].server \/ refused(i)
                THEN Answer(Taken(g), <<"attached", i, FALSE>>)
                ELSE [Taken(g) EXCEPT !.half = <<"attach", i>>])
  /\ UNCHANGED <<word, serverState>>

AttachStores(g) ==
  /\ ioWorker[g].alive /\ ioWorker[g].half # <<>> /\ ioWorker[g].half[1] = "attach"
  /\ LET i == ioWorker[g].half[2] IN
     /\ Becomes(g, Answer([ioWorker[g] EXCEPT !.half = <<>>, !.mem = @ \union {i}],
                       <<"attached", i, TRUE>>))
     /\ word' = [word EXCEPT ![i] = "ATTACHED"]
  /\ UNCHANGED serverState

DetachLoads(g) ==
  /\ Takes(g, "detach")
  /\ LET i == Head(ioWorker[g].in)[2] IN
     Becomes(g, [Taken(g) EXCEPT !.mem = @ \ {i},
                                 !.half = IF ioWorker[g].server /\ word[i] = "ATTACHED" THEN <<"detach", i>> ELSE <<>>])
  /\ UNCHANGED <<word, serverState>>

DetachStores(g) ==
  /\ ioWorker[g].alive /\ ioWorker[g].half # <<>> /\ ioWorker[g].half[1] = "detach"
  /\ Becomes(g, [ioWorker[g] EXCEPT !.half = <<>>])
  /\ word' = [word EXCEPT ![ioWorker[g].half[2]] = "NONE"]
  /\ UNCHANGED serverState

applyRevocations(g) ==
  /\ ioWorker[g].alive /\ ioWorker[g].server /\ ioWorker[g].half = <<>>
  /\ \E i \in AttachIds : word[i] = "REVOKING"
  /\ Becomes(g, [ioWorker[g] EXCEPT !.mem = {i \in @ : word[i] # "REVOKING"}])
  /\ word' = [i \in AttachIds |-> IF word[i] = "REVOKING" THEN "REVOKED" ELSE word[i]]
  /\ UNCHANGED serverState

AnswerRequest(g) ==
  /\ Takes(g, "ask")
  /\ Becomes(g, Answer(Taken(g), <<"reply", Head(ioWorker[g].in)[2]>>))
  /\ UNCHANGED <<word, serverState>>

StopServer(g) ==
  /\ Takes(g, "stop")
  /\ Becomes(g, Answer([Taken(g) EXCEPT !.server = FALSE, !.mem = {}], <<"stopped">>))
  /\ serverState' = FALSE
  /\ UNCHANGED word

Crash(g) ==
  /\ ioWorker[g].alive
  /\ Becomes(g, Answer(ended(ioWorker[g]), <<"error">>))
  /\ UNCHANGED <<word, serverState>>

----------------------------------------------------------------------------
SupInit ==
  /\ sup = [worker |-> 1, dead |-> FALSE, stopping |-> FALSE, info |-> FALSE]
  /\ attachedMap = <<>> /\ control = <<>>
  /\ starting = [g \in StartIds |-> [pc |-> IF g = 1 THEN "spawn" ELSE "no", visited |-> {}]]
  /\ waiter = [i \in AttachIds |-> nobody]
  /\ ioWorker = [g \in StartIds |-> NoThread]
  /\ word = [i \in AttachIds |-> "NONE"]
  /\ serverState = FALSE
  /\ revoker = [i \in AttachIds |-> "no"]
  /\ stopCall = "no"
  /\ ownerCalls = 0
  /\ crossed = [attach |-> FALSE, revoke |-> FALSE, stop |-> FALSE]

ThreadStep(g) ==
  \/ \E ok \in BOOLEAN : handleInit(g, ok)
  \/ AttachLoads(g) \/ AttachStores(g) \/ DetachLoads(g) \/ DetachStores(g)
  \/ applyRevocations(g) \/ AnswerRequest(g) \/ StopServer(g) \/ Crash(g)

SupNext ==
  \/ \E g \in StartIds : WorkerCreated(g) \/ StartResumes(g) \/ ThreadStep(g)
                         \/ \E hookStops \in BOOLEAN : Deliver(g, hookStops)
  \/ \E i \in AttachIds : attachMemory(i) \/ detachMemory(i) \/ revoke(i) \/ RevokeReturns(i)
  \/ request \/ stopSupervisor \/ kill

SupSpec == SupInit /\ [][SupNext]_supVars
----------------------------------------------------------------------------
(* "Stop the loop and the worker": once stop() has returned no I/O worker     *)
(* runs, which would keep the files and the store lock (stop, handleDeath).   *)
StopIsFinal == stopCall = "returned" => \A g \in StartIds : ~ioWorker[g].alive

(* It holds for a stop() called while a worker runs, even when that worker    *)
(* dies before it answers: onError then starts no replacement.                *)
StopOfLiveIsFinal == ~crossed.stop => StopIsFinal

(* A revocation is never lost: until revoke() returns the instance word says  *)
(* REVOKING or REVOKED, and after it no worker holds the instance's memory    *)
(* (attachMemory and detachMemory of the server load the word, then store).   *)
RevocationHolds ==
  \A i \in AttachIds :
    /\ revoker[i] # "no" => word[i] \in {"REVOKING", "REVOKED"}
    /\ revoker[i] = "returned" => \A g \in StartIds : ioWorker[g].alive => i \notin ioWorker[g].mem

(* So it is when no attach or detach of the instance was on its way to the    *)
(* worker at the time of the call.                                           *)
RevocationHoldsAlone == ~crossed.revoke => RevocationHolds

(* A replacement that has started holds the memory of every attached          *)
(* instance, or has its attach ahead, when no caller attached one during the   *)
(* restart or during its revocation (the loop at the end of start).                      *)
RestartReattaches ==
  ~crossed.attach /\ ~crossed.revoke /\ ~stopped =>
    \A g \in StartIds : starting[g].pc = "done" /\ sup.worker = g /\ ioWorker[g].alive =>
      \A i \in Range(attachedMap) : i \in ioWorker[g].mem \/ InFlight(i)

(* The memory of an instance is held by whom it should: both of the above.    *)
AttachmentsHold == RevocationHoldsAlone /\ RestartReattaches
=============================================================================

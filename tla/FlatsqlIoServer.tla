--------------------------- MODULE FlatsqlIoServer ---------------------------
(***************************************************************************)
(* The loop of src/host/flatsqlIoServer.js: virtual handles over one file  *)
(* object per path, opens that settle later, namespace operations chained  *)
(* per path, pre-opened files, revocation of an instance and stop().       *)
(*                                                                         *)
(* The worker is one JavaScript thread, so its heap is one record, heap,   *)
(* and each of its functions an operator from heap to heap; an action is   *)
(* what the thread does between two returns to its event loop.  Clients    *)
(* and the revoking controller are other threads.  A client's slot of the  *)
(* ring (see SabIoChannel) is named by the client.                         *)
(***************************************************************************)
EXTENDS Integers, Sequences, FiniteSets, FiniteSetsExt, SequencesExt

CONSTANTS
  Clients,        \* guest threads, one request at a time
  Instances,      \* instance ids
  InstanceOf,     \* the instance of each client, or Scratch
  Paths,
  Menu,           \* the OPEN requests of each client, as <<path, flags>>; a
                  \* path outside Paths does not decode to a store path
  Revocable,      \* the instances that are revoked
  MaxHandle,      \* MAX_HANDLE_ID
  MaxChunks,      \* steps of at most chunkBytes in a read or write
  Budget,         \* bound: requests of each client
  MaxEntries,     \* bound: entries alive at once
  MaxPreopens,    \* bound: preopen calls
  MayStop         \* stop() is called

ASSUME ServerAssumption ==
  /\ Instances \subseteq Nat \ {0} /\ Revocable \subseteq Instances
  /\ InstanceOf \in [Clients -> Instances \cup {0}]
  /\ \A c \in Clients : Menu[c] \subseteq STRING \X SUBSET STRING
  /\ {MaxHandle, MaxChunks, MaxEntries} \subseteq Nat \ {0}
  /\ Budget \in [Clients -> Nat] /\ MaxPreopens \in Nat
  /\ MayStop \in BOOLEAN

\* The words of the instance table.
NONE == 0
ATTACHED == 1
REVOKING == 2
REVOKED == 3

\* SAB_IO_SCRATCH_INSTANCE, which is in no table and never revoked.
Scratch == 0

\* Statuses; a handle id is positive.
OK == 0
ERR_GENERIC == -1
ERR_ACCESS == -2
ERR_BADHANDLE == -3
ERR_BUSY == -4
ERR_IO == -5

Entries == 1 .. MaxEntries
HandleIds == 1 .. MaxHandle
NoHandle == [entry |-> 0, inst |-> Scratch]
NoEntry == [path |-> "none", opening |-> FALSE, status |-> OK, file |-> FALSE,
            refs |-> 0, pins |-> 0, deleteOnClose |-> FALSE, waiters |-> <<>>]
NoRequest == [op |-> "none"]

\* The tasks of a path's chain: an open of an entry, a namespace operation of
\* a client's job, the removal a closed DELETE_ON_CLOSE file leaves behind.
OpenTask(e) == [kind |-> "open", entry |-> e]
JobTask(c) == [kind |-> "job", client |-> c]
RemoveTask == [kind |-> "remove"]

VARIABLES
  req,        \* the request in each client's slot
  slot,       \* none, pending, servicing or done
  res,        \* the status of a done slot
  sent,       \* requests a client has sent
  instances,  \* the instance table of the channel header
  heap,       \* the worker's heap
  pre,        \* the entry a preopen call awaits, for each path
  preopens,   \* preopen calls made
  stopped     \* stop() has run

vars == <<req, slot, res, sent, instances, heap, pre, preopens, stopped>>

\* entries, handles, nextHandleId, pathChains and ready; of each job its
\* phase, entry, result and the chunks done; done holds what complete()
\* published in this step.
InitHeap ==
  [entries |-> [p \in Paths |-> 0],
   ent     |-> [e \in Entries |-> NoEntry],
   handles |-> [h \in HandleIds |-> NoHandle],
   nextHandleId |-> 1,
   chain   |-> [p \in Paths |-> <<>>],
   ready   |-> <<>>,
   phase   |-> [c \in Clients |-> 0],
   jentry  |-> [c \in Clients |-> 0],
   result  |-> [c \in Clients |-> OK],
   chunks  |-> [c \in Clients |-> 0],
   done    |-> {}]

Init ==
  /\ req = [c \in Clients |-> NoRequest]
  /\ slot = [c \in Clients |-> "none"]
  /\ res = [c \in Clients |-> OK]
  /\ sent = [c \in Clients |-> 0]
  /\ instances = [i \in Instances |-> NONE]
  /\ heap = InitHeap
  /\ pre = [p \in Paths |-> 0]
  /\ preopens = 0
  /\ stopped = FALSE

-----------------------------------------------------------------------------
(* Entries and handles.                                                    *)

chainPath(h, p, task) == [h EXCEPT !.chain[p] = Append(@, task)]

isRevoked(c) ==
  InstanceOf[c] # Scratch /\ instances[InstanceOf[c]] \in {REVOKING, REVOKED}

\* The next id in cyclic order that no handle has, -1 when all are taken.
allocateHandleId(h) ==
  LET after == {k \in 0 .. MaxHandle - 1 :
                  h.handles[((h.nextHandleId - 1 + k) % MaxHandle) + 1] = NoHandle}
  IN IF after = {} THEN -1
     ELSE ((h.nextHandleId - 1 + Min(after)) % MaxHandle) + 1

\* What addHandle returns, and the heap it leaves.
handleFor(h) == IF allocateHandleId(h) < 0 THEN ERR_GENERIC ELSE allocateHandleId(h)

addHandle(h, e, c) ==
  LET id == allocateHandleId(h) IN
  IF id < 0 THEN h
  ELSE [h EXCEPT !.nextHandleId = (id % MaxHandle) + 1,
                 !.handles[id] = [entry |-> e, inst |-> InstanceOf[c]],
                 !.ent[e].refs = @ + 1,
                 !.ent[e].deleteOnClose = @ \/ "DELETE_ON_CLOSE" \in req[c].flags]

\* Mutant: the entry is forgotten with its file open.
releaseOpen(h, e) ==
  LET x == h.ent[e] IN
  IF x.refs > 0 \/ x.pins > 0 THEN h
  ELSE [h EXCEPT !.entries[x.path] = IF @ = e THEN 0 ELSE @]

releaseEntry(h, e) ==
  LET x == h.ent[e]
      closed == [h EXCEPT !.entries[x.path] = IF @ = e THEN 0 ELSE @,
                          !.ent[e].file = FALSE]
  IN IF x.refs > 0 \/ x.pins > 0 THEN h
     ELSE IF x.deleteOnClose /\ x.status = OK
          THEN chainPath(closed, x.path, RemoveTask)
          ELSE closed

closeHandle(h, id) ==
  LET e == h.handles[id].entry IN
  releaseEntry([h EXCEPT !.handles[id] = NoHandle, !.ent[e].refs = @ - 1], e)

complete(h, c, status) ==
  [h EXCEPT !.done = @ \cup {[client |-> c, status |-> status]}]

\* Entries that nothing refers to any more are garbage; their ids are reused.
reachable(h, e) ==
  \/ \E p \in Paths : h.entries[p] = e \/ pre'[p] = e
  \/ \E id \in HandleIds : h.handles[id].entry = e
  \/ \E p \in Paths : \E n \in DOMAIN h.chain[p] : h.chain[p][n] = OpenTask(e)
  \/ h.ent[e].file

collect(h) ==
  [h EXCEPT !.ent = [e \in Entries |-> IF reachable(h, e) THEN @[e] ELSE NoEntry]]

unused(h) == {e \in Entries : h.ent[e] = NoEntry}

-----------------------------------------------------------------------------
(* Opens.                                                                  *)

parkOnEntry(h, c, e) == [h EXCEPT !.ent[e].waiters = Append(@, c)]

\* Mutant: the open is never started.
startNothing(h, e, p) ==
  [h EXCEPT !.entries[p] = e,
            !.ent[e] = [NoEntry EXCEPT !.path = p, !.opening = TRUE]]

\* A fresh entry whose open is chained on its path.
startOpen(h, e, p) ==
  chainPath([h EXCEPT !.entries[p] = e,
                      !.ent[e] = [NoEntry EXCEPT !.path = p, !.opening = TRUE]],
            p, OpenTask(e))

\* The waiter that created the entry gets its handle here; all go to ready.
settleWaiter(h, c, e) ==
  LET creator == h.phase[c] = 1 /\ h.jentry[c] = e
      status == h.ent[e].status
      granted == creator /\ status = OK /\ ~isRevoked(c)
      outcome == IF status # OK THEN status
                 ELSE IF isRevoked(c) THEN ERR_ACCESS ELSE handleFor(h)
      h1 == IF granted THEN addHandle(h, e, c) ELSE h
      h2 == IF creator THEN [h1 EXCEPT !.result[c] = outcome, !.phase[c] = 2,
                                               !.jentry[c] = 0]
            ELSE h1
  IN [h2 EXCEPT !.ready = Append(@, c)]

\* Mutant: the file nobody took a handle of stays open.
settleKeeping(h, e, status) ==
  LET waiters == h.ent[e].waiters
      h1 == [h EXCEPT !.ent[e].opening = FALSE, !.ent[e].status = status,
                      !.ent[e].file = (status = OK), !.ent[e].waiters = <<>>]
  IN FoldLeft(LAMBDA g, c : settleWaiter(g, c, e), h1, waiters)

settleEntry(h, e, status) ==
  LET waiters == h.ent[e].waiters
      h1 == [h EXCEPT !.ent[e].opening = FALSE, !.ent[e].status = status,
                      !.ent[e].file = (status = OK), !.ent[e].waiters = <<>>]
      h2 == FoldLeft(LAMBDA g, c : settleWaiter(g, c, e), h1, waiters)
  IN IF h2.ent[e].refs > 0 \/ h2.ent[e].pins > 0 THEN h2
     ELSE IF status = OK THEN releaseEntry(h2, e)
     ELSE [h2 EXCEPT !.entries[h2.ent[e].path] = IF @ = e THEN 0 ELSE @]

runNamespace(h, c) ==
  chainPath([h EXCEPT !.phase[c] = 2], req[c].path, JobTask(c))

\* PROBE, UNLINK and UNLINK_IF_UNUSED.
stepNamespace(h, c) ==
  LET e == h.entries[req[c].path] IN
  IF e # 0 /\ h.ent[e].opening THEN parkOnEntry(h, c, e)
  ELSE IF "PROBE" \in req[c].flags
       THEN IF e # 0 /\ h.ent[e].status = OK THEN complete(h, c, OK)
            ELSE runNamespace(h, c)
  ELSE IF e # 0 /\ h.ent[e].refs > 0 THEN complete(h, c, ERR_BUSY)
  ELSE IF e # 0 /\ h.ent[e].pins > 0
       THEN runNamespace(releaseEntry([h EXCEPT !.ent[e].pins = 0], e), c)
  ELSE runNamespace(h, c)

\* A path without an entry, or with one whose open failed.
openFresh(h, c) ==
  LET e == Min(unused(h))
      h1 == startOpen(h, e, req[c].path)
  IN IF "DEFERRED" \in req[c].flags
     THEN complete(addHandle(h1, e, c), c, handleFor(h1))
     ELSE parkOnEntry([h1 EXCEPT !.phase[c] = 1, !.jentry[c] = e], c, e)

stepOpen(h, c, how) ==
  LET e == h.entries[req[c].path]
      x == h.ent[e]
  IN IF h.phase[c] = 2 THEN complete(h, c, h.result[c])
     ELSE IF isRevoked(c) THEN complete(h, c, ERR_ACCESS)
     ELSE IF req[c].path \notin Paths THEN complete(h, c, ERR_GENERIC)
     ELSE IF req[c].flags \cap {"PROBE", "UNLINK"} # {} THEN stepNamespace(h, c)
     ELSE IF e = 0 THEN openFresh(h, c)
     ELSE IF x.opening
          THEN IF "DEFERRED" \in req[c].flags
               THEN complete(addHandle(h, e, c), c, handleFor(h))
               ELSE parkOnEntry(h, c, e)
     ELSE IF x.status = OK
          THEN IF "EXCL" \in req[c].flags THEN complete(h, c, ERR_GENERIC)
               ELSE IF "TRUNC" \in req[c].flags /\ how = "throw" THEN complete(h, c, ERR_IO)
               ELSE complete(addHandle(h, e, c), c, handleFor(h))
     ELSE openFresh(h, c)

-----------------------------------------------------------------------------
(* Reads, writes and the other operations on a handle.                     *)

\* how is what the file does: move on a chunk, end (the last chunk, a short
\* one, or an operation of one step), or throw or refuse the access.
stepHandleOp(h, c, how) ==
  LET id == req[c].handle
      x == h.ent[h.handles[id].entry]
  IN IF isRevoked(c) THEN complete(h, c, ERR_ACCESS)
     ELSE IF h.handles[id] = NoHandle THEN complete(h, c, ERR_BADHANDLE)
     ELSE IF x.opening THEN parkOnEntry(h, c, h.handles[id].entry)
     ELSE IF req[c].op = "close" THEN complete(closeHandle(h, id), c, OK)
     ELSE IF x.status # OK \/ ~x.file
          THEN complete(h, c, IF x.status # OK THEN x.status ELSE ERR_BADHANDLE)
     ELSE IF how = "more" /\ h.chunks[c] + 1 < MaxChunks
          THEN [h EXCEPT !.chunks[c] = @ + 1, !.ready = Append(@, c)]
     ELSE complete(h, c, IF how = "throw" THEN ERR_IO ELSE OK)

step(h, c, how) ==
  IF req[c].op = "open" THEN stepOpen(h, c, how) ELSE stepHandleOp(h, c, how)

-----------------------------------------------------------------------------
(* The loop.                                                               *)

revoking == {i \in Instances : instances[i] = REVOKING}

\* Mutant: the acknowledgement leaves the handles open.
acknowledgeOnly(h) == h

\* applyRevocations closes every handle of a revoking instance.
closeRevoked(h) ==
  FoldSet(LAMBDA id, g : closeHandle(g, id), h,
          {id \in HandleIds : h.handles[id] # NoHandle /\ h.handles[id].inst \in revoking})

pending == {c \in Clients : slot[c] = "pending"}

\* scanSlots makes a job of every PENDING slot.
scanSlots(h) ==
  [h EXCEPT !.ready = @ \o SetToSeq(pending),
            !.phase = [c \in Clients |-> IF c \in pending THEN 0 ELSE @[c]],
            !.chunks = [c \in Clients |-> IF c \in pending THEN 0 ELSE @[c]],
            !.result = [c \in Clients |-> IF c \in pending THEN OK ELSE @[c]]]

\* What the thread's step publishes: completed slots, claimed slots.
Publish(h, claimed) ==
  /\ slot' = [c \in Clients |->
                IF \E d \in h.done : d.client = c THEN "done"
                ELSE IF c \in claimed THEN "servicing" ELSE slot[c]]
  /\ res' = [c \in Clients |->
                IF \E d \in h.done : d.client = c
                THEN (CHOOSE d \in h.done : d.client = c).status ELSE res[c]]
  /\ heap' = [collect(h) EXCEPT !.done = {}]

\* The end of each turn: applyRevocations, then scanSlots.
Turn(h) ==
  /\ Publish(scanSlots(closeRevoked(h)), pending)
  /\ instances' = [i \in Instances |-> IF i \in revoking THEN REVOKED ELSE instances[i]]

\* loop, with nothing ready.
Poll ==
  /\ ~stopped
  /\ revoking # {} \/ pending # {}
  /\ UNCHANGED <<req, sent, pre, preopens, stopped>>
  /\ Turn(heap)

\* runReady, one job.
RunJob(how) ==
  /\ ~stopped
  /\ heap.ready # <<>> /\ unused(heap) # {}
  /\ LET c == Head(heap.ready) IN
     /\ req[c].op = "open" => how \in {"end", "throw"}
     /\ UNCHANGED <<req, sent, pre, preopens, stopped>>
     /\ Turn(step([heap EXCEPT !.ready = Tail(@)], c, how))

\* The first task of a path's chain settles: the backend did what it was
\* asked, or threw.
runTask(h, t, status) ==
  CASE t.kind = "open" -> settleEntry(h, t.entry, status)
    [] t.kind = "job" -> [h EXCEPT !.result[t.client] = status,
                                   !.ready = Append(@, t.client)]
    [] t.kind = "remove" -> h

ChainSettles(p, status) ==
  /\ heap.chain[p] # <<>>
  /\ UNCHANGED <<req, sent, instances, pre, preopens, stopped>>
  /\ Publish(runTask([heap EXCEPT !.chain[p] = Tail(@)], Head(heap.chain[p]), status),
             {})

-----------------------------------------------------------------------------
(* The messages of the controller.                                         *)

pinned(h, p) ==
  LET e == IF h.entries[p] = 0 THEN Min(unused(h)) ELSE h.entries[p]
      h1 == IF h.entries[p] = 0 THEN startOpen(h, e, p) ELSE h
  IN [h1 EXCEPT !.ent[e].pins = @ + 1]

\* A failed pre-open drops its pin.
unpinFailed(h, e) ==
  IF h.ent[e].status = OK THEN h ELSE [h EXCEPT !.ent[e].pins = Max({0, @ - 1})]

preopen(p) ==
  LET h == pinned(heap, p)
      e == h.entries[p]
  IN /\ ~stopped /\ preopens < MaxPreopens /\ pre[p] = 0
     /\ unused(heap) # {}
     /\ preopens' = preopens + 1
     /\ pre' = [pre EXCEPT ![p] = IF h.ent[e].opening THEN e ELSE 0]
     /\ UNCHANGED <<req, sent, instances, stopped>>
     /\ Publish(IF h.ent[e].opening THEN h ELSE unpinFailed(h, e), {})

PreopenResumes(p) ==
  /\ pre[p] # 0 /\ ~heap.ent[pre[p]].opening
  /\ pre' = [pre EXCEPT ![p] = 0]
  /\ UNCHANGED <<req, sent, instances, preopens, stopped>>
  /\ Publish(unpinFailed(heap, pre[p]), {})

\* Called once the preopen has resolved.
releasePreopen(p) ==
  LET e == heap.entries[p] IN
  /\ ~stopped /\ pre[p] = 0
  /\ e # 0 /\ heap.ent[e].pins > 0
  /\ UNCHANGED <<req, sent, instances, pre, preopens, stopped>>
  /\ Publish(releaseEntry([heap EXCEPT !.ent[e].pins = @ - 1], e), {})

\* The controller's attachMemory resets a revoked id, and the server's then
\* accepts it.
attachMemory(i) ==
  /\ ~stopped
  /\ instances[i] \in {NONE, REVOKED}
  /\ instances' = [instances EXCEPT ![i] = ATTACHED]
  /\ UNCHANGED <<req, slot, res, sent, heap, pre, preopens, stopped>>

detachMemory(i) ==
  /\ ~stopped
  /\ instances[i] = ATTACHED
  /\ instances' = [instances EXCEPT ![i] = NONE]
  /\ UNCHANGED <<req, slot, res, sent, heap, pre, preopens, stopped>>

\* stop() clears the tables once the loop has ended; jobs in ready and tasks
\* in the chains are left as they are.
stop ==
  /\ MayStop /\ ~stopped
  /\ stopped' = TRUE
  /\ UNCHANGED <<req, sent, instances, pre, preopens>>
  /\ Publish([heap EXCEPT !.entries = [p \in Paths |-> 0],
                          !.handles = [id \in HandleIds |-> NoHandle],
                          !.ent = [e \in Entries |->
                            IF \E p \in Paths : heap.entries[p] = e
                            THEN [@[e] EXCEPT !.file = FALSE] ELSE @[e]]],
             {})

-----------------------------------------------------------------------------
(* The clients and revokeSabIoInstance, on threads of their own.           *)

Send(c, r) ==
  /\ slot[c] \in {"none", "done"} /\ sent[c] < Budget[c]
  /\ req' = [req EXCEPT ![c] = r]
  /\ slot' = [slot EXCEPT ![c] = "pending"]
  /\ res' = [res EXCEPT ![c] = OK]
  /\ sent' = [sent EXCEPT ![c] = @ + 1]
  /\ UNCHANGED <<instances, heap, pre, preopens, stopped>>

SendOpen(c) ==
  \E m \in Menu[c] : Send(c, [op |-> "open", path |-> m[1], flags |-> m[2]])

SendHandleOp(c) ==
  \E op \in {"rw", "close"}, id \in HandleIds : Send(c, [op |-> op, handle |-> id])

revokeSabIoInstance(i) ==
  /\ i \in Revocable /\ instances[i] \in {NONE, ATTACHED}
  /\ instances' = [instances EXCEPT ![i] = REVOKING]
  /\ UNCHANGED <<req, slot, res, sent, heap, pre, preopens, stopped>>

\* Its wait loop acknowledges for a server that is not running.
RevokeUnserved(i) ==
  /\ stopped /\ instances[i] = REVOKING
  /\ instances' = [instances EXCEPT ![i] = REVOKED]
  /\ UNCHANGED <<req, slot, res, sent, heap, pre, preopens, stopped>>

Next ==
  \/ \E c \in Clients : SendOpen(c) \/ SendHandleOp(c)
  \/ Poll \/ \E how \in {"more", "end", "throw"} : RunJob(how)
  \/ \E p \in Paths : \/ \E status \in {OK, ERR_IO} : ChainSettles(p, status)
                      \/ preopen(p) \/ PreopenResumes(p) \/ releasePreopen(p)
  \/ \E i \in Instances : \/ attachMemory(i) \/ detachMemory(i)
                          \/ revokeSabIoInstance(i) \/ RevokeUnserved(i)
  \/ stop

Spec == Init /\ [][Next]_vars

-----------------------------------------------------------------------------
(* Properties.                                                             *)

\* "One file object per path, shared by every virtual handle on that path":
\* a file that is open is the file of the entry its path names, so no second
\* open of the path and no removal of it can meet it.
OneFilePerPath ==
  ~stopped => \A e \in Entries :
                heap.ent[e].file => heap.entries[heap.ent[e].path] = e

\* A file stays open only while a handle or a pre-open holds it, and handles
\* and reference counts agree: an opener that was revoked while its open was
\* under way leaves no file that pins its path.
FilesAreHeld ==
  ~stopped => \A e \in Entries :
    /\ heap.ent[e].file => heap.ent[e].refs > 0 \/ heap.ent[e].pins > 0
    /\ heap.ent[e].refs = Cardinality({id \in HandleIds : heap.handles[id].entry = e})

\* Once the revocation of an instance is acknowledged it has no handle, also
\* when an open of its own settles later.
RevokedHoldsNothing ==
  ~stopped => \A id \in HandleIds :
    heap.handles[id].inst # Scratch => instances[heap.handles[id].inst] # REVOKED

places(c) ==
  {<<"ready", n>> : n \in {m \in DOMAIN heap.ready : heap.ready[m] = c}}
  \cup UNION {{<<"entry", e, n>> :
               n \in {m \in DOMAIN heap.ent[e].waiters : heap.ent[e].waiters[m] = c}} :
               e \in Entries}
  \cup UNION {{<<"chain", p, n>> :
               n \in {m \in DOMAIN heap.chain[p] : heap.chain[p][m] = JobTask(c)}} :
               p \in Paths}

\* A job the server has taken up is in exactly one place: ready, parked on one
\* entry or in one chain, so nothing is completed twice or forgotten; and one
\* parked on an entry has that entry's open ahead of it in the chain of its path
\* ("it re-enters the ready queue when its promise settles"), whatever was
\* revoked or released meanwhile.
JobsAreKept ==
  /\ ~stopped => \A c \in Clients :
       Cardinality(places(c)) = IF slot[c] = "servicing" THEN 1 ELSE 0
  /\ \A e \in Entries : heap.ent[e].waiters # <<>> =>
       \E n \in DOMAIN heap.chain[heap.ent[e].path] :
         heap.chain[heap.ent[e].path][n] = OpenTask(e)
=============================================================================

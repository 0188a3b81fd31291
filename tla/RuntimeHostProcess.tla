------------------------ MODULE RuntimeHostProcess ------------------------
(* A runtime host in a child process: the client of processInvoke.js pairs    *)
(* responses with requests by their order on two pipes, and the child         *)
(* (wasmedge_emscripten_pthread_runner.c, serve_runtime_host_requests) keeps   *)
(* modules, rows and regions and answers one request at a time.               *)
EXTENDS Naturals, Sequences

CONSTANTS
  PModules, PSchemas,  \* module ids and schema ids the client uses
  Uninitialised,       \* what the heap may hold where a row id is not yet written
  MaxCalls             \* requests sent

VARIABLES
  pCall,     \* per request: [req, state, answer]
  pPending,  \* the client's queue of entries, oldest first
  pStdin,    \* requests in the pipe
  pStdout,   \* responses in the pipe: [to, value]
  pChild,    \* "spawning", "never" (spawned), "running", "failed"
  pClient,   \* [closed, closeError, expectedShutdown]
  pDestroy,  \* destroy(): "none", "waiting", "done"
  pState     \* RuntimeHostState of the child: [modules, rows, regions]

pVars == <<pCall, pPending, pStdin, pStdout, pChild, pClient, pDestroy, pState>>

\* Requests the client can form: it resolves rows and regions it was given.
Handles == {pCall[c].answer.value : c \in {c \in DOMAIN pCall : pCall[c].state = "resolved" /\ pCall[c].req.op = "append"}}
Requests ==
  [op : {"install", "unload", "invoke"}, module : PModules]
  \union [op : {"append", "listRows", "query"}, schema : PSchemas]
  \union [op : {"resolve"}, handle : Handles]
  \union [op : {"list", "allocate", "malformed"}]
  \union [op : {"describe", "record"}, region : 1..MaxCalls]

----------------------------------------------------------------------------
(* dispatch_runtime_host_request.  A failed dispatch ends the loop.           *)

Null == [payload |-> 0]
find_module(id) == {k \in DOMAIN pState.modules : pState.modules[k] = id}

\* The new row is counted, with its schema, before its id is computed: the
\* scan reads the id that is not written yet.
rowIdAbove(rows, schema) ==
  LET ids == {rows[k].rowId : k \in {k \in DOMAIN rows : rows[k].schema = schema}} \union {1}
  IN CHOOSE m \in ids : \A other \in ids : other <= m
next_row_id(rows, schema) ==
  LET ids == {rows[k].rowId + 1 : k \in {k \in DOMAIN rows : rows[k].schema = schema}} \union {1}
  IN CHOOSE m \in ids : \A other \in ids : other <= m

rowsOf(schema) == SelectSeq(pState.rows, LAMBDA row : row.schema = schema)
find_row(handle) ==
  LET found == SelectSeq(pState.rows, LAMBDA row : row.schema = handle.schema /\ row.rowId = handle.rowId)
  IN IF found = <<>> THEN Null ELSE Head(found)

\* [ok, answer, state]: what a request does; heap is read where nothing was written.
Done(answer, state) == [ok |-> TRUE, answer |-> answer, state |-> state]
Fail == [ok |-> FALSE, answer |-> 0, state |-> pState]

install(req, initialises) ==
  LET at == find_module(req.module) IN
  CASE ~initialises -> Fail
    [] initialises /\ at # {} -> Done(req.module, pState)
    [] OTHER -> Done(req.module, [pState EXCEPT !.modules = Append(@, req.module)])

unload(req) ==
  LET at == find_module(req.module) IN
  Done(at # {}, [pState EXCEPT !.modules = SelectSeq(@, LAMBDA id : id # req.module)])

append(req, call, heap) ==
  LET counted == Append(pState.rows, [schema |-> req.schema, rowId |-> heap, payload |-> call])
      id == next_row_id(counted, req.schema)
  IN Done([schema |-> req.schema, rowId |-> id],
          [pState EXCEPT !.rows = Append(@, [schema |-> req.schema, rowId |-> id, payload |-> call])])

region(req) == IF req.region <= Len(pState.regions) THEN pState.regions[req.region] ELSE Null

dispatch(call, req, works, heap) ==
  CASE req.op = "list" -> Done(pState.modules, pState)
    [] req.op = "install" -> install(req, works)
    [] req.op = "unload" -> unload(req)
    [] req.op = "invoke" -> IF find_module(req.module) # {} /\ works THEN Done("invoked", pState) ELSE Fail
    [] req.op = "append" -> append(req, call, heap)
    [] req.op \in {"listRows", "query"} -> Done(rowsOf(req.schema), pState)
    [] req.op = "resolve" -> Done(find_row(req.handle), pState)
    [] req.op = "allocate" ->
         Done(Len(pState.regions) + 1, [pState EXCEPT !.regions = Append(@, [records |-> call])])
    [] req.op \in {"describe", "record"} -> Done(region(req), pState)
    [] OTHER -> Fail

\* serve_runtime_host_requests: one request read, dispatched and answered.
Serve(works, heap) ==
  /\ pChild = "running" /\ pStdin # <<>>
  /\ LET call == Head(pStdin) IN
     \E result \in {dispatch(call, pCall[call].req, works, heap)} :
       /\ pState' = result.state
       /\ pStdout' = IF result.ok THEN Append(pStdout, [to |-> call, value |-> result.answer]) ELSE pStdout
       /\ pChild' = IF result.ok THEN pChild ELSE "failed"
  /\ pStdin' = Tail(pStdin)
  /\ UNCHANGED <<pCall, pPending, pClient, pDestroy>>

\* The child dies of a signal, destroy()'s or another.
ChildDies ==
  /\ pChild = "running"
  /\ pChild' = "failed"
  /\ UNCHANGED <<pCall, pPending, pStdin, pStdout, pClient, pDestroy, pState>>

----------------------------------------------------------------------------
(* The client: createLengthPrefixedProcessClient.                            *)

Settle(c, state, answer) == pCall' = [pCall EXCEPT ![c].state = state, ![c].answer = answer]

Spawned ==
  /\ pChild = "spawning" /\ pChild' = "running"
  /\ UNCHANGED <<pCall, pPending, pStdin, pStdout, pClient, pDestroy, pState>>

\* "error" before "spawn": the caller never gets a client.
SpawnError ==
  /\ pChild = "spawning" /\ pChild' = "never"
  /\ pClient' = [pClient EXCEPT !.closeError = TRUE]
  /\ UNCHANGED <<pCall, pPending, pStdin, pStdout, pDestroy, pState>>

invokeRaw(req) ==
  /\ pChild \notin {"spawning", "never"} /\ Len(pCall) < MaxCalls
  /\ IF pClient.closeError \/ pClient.closed
     THEN /\ pCall' = Append(pCall, [req |-> req, state |-> "rejected", answer |-> [to |-> 0, value |-> 0]])
          /\ UNCHANGED <<pPending, pStdin>>
     ELSE /\ pCall' = Append(pCall, [req |-> req, state |-> "pending", answer |-> [to |-> 0, value |-> 0]])
          /\ pPending' = Append(pPending, Len(pCall) + 1)
          /\ pStdin' = Append(pStdin, Len(pCall) + 1)
  /\ UNCHANGED <<pStdout, pChild, pClient, pDestroy, pState>>

\* The write callback reports that the pipe is broken.
WriteFails ==
  /\ pChild = "failed" /\ pStdin # <<>>
  /\ LET c == Head(pStdin) IN
     /\ Settle(c, IF pCall[c].state = "pending" THEN "rejected" ELSE pCall[c].state, pCall[c].answer)
     /\ pPending' = SelectSeq(pPending, LAMBDA p : p # c)
  /\ pStdin' = Tail(pStdin)
  /\ UNCHANGED <<pStdout, pChild, pClient, pDestroy, pState>>

\* drainResponses: a whole response goes to the oldest entry.
newestEntry == pPending[Len(pPending)]
nextEntry == Head(pPending)
StdoutData ==
  /\ pStdout # <<>> /\ pPending # <<>>
  /\ pStdout' = Tail(pStdout)
  /\ Settle(nextEntry, "resolved", Head(pStdout))
  /\ pPending' = SelectSeq(pPending, LAMBDA p : p # nextEntry)
  /\ UNCHANGED <<pStdin, pChild, pClient, pDestroy, pState>>

\* "close", after both pipes have drained.
rejectsPending == ~pClient.expectedShutdown /\ pChild = "failed"
Close ==
  /\ pChild = "failed" /\ pStdout = <<>> /\ ~pClient.closed
  /\ pClient' = [pClient EXCEPT !.closed = TRUE, !.closeError = @ \/ rejectsPending]
  /\ IF rejectsPending
     THEN /\ pCall' = [c \in DOMAIN pCall |-> IF \E k \in DOMAIN pPending : pPending[k] = c
                         THEN [pCall[c] EXCEPT !.state = "rejected"] ELSE pCall[c]]
          /\ pPending' = <<>>
     ELSE UNCHANGED <<pCall, pPending>>
  /\ UNCHANGED <<pStdin, pStdout, pChild, pDestroy, pState>>

destroyClient ==
  /\ pChild \notin {"spawning", "never"} /\ pDestroy = "none"
  /\ pClient' = [pClient EXCEPT !.expectedShutdown = TRUE]
  /\ pDestroy' = "waiting"
  /\ UNCHANGED <<pCall, pPending, pStdin, pStdout, pChild, pState>>

DestroyReturns ==
  /\ pDestroy = "waiting" /\ pClient.closed
  /\ pDestroy' = "done"
  /\ UNCHANGED <<pCall, pPending, pStdin, pStdout, pChild, pClient, pState>>

----------------------------------------------------------------------------
PInit ==
  /\ pCall = <<>> /\ pPending = <<>> /\ pStdin = <<>> /\ pStdout = <<>>
  /\ pChild = "spawning"
  /\ pClient = [closed |-> FALSE, closeError |-> FALSE, expectedShutdown |-> FALSE]
  /\ pDestroy = "none"
  /\ pState = [modules |-> <<>>, rows |-> <<>>, regions |-> <<>>]

PNext ==
  \/ Spawned \/ SpawnError
  \/ \E req \in Requests : invokeRaw(req)
  \/ \E works \in BOOLEAN, heap \in Uninitialised : Serve(works, heap)
  \/ ChildDies \/ WriteFails \/ StdoutData \/ Close \/ destroyClient \/ DestroyReturns

PSpec == PInit /\ [][PNext]_pVars

----------------------------------------------------------------------------
(* A call is resolved with what the child answered to it, through pipelined   *)
(* requests, failed writes and the death of the child, for drainResponses      *)
(* pairs by order alone; and once the child has died on its own no caller is   *)
(* left waiting ("close" rejects what is pending).                            *)
CallsAreSettled ==
  \A c \in DOMAIN pCall :
    /\ pCall[c].state = "resolved" => pCall[c].answer.to = c
    /\ pClient.closed /\ ~pClient.expectedShutdown => pCall[c].state # "pending"

(* The rows of a schema are listed in the order of their ids, all different,  *)
(* whatever the heap held (next_runtime_host_row_id_for_schema): a handle     *)
(* names one row, and "ORDER BY rowId" needs no sort.                         *)
RowsInIdOrder ==
  \A i, j \in DOMAIN pState.rows :
    i < j /\ pState.rows[i].schema = pState.rows[j].schema => pState.rows[i].rowId < pState.rows[j].rowId
=============================================================================

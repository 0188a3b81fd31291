---------------------------- MODULE FlowRuntime ----------------------------
(***************************************************************************)
(* The compiled-flow runtime of src/flow/runtime-src/flow_runtime.cpp (one  *)
(* queue of frames per node, a rotating cursor over ready nodes, one open   *)
(* invocation) together with the host loop of src/flow/flowRuntimeHost.js   *)
(* that drives it.  drain() awaits a handler between begin and apply, so    *)
(* other calls of the host meet the runtime with an invocation open; the    *)
(* wasm calls themselves, and a stretch of drain() without an await, run to *)
(* the end before anything else does.  Payload bytes, frame ids the runtime *)
(* makes up itself and the statistics counters are left out.                *)
(***************************************************************************)
EXTENDS Naturals, Sequences, FiniteSets

CONSTANTS
    NodeCount,            \* FLOW_NODE_COUNT
    LinkedNodes,          \* nodes flow_node_is_linked accepts
    HandledNodes,         \* host-model nodes that drain() has a handler for
    FlowEdges,            \* g_edges: a sequence of edges with their type contract
    TriggerBindings,      \* g_trigger_bindings: a sequence
    RequiredPorts,        \* g_required_ports: pairs <<node, port>>
    kMaxInvocationFrames, \* 64 in the code
    frameBudget,          \* options.frameBudget of drain()
    GenerationRange,      \* 2^32 in the code
    TriggerFrames,        \* frames a caller may enqueue
    OutputLists,          \* sequences of outputs an invocation may produce
    Drains,               \* calls of drain() that may be under way
    MayReset,             \* whether resetState() is called
    MaxEnqueues, MaxBegins

FlowNodes == 0 .. NodeCount - 1

ASSUME FlowAssumption == /\ NodeCount \in Nat \ {0} /\ LinkedNodes \subseteq FlowNodes
                         /\ HandledNodes \subseteq FlowNodes \ LinkedNodes

VARIABLES
    fQueues,      \* g_queues
    fState,       \* g_node_states as the hosts read them
    fCurrent,     \* g_current_node and g_current_owned
    fCursor,      \* g_ready_cursor
    fGeneration,  \* g_invocation_generation
    fExternal,    \* g_active_external_frames: id -> references
    drains,       \* where each drain() is: idle, running, or awaiting a handler
    enqueues, begun, wasReset,
    passedOver,   \* history: begins of other nodes since this one became ready
    fCarried      \* history: outputs queued on each edge

flowVars == <<fQueues, fState, fCurrent, fCursor, fGeneration, fExternal, drains,
              enqueues, begun, wasReset, passedOver, fCarried>>

NotOpen == [node |-> NodeCount, frames |-> <<>>, nth |-> 0]
NotDraining == [pc |-> "idle", node |-> 0, nth |-> 0]

(* ---- readiness and the cursor ---- *)

flow_node_is_ready(n, queue, yielded, backlog) ==
    \/ yielded /\ backlog > 0
    \/ /\ queue # <<>>
       /\ \A r \in RequiredPorts : r[1] = n => \E i \in 1..Len(queue) : queue[i].port = r[2]

isReady(n) == flow_node_is_ready(n, fQueues[n], fState[n].yielded, fState[n].backlog)

firstByIndex(node) == isReady(node) /\ \A m \in FlowNodes : m < node => ~isReady(m)

flow_find_ready_node(node) ==
    \E offset \in FlowNodes :
        /\ node = (fCursor + offset) % NodeCount
        /\ isReady(node)
        /\ \A o \in 0 .. offset - 1 : ~isReady((fCursor + o) % NodeCount)

readyWhileOpen(node) == flow_find_ready_node(node)

get_ready_node_index(node) == fCurrent = NotOpen /\ flow_find_ready_node(node)

(* queued_frames and ready of a node are recomputed whenever its queue moves. *)
requeued(state, n, queue) ==
    [state EXCEPT !.queued = Len(queue),
                  !.ready = flow_node_is_ready(n, queue, state.yielded, state.backlog)]

(* Frames pushed at the back of the queues, one sequence for each node. *)
pushed(f, frames) ==
    LET queues == [n \in FlowNodes |-> f.queues[n] \o frames[n]]
    IN  [f EXCEPT !.queues = queues,
                  !.state = [n \in FlowNodes |-> IF frames[n] = <<>> THEN f.state[n]
                                                 ELSE requeued(f.state[n], n, queues[n])]]

(* The end of an invocation recomputes ready from what the node reported. *)
reported(state, n, queue, yielded, backlog) ==
    [state EXCEPT ![n].yielded = yielded, ![n].backlog = backlog,
                  ![n].ready = flow_node_is_ready(n, queue, yielded, backlog)]

(* ---- routing ---- *)

(* What one matching edge demands of an output: an opaque edge carries no    *)
(* identity; a typed edge takes its own identity, as a canonical FlatBuffer  *)
(* or in its aligned layout, or aligned bytes as canonical ones.             *)
edgeAdmits(edge, out) ==
    IF edge.opaque THEN out.schema = ""
    ELSE /\ out.schema \in {"", edge.schema}
         /\ IF out.aligned /\ edge.aligned THEN out.fits ELSE edge.canonical

matchingEdges(node, out) ==
    SelectSeq(FlowEdges, LAMBDA e : e.from = node /\ e.fromPort = out.port)

(* A copy of the output on each of the edges, in their order. *)
queuedOn(f, edges) ==
    LET into(n) == SelectSeq(edges, LAMBDA e : e.to = n)
    IN  [pushed(f, [n \in FlowNodes |-> [i \in 1..Len(into(n)) |->
                                            [port |-> into(n)[i].toPort, ext |-> 0]]])
         EXCEPT !.carried = [e \in 1..Len(FlowEdges) |->
                    @[e] + IF \E i \in 1..Len(edges) : edges[i] = FlowEdges[e] THEN 1 ELSE 0]]

admits(node, out) ==
    LET edges == matchingEdges(node, out)
    IN  \/ edges = <<>>
        \/ /\ out.mutable => out.transferred /\ Len(edges) = 1
           /\ \A i \in 1..Len(edges) : edgeAdmits(edges[i], out)

(* Pushes as it validates, up to the edge that refuses. *)
routeEdgeByEdge(node, out, f) ==
    LET edges == matchingEdges(node, out)
        admitted == {i \in 1..Len(edges) : \A j \in 1..i : edgeAdmits(edges[j], out)}
    IN  [queuedOn(f, SubSeq(edges, 1, Cardinality(admitted))) EXCEPT !.ok = admits(node, out)]

route_output(node, out, f) ==
    IF admits(node, out) THEN queuedOn(f, matchingEdges(node, out))
    ELSE [f EXCEPT !.ok = FALSE]

(* Outputs are routed in order up to the first that is rejected. *)
routeAll(node, outs, queues, state) ==
    LET after[i \in 0..Len(outs)] ==
            IF i = 0 THEN [ok |-> TRUE, queues |-> queues, state |-> state, carried |-> fCarried]
            ELSE IF after[i - 1].ok THEN route_output(node, outs[i], after[i - 1])
            ELSE after[i - 1]
    IN  after[Len(outs)]

(* ---- trigger frames ---- *)

flow_binding_accepts_descriptor(binding, f) ==
    /\ f.schema = binding.schema
    /\ IF f.opaque \/ binding.opaque THEN f.opaque /\ binding.opaque
       ELSE IF f.aligned THEN binding.aligned ELSE binding.canonical

boundTo(t) == SelectSeq(TriggerBindings, LAMBDA b : b.trigger = t)

flow_enqueue_binding(t, ext) ==
    LET framesFor(n) == LET into == SelectSeq(boundTo(t), LAMBDA b : b.target = n)
                        IN  [i \in 1..Len(into) |-> [port |-> into[i].port, ext |-> ext]]
    IN  \E f \in {pushed([queues |-> fQueues, state |-> fState],
                         [n \in FlowNodes |-> framesFor(n)])} :
            fQueues' = f.queues /\ fState' = f.state

(* A frame without a type is taken when the bindings agree on one type; a    *)
(* typed frame when every binding of the trigger accepts it.                 *)
triggerAccepts(t, f) ==
    /\ f.ext # 0 => fExternal[f.ext] = 0
    /\ IF f.schema = "untyped"
       THEN \A i, j \in 1..Len(boundTo(t)) : boundTo(t)[i].schema = boundTo(t)[j].schema
       ELSE \A i \in 1..Len(boundTo(t)) : flow_binding_accepts_descriptor(boundTo(t)[i], f)

Quiet == \A d \in Drains : drains[d].pc # "running"

EnqueueTriggerFrame(t, f) ==
    /\ Quiet /\ enqueues < MaxEnqueues
    /\ enqueues' = enqueues + 1
    /\ \/ /\ triggerAccepts(t, f)
          /\ flow_enqueue_binding(t, f.ext)
          /\ fExternal' = [i \in DOMAIN fExternal |->
                              fExternal[i] + IF i = f.ext THEN Len(boundTo(t)) ELSE 0]
       \/ ~triggerAccepts(t, f) /\ UNCHANGED <<fQueues, fState, fExternal>>
    /\ UNCHANGED <<fCurrent, fCursor, fGeneration, drains, begun, wasReset, passedOver,
                   fCarried>>

EnqueueTrigger(t) ==
    /\ Quiet /\ enqueues < MaxEnqueues
    /\ enqueues' = enqueues + 1
    /\ flow_enqueue_binding(t, 0)
    /\ UNCHANGED <<fCurrent, fCursor, fGeneration, fExternal, drains, begun, wasReset, passedOver,
                   fCarried>>

(* ---- invocations ---- *)

budgetOf(b) == IF b > 0 /\ b < kMaxInvocationFrames THEN b ELSE kMaxInvocationFrames

taken(node, b) == SubSeq(fQueues[node], 1, IF budgetOf(b) < Len(fQueues[node]) THEN budgetOf(b)
                                           ELSE Len(fQueues[node]))

nextGeneration == LET g == (fGeneration + 1) % GenerationRange IN IF g = 0 THEN 1 ELSE g

begin_node_invocation(node) ==
    /\ begun < MaxBegins
    /\ fGeneration' = nextGeneration
    /\ begun' = begun + 1
    /\ passedOver' = [n \in FlowNodes |-> IF n # node /\ isReady(n) THEN passedOver[n] + 1 ELSE 0]

left(node, b) == SubSeq(fQueues[node], Len(taken(node, b)) + 1, Len(fQueues[node]))

queuesLeft(node, b) == [fQueues EXCEPT ![node] = left(node, b)]

stateLeft(node, b) == [fState EXCEPT ![node] = requeued(@, node, left(node, b))]

forgetFirst(frames) ==
    [i \in DOMAIN fExternal |-> IF frames # <<>> /\ frames[1].ext = i THEN fExternal[i] - 1
                                ELSE fExternal[i]]

(* One reference goes for every tracked frame the invocation held. *)
released(frames) ==
    [i \in DOMAIN fExternal |->
        LET held == Cardinality({k \in 1..Len(frames) : frames[k].ext = i})
        IN  IF held < fExternal[i] THEN fExternal[i] - held ELSE 0]

nextCursor(node) == (node + 1) % NodeCount

(* A linked node: begin, dispatch and complete in one call.  The node's      *)
(* state is updated even when one of its outputs is rejected.                *)
DispatchLinked(d) ==
    /\ drains[d].pc = "running"
    /\ \E node \in LinkedNodes :
          /\ get_ready_node_index(node)
          /\ begin_node_invocation(node)
          /\ fCursor' = nextCursor(node)
          /\ \E b \in {kMaxInvocationFrames, frameBudget}, outs \in OutputLists :
                /\ fExternal' = released(taken(node, b))
                /\ \E routed \in {routeAll(node, outs, queuesLeft(node, b), stateLeft(node, b))},
                      yielded \in BOOLEAN, backlog \in 0..1 :
                      /\ fQueues' = routed.queues /\ fCarried' = routed.carried
                      /\ fState' = reported(routed.state, node, routed.queues[node],
                                            yielded, backlog)
    /\ UNCHANGED <<fCurrent, drains, enqueues, wasReset>>

(* A host-model node: its frames are taken; with a handler the drain awaits  *)
(* it, without one the invocation is completed and the frames are dropped.   *)
BeginHandled(d) ==
    /\ drains[d].pc = "running"
    /\ \E node \in HandledNodes :
          /\ get_ready_node_index(node)
          /\ begin_node_invocation(node)
          /\ fQueues' = queuesLeft(node, frameBudget)
          /\ fState' = stateLeft(node, frameBudget)
          /\ fCurrent' = [node |-> node, frames |-> taken(node, frameBudget), nth |-> begun']
          /\ drains' = [drains EXCEPT ![d] = [pc |-> "awaiting", node |-> node, nth |-> begun']]
    /\ UNCHANGED <<fCursor, fExternal, enqueues, wasReset, fCarried>>

DropUnhandled(d) ==
    /\ drains[d].pc = "running"
    /\ \E node \in FlowNodes \ (LinkedNodes \cup HandledNodes) :
          /\ get_ready_node_index(node)
          /\ begin_node_invocation(node)
          /\ fQueues' = queuesLeft(node, frameBudget)
          /\ fState' = stateLeft(node, frameBudget)
          /\ fExternal' = released(taken(node, frameBudget))
          /\ fCursor' = nextCursor(node)
    /\ UNCHANGED <<fCurrent, drains, enqueues, wasReset, fCarried>>

(* complete closes whatever invocation is open, and does nothing if none is. *)
complete_node_invocation ==
    IF fCurrent = NotOpen THEN UNCHANGED <<fCurrent, fExternal, fCursor>>
    ELSE /\ fExternal' = released(fCurrent.frames)
         /\ fCurrent' = NotOpen
         /\ fCursor' = nextCursor(fCurrent.node)

(* The host looks the type of an output up among the edges of its port and   *)
(* gives the runtime the identity of the edge it found.                      *)
edgesFound(node, out) ==
    SelectSeq(matchingEdges(node, out), LAMBDA e : /\ out.schema \in {"", e.schema}
                                                   /\ out.aligned => e.aligned /\ out.fits)

hostRefuses(node, out) ==
    \/ matchingEdges(node, out) # <<>> /\ edgesFound(node, out) = <<>>
    \/ out.mutable /\ ~out.transferred

hostOutput(node, out) ==
    IF edgesFound(node, out) = <<>> THEN out
    ELSE [out EXCEPT !.schema = edgesFound(node, out)[1].schema]

(* What drain() does with a handler's outputs.  A refusal, by the host or by  *)
(* the runtime, ends the drain with an error after the invocation is closed.  *)
HandlerSettles(d) ==
    /\ Quiet /\ drains[d].pc = "awaiting"
    /\ complete_node_invocation
    /\ \E outs \in OutputLists :
          LET node == drains[d].node
              thrown == \/ \E i \in 1..Len(outs) : hostRefuses(node, outs[i])
                        \/ fCurrent.node # node
          IN  \/ /\ thrown
                 /\ drains' = [drains EXCEPT ![d] = NotDraining]
                 /\ UNCHANGED <<fQueues, fState, fCarried>>
              \/ /\ ~thrown
                 /\ \E routed \in {routeAll(node, [i \in 1..Len(outs) |-> hostOutput(node, outs[i])],
                                           fQueues, fState)} :
                       /\ fQueues' = routed.queues /\ fCarried' = routed.carried
                       /\ \/ /\ ~routed.ok
                             /\ fState' = routed.state
                             /\ drains' = [drains EXCEPT ![d] = NotDraining]
                          \/ /\ routed.ok
                             /\ \E yielded \in BOOLEAN, backlog \in 0..1 :
                                   fState' = reported(routed.state, node, routed.queues[node],
                                                      yielded, backlog)
                             /\ drains' = [drains EXCEPT ![d].pc = "running"]
    /\ UNCHANGED <<fGeneration, enqueues, begun, wasReset, passedOver>>

DrainStarts(d) ==
    /\ Quiet /\ drains[d].pc = "idle"
    /\ drains' = [drains EXCEPT ![d].pc = "running"]
    /\ UNCHANGED <<fQueues, fState, fCurrent, fCursor, fGeneration, fExternal, enqueues, begun,
                   wasReset, passedOver, fCarried>>

(* No node to run, or maxIterations used up. *)
DrainEnds(d) ==
    /\ drains[d].pc = "running"
    /\ drains' = [drains EXCEPT ![d] = NotDraining]
    /\ UNCHANGED <<fQueues, fState, fCurrent, fCursor, fGeneration, fExternal, enqueues, begun,
                   wasReset, passedOver, fCarried>>

emptyState == [queued |-> 0, ready |-> FALSE, yielded |-> FALSE, backlog |-> 0]

reset_state ==
    /\ MayReset /\ Quiet /\ ~wasReset
    /\ wasReset' = TRUE
    /\ fQueues' = [n \in FlowNodes |-> <<>>]
    /\ fState' = [n \in FlowNodes |-> emptyState]
    /\ fExternal' = [i \in DOMAIN fExternal |-> 0]
    /\ fCurrent' = NotOpen
    /\ fCursor' = 0
    /\ fGeneration' = 0
    /\ passedOver' = [n \in FlowNodes |-> 0]
    /\ fCarried' = [e \in 1..Len(FlowEdges) |-> 0]
    /\ UNCHANGED <<drains, enqueues, begun>>

FlowInit ==
    /\ fQueues = [n \in FlowNodes |-> <<>>]
    /\ fState = [n \in FlowNodes |-> emptyState]
    /\ fCurrent = NotOpen
    /\ fCursor = 0
    /\ fGeneration = 0
    /\ fExternal = [i \in {f.ext : f \in TriggerFrames} \ {0} |-> 0]
    /\ drains = [d \in Drains |-> NotDraining]
    /\ enqueues = 0 /\ begun = 0 /\ wasReset = FALSE
    /\ passedOver = [n \in FlowNodes |-> 0]
    /\ fCarried = [e \in 1..Len(FlowEdges) |-> 0]

triggers == {TriggerBindings[b].trigger : b \in 1..Len(TriggerBindings)}

FlowNext ==
    \/ \E t \in triggers : EnqueueTrigger(t) \/ \E f \in TriggerFrames : EnqueueTriggerFrame(t, f)
    \/ \E d \in Drains : \/ DispatchLinked(d) \/ BeginHandled(d) \/ DropUnhandled(d)
                         \/ HandlerSettles(d) \/ DrainStarts(d) \/ DrainEnds(d)
    \/ reset_state

FlowSpec == FlowInit /\ [][FlowNext]_flowVars

-----------------------------------------------------------------------------

(* A ready node is passed over at most once by each other node: the rotating *)
(* cursor lets no node monopolise the scheduler, whether the linked loop or  *)
(* the host loop picked the nodes.                                           *)
PassedOverBound == \A n \in FlowNodes : passedOver[n] <= NodeCount - 1

(* While a drain awaits a handler, the invocation open in the runtime is the *)
(* one that drain began, so the handler's outputs leave the node they were   *)
(* computed for, and complete closes it and no other; short of resetState(). *)
AwaitedInvocationIsOpen ==
    \A d \in Drains : drains[d].pc = "awaiting" /\ ~wasReset =>
        fCurrent.node = drains[d].node /\ fCurrent.nth = drains[d].nth

heldFrames == UNION {{<<n, i>> : i \in 1..Len(fQueues[n])} : n \in FlowNodes}

(* What the runtime keeps beside its queues agrees with them on every path,  *)
(* error paths and resets included: the queue length and the ready flag that *)
(* the hosts read of a node, and the references to a caller's frame id, one  *)
(* for each copy of its frame that is queued or held by the open invocation. *)
BookkeepingAgrees ==
    /\ \A n \in FlowNodes : fState[n].queued = Len(fQueues[n]) /\ fState[n].ready = isReady(n)
    /\ \A i \in DOMAIN fExternal :
         fExternal[i] = Cardinality({h \in heldFrames : fQueues[h[1]][h[2]].ext = i})
                        + Cardinality({k \in 1..Len(fCurrent.frames) : fCurrent.frames[k].ext = i})

(* An output that fans out to several edges is queued on all of them or, if  *)
(* one of them refuses it, on none: the edges that leave one port have       *)
(* carried the same number of frames, however many outputs were rejected.    *)
FanOutIsAllOrNothing ==
    \A e, x \in 1..Len(FlowEdges) :
        FlowEdges[e].from = FlowEdges[x].from /\ FlowEdges[e].fromPort = FlowEdges[x].fromPort
            => fCarried[e] = fCarried[x]
=============================================================================

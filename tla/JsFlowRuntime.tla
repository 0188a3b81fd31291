--------------------------- MODULE JsFlowRuntime ---------------------------
(* The flow interpreter in JavaScript (jsFlowRuntime.js): a queue for every  *)
(* input port, back-pressure on entry, and drain(), which invokes the first  *)
(* node in program order whose ports have frames.                            *)
(*                                                                          *)
(* An action runs from one await to the next: drain() awaits the method it    *)
(* invokes and the sink callback, and other drains and enqueues may run       *)
(* meanwhile.  A frame is the number it was made with; the copies made for    *)
(* the edges of a fan-out share it.                                          *)
EXTENDS Naturals, Sequences

CONSTANTS
  JsNodes,        \* program order: [id, ports, maxBatch, known]; ports: [id, required]
  JsEdges,        \* [from, fromPort, to, toPort, policy, depth]
  JsBindings,     \* trigger bindings: [trigger, to, toPort, policy, depth]
  JsOutputs,      \* what a method may return: sequences of output ports
  HasSink,        \* onSinkOutput is given
  maxInvocations, \* maxInvocationsPerDrain
  JsDrains,       \* drain() calls that may be under way at once
  MaxFrames       \* frames made

VARIABLES
  jsQueues,   \* per node and port: the frames waiting
  jsDrain,    \* per call: pc, node, outputs still to route, count, yielded
  jsFrames,   \* frames made so far
  madeBy,     \* per frame: the drain that routed it, 0 for a trigger
  invoked,    \* per node and port: frames handed to the method, in order
  discarded   \* per node: frames taken from a queue and not handed on

jsVars == <<jsQueues, jsDrain, jsFrames, madeBy, invoked, discarded>>

NodeAt == 1..Len(JsNodes)
PortsOf(n) == JsNodes[n].ports
NodeOf(id) == CHOOSE n \in NodeAt : JsNodes[n].id = id
JsPorts == UNION {{<<n, PortsOf(n)[k].id>> : k \in DOMAIN PortsOf(n)} : n \in NodeAt}
IdleDrain == [pc |-> "idle", node |-> 0, outs |-> <<>>, count |-> 0, yielded |-> FALSE]
Smaller(a, b) == IF a < b THEN a ELSE b
Last(q, n) == SubSeq(q, Len(q) - Smaller(n, Len(q)) + 1, Len(q))

----------------------------------------------------------------------------
(* Back-pressure: one frame enters a queue.  A depth that is absent or not    *)
(* positive is Infinity.                                                     *)

normalizeQueueDepth(value) == IF value > 0 THEN value ELSE MaxFrames + 1

applyBackpressure(queue, frame, policy, queueDepth) ==
  LET depth == normalizeQueueDepth(queueDepth) IN
  CASE Len(queue) < depth -> Append(queue, frame)
    [] Len(queue) >= depth /\ policy = "drop-oldest" -> Append(Tail(queue), frame)
    [] Len(queue) >= depth /\ policy = "drop-newest" -> queue
    [] OTHER -> Last(Append(queue, frame), depth)

\* One frame goes down every route, in order; several may lead to one queue.
enterOne(queues, route, frame) ==
  [queues EXCEPT ![<<NodeOf(route.to), route.toPort>>] =
     applyBackpressure(@, frame, route.policy, route.depth)]
enter(queues, routes, frame) ==
  LET after[k \in 0..Len(routes)] ==
        IF k = 0 THEN queues ELSE enterOne(after[k - 1], routes[k], frame)
  IN after[Len(routes)]

enqueueTriggerFrames(t) ==
  /\ jsFrames < MaxFrames
  /\ jsFrames' = jsFrames + 1
  /\ madeBy' = Append(madeBy, 0)
  /\ jsQueues' = enter(jsQueues, SelectSeq(JsBindings, LAMBDA b : b.trigger = t), jsFrames + 1)
  /\ UNCHANGED <<jsDrain, invoked, discarded>>

\* The caller names the port and the back-pressure itself.
enqueueNodeFrames(route) ==
  /\ jsFrames < MaxFrames
  /\ jsFrames' = jsFrames + 1
  /\ madeBy' = Append(madeBy, 0)
  /\ jsQueues' = enterOne(jsQueues, route, jsFrames + 1)
  /\ UNCHANGED <<jsDrain, invoked, discarded>>

----------------------------------------------------------------------------
(* The scan of drain() for a ready node.  It takes frames port by port and    *)
(* stops at a required port that is empty.                                   *)

stopsAt(n) ==
  LET missing == {k \in DOMAIN PortsOf(n) : PortsOf(n)[k].required /\ jsQueues[<<n, PortsOf(n)[k].id>>] = <<>>}
  IN IF missing = {} THEN Len(PortsOf(n)) + 1 ELSE CHOOSE k \in missing : \A j \in missing : k <= j

takesPort(n, k) == k < stopsAt(n)
Drained(n, port) == \E k \in DOMAIN PortsOf(n) : PortsOf(n)[k].id = port /\ takesPort(n, k)

\* At most maxBatch frames of one port, the oldest.
drainNewest(n, port) ==
  LET queue == jsQueues[<<n, port>>]
      size == Smaller(JsNodes[n].maxBatch, Len(queue))
  IN [batch |-> Last(queue, size), rest |-> SubSeq(queue, 1, Len(queue) - size)]
drainReadyFrames(n, port) ==
  LET queue == jsQueues[<<n, port>>]
      size == Smaller(JsNodes[n].maxBatch, Len(queue))
  IN [batch |-> SubSeq(queue, 1, size), rest |-> SubSeq(queue, size + 1, Len(queue))]

candidateInputs(n) ==
  LET upTo[k \in 0..Len(PortsOf(n))] ==
        IF k = 0 THEN <<>>
        ELSE upTo[k - 1] \o (IF takesPort(n, k)
                             THEN [i \in DOMAIN drainReadyFrames(n, PortsOf(n)[k].id).batch |->
                                     <<PortsOf(n)[k].id, drainReadyFrames(n, PortsOf(n)[k].id).batch[i]>>]
                             ELSE <<>>)
  IN upTo[Len(PortsOf(n))]

missingRequiredInput(n) == stopsAt(n) <= Len(PortsOf(n))
Ready(n) == JsNodes[n].known /\ ~missingRequiredInput(n) /\ candidateInputs(n) # <<>>
readyNode == IF \E n \in NodeAt : Ready(n)
             THEN CHOOSE n \in NodeAt : Ready(n) /\ \A m \in 1..(n - 1) : ~Ready(m) ELSE 0
Scanned(n, found) == JsNodes[n].known /\ (found = 0 \/ n <= found)

queuesAfterScan(found) == [np \in JsPorts |->
  IF Scanned(np[1], found) /\ jsQueues[np] # <<>> /\ Drained(np[1], np[2])
  THEN drainReadyFrames(np[1], np[2]).rest ELSE jsQueues[np]]
dropsOf(n, found) ==
  IF Scanned(n, found) /\ n # found
  THEN {input[2] : input \in {candidateInputs(n)[i] : i \in DOMAIN candidateInputs(n)}} ELSE {}

\* The loop of drain(): scan, then invoke or return.
Scan(d, count, n, inputs) ==
  /\ jsDrain' = [jsDrain EXCEPT ![d] =
       IF n = 0 THEN IdleDrain
       ELSE [IdleDrain EXCEPT !.pc = "invoke", !.node = n, !.count = count]]
  /\ jsQueues' = queuesAfterScan(n)
  /\ discarded' = [m \in NodeAt |-> discarded[m] \union dropsOf(m, n)]
  /\ invoked' = [np \in JsPorts |-> IF np[1] # n THEN invoked[np]
       ELSE invoked[np] \o (LET own == SelectSeq(inputs, LAMBDA i : i[1] = np[2])
                            IN [i \in DOMAIN own |-> own[i][2]])]
  /\ UNCHANGED <<jsFrames, madeBy>>

Iterate(d, count) ==
  IF count < maxInvocations
  THEN \E n \in {readyNode} : \E inputs \in {IF n = 0 THEN <<>> ELSE candidateInputs(n)} : Scan(d, count, n, inputs)
  ELSE /\ jsDrain' = [jsDrain EXCEPT ![d] = IdleDrain]
       /\ UNCHANGED <<jsQueues, jsFrames, madeBy, invoked, discarded>>

drain(d) == jsDrain[d].pc = "idle" /\ Iterate(d, 0)

\* Output frames are routed one by one; one without an edge goes to the sink,
\* which is awaited.
edgesFor(n, port) == SelectSeq(JsEdges, LAMBDA e : e.from = JsNodes[n].id /\ e.fromPort = port)
toSink(n, port) == HasSink /\ edgesFor(n, port) = <<>>

Route(d, outs, yielded) ==
  LET n == jsDrain[d].node
      sinks == {k \in DOMAIN outs : toSink(n, outs[k])}
      upTo == IF sinks = {} THEN Len(outs) ELSE (CHOOSE k \in sinks : \A j \in sinks : k <= j) - 1
      after[k \in 0..upTo] ==
        IF k = 0 THEN jsQueues ELSE enter(after[k - 1], edgesFor(n, outs[k]), jsFrames + k)
  IN /\ jsFrames + upTo <= MaxFrames
     /\ jsQueues' = after[upTo]
     /\ jsFrames' = jsFrames + upTo
     /\ madeBy' = madeBy \o [k \in 1..upTo |-> d]
     /\ jsDrain' = [jsDrain EXCEPT ![d].pc = IF sinks = {} THEN "loop" ELSE "sink",
                                   ![d].outs = SubSeq(outs, upTo + 2, Len(outs)), ![d].yielded = yielded]
     /\ UNCHANGED <<invoked, discarded>>

InvokeResolves(d) ==
  jsDrain[d].pc = "invoke" /\ \E outs \in JsOutputs, yielded \in BOOLEAN : Route(d, outs, yielded)

SinkResolves(d) == jsDrain[d].pc = "sink" /\ Route(d, jsDrain[d].outs, jsDrain[d].yielded)

\* The same turn goes on: nothing else runs between routing and the next scan.
Continues(d) ==
  /\ jsDrain[d].pc = "loop"
  /\ IF jsDrain[d].yielded
     THEN jsDrain' = [jsDrain EXCEPT ![d] = IdleDrain]
          /\ UNCHANGED <<jsQueues, jsFrames, madeBy, invoked, discarded>>
     ELSE Iterate(d, jsDrain[d].count + 1)

\* The method or the sink rejects: drain() rejects, the rest is not routed.
Rejects(d) ==
  /\ jsDrain[d].pc \in {"invoke", "sink"}
  /\ jsDrain' = [jsDrain EXCEPT ![d] = IdleDrain]
  /\ UNCHANGED <<jsQueues, jsFrames, madeBy, invoked, discarded>>

\* loadProgram, with the same program, while drains may be awaiting.
loadProgram ==
  /\ jsQueues' = [np \in JsPorts |-> <<>>]
  /\ UNCHANGED <<jsDrain, jsFrames, madeBy, invoked, discarded>>

----------------------------------------------------------------------------
JsInit ==
  /\ jsQueues = [np \in JsPorts |-> <<>>]
  /\ jsDrain = [d \in JsDrains |-> IdleDrain]
  /\ jsFrames = 0 /\ madeBy = <<>>
  /\ invoked = [np \in JsPorts |-> <<>>]
  /\ discarded = [n \in NodeAt |-> {}]

Running == {d \in JsDrains : jsDrain[d].pc = "loop"}

JsNext ==
  IF Running # {} THEN \E d \in Running : Continues(d)
  ELSE \/ \E b \in DOMAIN JsBindings : enqueueTriggerFrames(JsBindings[b].trigger)
       \/ \E e \in DOMAIN JsEdges : enqueueNodeFrames(JsEdges[e])
       \/ \E d \in JsDrains : drain(d) \/ InvokeResolves(d) \/ SinkResolves(d) \/ Rejects(d)
       \/ loadProgram

JsSpec == JsInit /\ [][JsNext]_jsVars

----------------------------------------------------------------------------

OnlyFirstRequired(n) == \A k \in DOMAIN PortsOf(n) : PortsOf(n)[k].required => k = 1

(* A frame reaches its port once, in the order in which the frames of its      *)
(* drain() were made, through any back-pressure and any interleaving of        *)
(* drains; and one the scan has taken reaches the method, if the method's only *)
(* required port is the first: others lose the frames of the ports before an   *)
(* empty required one (drainReadyFrames, drain).                              *)
FramesArriveInOrder ==
  /\ \A np \in JsPorts :
       LET all == invoked[np] \o jsQueues[np] IN
       \A i, j \in DOMAIN all : i < j =>
         all[i] # all[j] /\ (madeBy[all[i]] = madeBy[all[j]] => all[i] < all[j])
  /\ \A n \in NodeAt : OnlyFirstRequired(n) => discarded[n] = {}
=============================================================================

------------------------- MODULE FlowRuntimeProofs -------------------------
(***************************************************************************)
(* The scheduler of the flow runtime is fair for every program: a node that *)
(* is ready is passed over at most NodeCount - 1 times.                     *)
(*                                                                         *)
(* PassedOverBound is not inductive: how often a node may still be passed   *)
(* over depends on how far the cursor is from it.  CursorInv adds the two   *)
(* up.  A begin moves the cursor past the node it chose; a ready node is    *)
(* beyond that one, so it comes nearer by at least the one it is passed     *)
(* over, and for a node that is not ready the count starts again.           *)
(*                                                                         *)
(* The second result is about the drains of the host that overlap: while a  *)
(* handler runs, the invocation it was started for stays the open one.      *)
(***************************************************************************)
EXTENDS FlowRuntime, TLAPS

\* The cursor as it will be once the open invocation is complete.
CursorAhead == IF fCurrent = NotOpen THEN fCursor ELSE nextCursor(fCurrent.node)

\* Steps of the cursor from c to n.
Dist(c, n) == IF c <= n THEN n - c ELSE n - c + NodeCount

\* x modulo NodeCount, for an x below twice NodeCount.
Wrapped(x) == IF x < NodeCount THEN x ELSE x - NodeCount

CursorInv ==
    /\ fCursor \in FlowNodes
    /\ fCurrent # NotOpen => fCurrent.node \in FlowNodes
    /\ passedOver \in [FlowNodes -> Nat]
    /\ \A n \in FlowNodes : passedOver[n] + Dist(CursorAhead, n) <= NodeCount - 1

-----------------------------------------------------------------------------

\* The cursor wraps at most once.
LEMMA WrapOnce ==
    ASSUME NEW x \in Nat, x < NodeCount + NodeCount
    PROVE  x % NodeCount = Wrapped(x)
<1>1. CASE x < NodeCount
  BY <1>1, FlowAssumption DEF Wrapped
<1>2. CASE x >= NodeCount
  <2>1. PICK y \in Nat : x = y + NodeCount /\ y < NodeCount
    BY <1>2, FlowAssumption
  <2>2. (y + NodeCount) % NodeCount = y % NodeCount
    BY <2>1, FlowAssumption
  <2> QED BY <1>2, <2>1, <2>2, FlowAssumption DEF Wrapped
<1> QED BY <1>1, <1>2, FlowAssumption

LEMMA DistRange ==
    ASSUME NEW c \in FlowNodes, NEW n \in FlowNodes
    PROVE  /\ Dist(c, n) \in FlowNodes
           /\ (c + Dist(c, n)) % NodeCount = n
<1>1. Dist(c, n) \in FlowNodes
  BY FlowAssumption DEF Dist, FlowNodes
<1>2. c + Dist(c, n) \in Nat /\ c + Dist(c, n) < NodeCount + NodeCount
  BY <1>1, FlowAssumption DEF FlowNodes
<1>3. (c + Dist(c, n)) % NodeCount = Wrapped(c + Dist(c, n))
  BY <1>2, WrapOnce, Zenon
<1> QED BY <1>1, <1>3, FlowAssumption DEF Dist, FlowNodes, Wrapped

LEMMA NextCursor ==
    ASSUME NEW node \in FlowNodes
    PROVE  nextCursor(node) = IF node + 1 < NodeCount THEN node + 1 ELSE 0
<1>1. node + 1 \in Nat /\ node + 1 < NodeCount + NodeCount /\ node + 1 <= NodeCount
  BY FlowAssumption DEF FlowNodes
<1>2. (node + 1) % NodeCount = Wrapped(node + 1)
  BY <1>1, WrapOnce, Zenon
<1> QED BY <1>1, <1>2, FlowAssumption DEF nextCursor, FlowNodes, Wrapped

\* The cursor moves from c past the node at offset: every node beyond it comes
\* nearer by offset + 1.
LEMMA CursorAdvances ==
    ASSUME NEW c \in FlowNodes, NEW offset \in FlowNodes, NEW n \in FlowNodes,
           NEW node \in FlowNodes, node = (c + offset) % NodeCount,
           Dist(c, n) > offset
    PROVE  Dist(nextCursor(node), n) = Dist(c, n) - offset - 1
<1>1. c + offset \in Nat /\ c + offset < NodeCount + NodeCount
  BY FlowAssumption DEF FlowNodes
<1>2. node = Wrapped(c + offset)
  BY <1>1, WrapOnce, Zenon
<1> QED BY <1>2, NextCursor, FlowAssumption DEF Dist, FlowNodes, Wrapped

\* A begin of the node the scheduler found keeps the bound.
LEMMA BeginKeepsBound ==
    ASSUME CursorInv, NEW node \in FlowNodes, get_ready_node_index(node),
           begin_node_invocation(node)
    PROVE  /\ fCurrent = NotOpen /\ nextCursor(node) \in FlowNodes
           /\ passedOver' \in [FlowNodes -> Nat]
           /\ \A n \in FlowNodes : passedOver'[n] + Dist(nextCursor(node), n) <= NodeCount - 1
<1> DEFINE c == fCursor
<1>1. fCurrent = NotOpen /\ flow_find_ready_node(node)
  BY DEF get_ready_node_index
<1>2. /\ c \in FlowNodes /\ passedOver \in [FlowNodes -> Nat]
      /\ \A n \in FlowNodes : passedOver[n] + Dist(c, n) <= NodeCount - 1
  BY <1>1 DEF CursorInv, CursorAhead
<1>3. passedOver' = [n \in FlowNodes |-> IF n # node /\ isReady(n) THEN passedOver[n] + 1 ELSE 0]
  BY DEF begin_node_invocation
<1>4. nextCursor(node) \in FlowNodes
  BY NextCursor, FlowAssumption DEF FlowNodes
<1>5. PICK offset \in FlowNodes :
        /\ node = (c + offset) % NodeCount
        /\ \A o \in 0 .. offset - 1 : ~isReady((c + o) % NodeCount)
  BY <1>1 DEF flow_find_ready_node
<1>6. ASSUME NEW n \in FlowNodes
      PROVE  passedOver'[n] + Dist(nextCursor(node), n) <= NodeCount - 1
  <2>1. /\ Dist(nextCursor(node), n) \in FlowNodes
        /\ Dist(c, n) \in FlowNodes /\ (c + Dist(c, n)) % NodeCount = n
    BY <1>2, <1>4, DistRange
  <2>2. CASE ~(n # node /\ isReady(n))
    <3>1. passedOver'[n] = 0
      BY <1>3, <2>2
    <3> QED BY <2>1, <3>1, FlowAssumption DEF FlowNodes
  <2>3. CASE n # node /\ isReady(n)
    <3>1. Dist(c, n) # offset
      BY <1>5, <2>1, <2>3
    <3>2. Dist(c, n) \notin 0 .. offset - 1
      BY <1>5, <2>1, <2>3
    <3>3. Dist(c, n) > offset
      BY <2>1, <3>1, <3>2, FlowAssumption DEF FlowNodes
    <3>4. Dist(nextCursor(node), n) = Dist(c, n) - offset - 1
      BY <1>2, <1>5, <3>3, CursorAdvances
    <3>5. passedOver'[n] = passedOver[n] + 1
      BY <1>3, <2>3
    <3>6. passedOver[n] \in Nat /\ passedOver[n] + Dist(c, n) <= NodeCount - 1
      BY <1>2
    <3> HIDE DEF c
    <3> QED BY <2>1, <3>4, <3>5, <3>6, FlowAssumption DEF FlowNodes
  <2> QED BY <2>2, <2>3
<1>7. passedOver' \in [FlowNodes -> Nat]
  BY <1>2, <1>3
<1> QED BY <1>1, <1>4, <1>6, <1>7

\* The same bound, told from the cursor of the next state.
LEMMA CursorInvHolds ==
    ASSUME fCursor' \in FlowNodes,
           (fCurrent # NotOpen => fCurrent.node \in FlowNodes)',
           passedOver' \in [FlowNodes -> Nat],
           NEW c, CursorAhead' = c,
           \A n \in FlowNodes : passedOver'[n] + Dist(c, n) <= NodeCount - 1
    PROVE  CursorInv'
BY DEF CursorInv, Dist, FlowNodes

LEMMA CursorInvInit == FlowInit => CursorInv
<1> SUFFICES ASSUME FlowInit PROVE CursorInv
  OBVIOUS
<1>1. fCursor = 0 /\ fCurrent = NotOpen /\ passedOver = [n \in FlowNodes |-> 0]
  BY DEF FlowInit
<1>2. 0 \in FlowNodes /\ CursorAhead = 0
  BY <1>1, FlowAssumption DEF CursorAhead, FlowNodes
<1>3. \A n \in FlowNodes : passedOver[n] + Dist(CursorAhead, n) <= NodeCount - 1
  BY <1>1, <1>2, FlowAssumption DEF Dist, FlowNodes
<1> QED BY <1>1, <1>2, <1>3 DEF CursorInv

LEMMA CursorInvNext == CursorInv /\ [FlowNext]_flowVars => CursorInv'
<1> SUFFICES ASSUME CursorInv, [FlowNext]_flowVars PROVE CursorInv'
  OBVIOUS
<1>inv. /\ fCursor \in FlowNodes /\ (fCurrent # NotOpen => fCurrent.node \in FlowNodes)
        /\ passedOver \in [FlowNodes -> Nat]
        /\ \A n \in FlowNodes : passedOver[n] + Dist(CursorAhead, n) <= NodeCount - 1
  BY DEF CursorInv
<1>same. ASSUME UNCHANGED <<fCurrent, fCursor, passedOver>> PROVE CursorInv'
  BY <1>inv, <1>same DEF CursorInv, CursorAhead, Dist, NotOpen, nextCursor, FlowNodes
<1>1. ASSUME NEW t \in triggers, EnqueueTrigger(t) PROVE CursorInv'
  BY <1>1, <1>same DEF EnqueueTrigger
<1>2. ASSUME NEW t \in triggers, NEW f \in TriggerFrames, EnqueueTriggerFrame(t, f)
      PROVE  CursorInv'
  BY <1>2, <1>same DEF EnqueueTriggerFrame
<1>3. ASSUME NEW d \in Drains, DispatchLinked(d) PROVE CursorInv'
  <2>1. PICK node \in LinkedNodes :
          /\ get_ready_node_index(node) /\ begin_node_invocation(node)
          /\ fCursor' = nextCursor(node)
    BY <1>3 DEF DispatchLinked
  <2>2. node \in FlowNodes /\ fCurrent' = fCurrent
    BY <1>3, FlowAssumption DEF DispatchLinked
  <2>3. /\ fCurrent = NotOpen /\ nextCursor(node) \in FlowNodes
        /\ passedOver' \in [FlowNodes -> Nat]
        /\ \A n \in FlowNodes : passedOver'[n] + Dist(nextCursor(node), n) <= NodeCount - 1
    BY <2>1, <2>2, BeginKeepsBound
  <2>4. CursorAhead' = nextCursor(node)
    BY <2>1, <2>2, <2>3 DEF CursorAhead, NotOpen
  <2> QED BY <2>1, <2>2, <2>3, <2>4, CursorInvHolds DEF NotOpen
<1>4. ASSUME NEW d \in Drains, BeginHandled(d) PROVE CursorInv'
  <2>1. PICK node \in HandledNodes :
          /\ get_ready_node_index(node) /\ begin_node_invocation(node)
          /\ fCurrent' = [node |-> node, frames |-> taken(node, frameBudget), nth |-> begun']
    BY <1>4 DEF BeginHandled
  <2>2. node \in FlowNodes /\ fCursor' = fCursor
    BY <1>4, FlowAssumption DEF BeginHandled
  <2>3. /\ fCurrent = NotOpen /\ nextCursor(node) \in FlowNodes
        /\ passedOver' \in [FlowNodes -> Nat]
        /\ \A n \in FlowNodes : passedOver'[n] + Dist(nextCursor(node), n) <= NodeCount - 1
    BY <2>1, <2>2, BeginKeepsBound
  <2>4. fCurrent'.node = node
    BY <2>1
  <2>5. fCurrent' # NotOpen
    BY <2>2, <2>4, FlowAssumption DEF NotOpen, FlowNodes
  <2>6. CursorAhead' = nextCursor(node)
    BY <2>4, <2>5 DEF CursorAhead, NotOpen, nextCursor
  <2> QED BY <1>inv, <2>2, <2>3, <2>4, <2>5, <2>6, CursorInvHolds DEF NotOpen
<1>5. ASSUME NEW d \in Drains, DropUnhandled(d) PROVE CursorInv'
  <2>1. PICK node \in FlowNodes :
          /\ get_ready_node_index(node) /\ begin_node_invocation(node)
          /\ fCursor' = nextCursor(node)
    BY <1>5 DEF DropUnhandled
  <2>2. fCurrent' = fCurrent
    BY <1>5 DEF DropUnhandled
  <2>3. /\ fCurrent = NotOpen /\ nextCursor(node) \in FlowNodes
        /\ passedOver' \in [FlowNodes -> Nat]
        /\ \A n \in FlowNodes : passedOver'[n] + Dist(nextCursor(node), n) <= NodeCount - 1
    BY <2>1, <2>2, BeginKeepsBound
  <2>4. CursorAhead' = nextCursor(node)
    BY <2>1, <2>2, <2>3 DEF CursorAhead, NotOpen
  <2> QED BY <2>1, <2>2, <2>3, <2>4, CursorInvHolds DEF NotOpen
<1>6. ASSUME NEW d \in Drains, HandlerSettles(d) PROVE CursorInv'
  <2>1. complete_node_invocation /\ passedOver' = passedOver
    BY <1>6 DEF HandlerSettles
  <2>2. CASE fCurrent = NotOpen
    BY <2>1, <2>2, <1>same DEF complete_node_invocation
  <2>3. CASE fCurrent # NotOpen
    <3>1. fCurrent' = NotOpen /\ fCursor' = nextCursor(fCurrent.node)
      BY <2>1, <2>3 DEF complete_node_invocation
    <3>2. nextCursor(fCurrent.node) \in FlowNodes
      BY <1>inv, <2>3, NextCursor, FlowAssumption DEF FlowNodes
    <3>3. CursorAhead' = CursorAhead
      BY <2>3, <3>1 DEF CursorAhead, NotOpen, nextCursor
    <3> QED BY <1>inv, <2>1, <3>1, <3>2, <3>3, CursorInvHolds DEF NotOpen
  <2> QED BY <2>2, <2>3
<1>7. ASSUME NEW d \in Drains, DrainStarts(d) \/ DrainEnds(d) PROVE CursorInv'
  BY <1>7, <1>same DEF DrainStarts, DrainEnds
<1>8. CASE reset_state
  <2>1. fCursor' = 0 /\ fCurrent' = NotOpen /\ passedOver' = [n \in FlowNodes |-> 0]
    BY <1>8 DEF reset_state
  <2>2. 0 \in FlowNodes /\ CursorAhead' = 0
    BY <2>1, FlowAssumption DEF CursorAhead, FlowNodes, NotOpen
  <2>3. \A n \in FlowNodes : passedOver'[n] + Dist(0, n) <= NodeCount - 1
    BY <2>1, FlowAssumption DEF Dist, FlowNodes
  <2> QED BY <2>1, <2>2, <2>3, CursorInvHolds DEF NotOpen
<1>9. CASE UNCHANGED flowVars
  BY <1>9, <1>same DEF flowVars
<1> QED BY <1>1, <1>2, <1>3, <1>4, <1>5, <1>6, <1>7, <1>8, <1>9 DEF FlowNext

LEMMA CursorInvBound == CursorInv => PassedOverBound
<1> SUFFICES ASSUME CursorInv, NEW n \in FlowNodes PROVE passedOver[n] <= NodeCount - 1
  BY DEF PassedOverBound
<1>1. CursorAhead \in FlowNodes
  <2>1. CASE fCurrent = NotOpen
    BY <2>1 DEF CursorInv, CursorAhead
  <2>2. CASE fCurrent # NotOpen
    <3>1. fCurrent.node \in FlowNodes /\ CursorAhead = nextCursor(fCurrent.node)
      BY <2>2 DEF CursorInv, CursorAhead
    <3> QED BY <3>1, NextCursor, FlowAssumption DEF FlowNodes
  <2> QED BY <2>1, <2>2
<1>2. Dist(CursorAhead, n) \in FlowNodes /\ passedOver[n] \in Nat
  BY <1>1, DistRange DEF CursorInv
<1> QED BY <1>2, FlowAssumption DEF CursorInv, FlowNodes

(* For every program, however the linked loop and any number of drains share *)
(* the cursor, a node that is ready is passed over by the others at most      *)
(* NodeCount - 1 times before it runs (flow_find_ready_node, g_ready_cursor). *)
THEOREM SchedulerIsFair == FlowSpec => []PassedOverBound
<1>1. FlowSpec => []CursorInv
  BY CursorInvInit, CursorInvNext, PTL DEF FlowSpec
<1> QED BY <1>1, CursorInvBound, PTL

-----------------------------------------------------------------------------
(* At most one drain awaits a handler, and the open invocation is its own:   *)
(* every begin needs the runtime to have none open.                           *)
AwaitInv ==
    /\ begun \in Nat
    /\ drains \in [Drains -> [pc : {"idle", "running", "awaiting"}, node : FlowNodes, nth : Nat]]
    /\ ~wasReset =>
         /\ AwaitedInvocationIsOpen
         /\ \A d, e \in Drains : drains[d].pc = "awaiting" /\ drains[e].pc = "awaiting" => d = e

\* Nothing that matters to the awaiting drains has moved.
LEMMA AwaitInvSame ==
    ASSUME AwaitInv, UNCHANGED <<fCurrent, wasReset>>, begun' \in Nat,
           drains' \in [Drains -> [pc : {"idle", "running", "awaiting"}, node : FlowNodes, nth : Nat]],
           \A d \in Drains : drains'[d].pc = "awaiting" => drains'[d] = drains[d]
    PROVE  AwaitInv'
BY DEF AwaitInv, AwaitedInvocationIsOpen

\* With an invocation closed, no drain awaits one.
LEMMA NoneAwaits ==
    ASSUME AwaitInv, ~wasReset, fCurrent = NotOpen, NEW d \in Drains
    PROVE  drains[d].pc # "awaiting"
<1>1. drains[d].node # NodeCount
  BY FlowAssumption DEF AwaitInv, FlowNodes
<1> QED BY <1>1 DEF AwaitInv, AwaitedInvocationIsOpen, NotOpen

LEMMA AwaitInvNext == AwaitInv /\ [FlowNext]_flowVars => AwaitInv'
<1> SUFFICES ASSUME AwaitInv, [FlowNext]_flowVars PROVE AwaitInv'
  OBVIOUS
<1> DEFINE Drain == [pc : {"idle", "running", "awaiting"}, node : FlowNodes, nth : Nat]
<1>type. begun \in Nat /\ drains \in [Drains -> Drain] /\ NotDraining \in Drain
  BY FlowAssumption DEF AwaitInv, NotDraining, FlowNodes
<1>same. ASSUME UNCHANGED <<fCurrent, wasReset, drains>>, begun' \in Nat PROVE AwaitInv'
  BY <1>same, <1>type, AwaitInvSame
<1>1. ASSUME NEW t \in triggers, EnqueueTrigger(t) PROVE AwaitInv'
  BY <1>1, <1>same, <1>type DEF EnqueueTrigger
<1>2. ASSUME NEW t \in triggers, NEW f \in TriggerFrames, EnqueueTriggerFrame(t, f)
      PROVE  AwaitInv'
  BY <1>2, <1>same, <1>type DEF EnqueueTriggerFrame
<1>3. ASSUME NEW d \in Drains, DispatchLinked(d) \/ DropUnhandled(d) PROVE AwaitInv'
  <2>1. begun' \in Nat
    BY <1>3, <1>type DEF DispatchLinked, DropUnhandled, begin_node_invocation
  <2> QED BY <1>3, <2>1, <1>same DEF DispatchLinked, DropUnhandled
<1>4. ASSUME NEW d \in Drains, BeginHandled(d) PROVE AwaitInv'
  <2>1. PICK node \in HandledNodes :
          /\ get_ready_node_index(node) /\ begin_node_invocation(node)
          /\ fCurrent' = [node |-> node, frames |-> taken(node, frameBudget), nth |-> begun']
          /\ drains' = [drains EXCEPT ![d] = [pc |-> "awaiting", node |-> node, nth |-> begun']]
    BY <1>4 DEF BeginHandled
  <2>2. node \in FlowNodes /\ begun' \in Nat /\ fCurrent = NotOpen /\ wasReset' = wasReset
    BY <1>4, <2>1, <1>type, FlowAssumption
    DEF BeginHandled, begin_node_invocation, get_ready_node_index
  <2>3. drains' \in [Drains -> Drain]
    BY <2>1, <2>2, <1>type
  <2>4. ASSUME ~wasReset, NEW e \in Drains, drains'[e].pc = "awaiting" PROVE e = d
    BY <2>1, <2>2, <2>4, <1>type, NoneAwaits
  <2>5. fCurrent'.node = drains'[d].node /\ fCurrent'.nth = drains'[d].nth
    BY <2>1, <1>type
  <2> QED BY <2>2, <2>3, <2>4, <2>5 DEF AwaitInv, AwaitedInvocationIsOpen
<1>5. ASSUME NEW d \in Drains, HandlerSettles(d) PROVE AwaitInv'
  <2>1. /\ drains[d].pc = "awaiting" /\ wasReset' = wasReset /\ begun' = begun
        /\ drains' = [drains EXCEPT ![d] = NotDraining] \/ drains' = [drains EXCEPT ![d].pc = "running"]
    BY <1>5 DEF HandlerSettles
  <2>2. drains' \in [Drains -> Drain] /\ drains'[d].pc # "awaiting"
    BY <2>1, <1>type DEF NotDraining
  <2>3. ASSUME ~wasReset, NEW e \in Drains PROVE drains'[e].pc # "awaiting"
    <3>1. CASE e = d
      BY <2>2, <3>1
    <3>2. CASE e # d
      BY <2>1, <2>3, <3>2, <1>type DEF AwaitInv
    <3> QED BY <3>1, <3>2
  <2> QED BY <2>1, <2>2, <2>3, <1>type DEF AwaitInv, AwaitedInvocationIsOpen
<1>6. ASSUME NEW d \in Drains, DrainStarts(d) \/ DrainEnds(d) PROVE AwaitInv'
  <2>1. /\ UNCHANGED <<fCurrent, wasReset, begun>>
        /\ drains' = [drains EXCEPT ![d] = NotDraining] \/ drains' = [drains EXCEPT ![d].pc = "running"]
    BY <1>6 DEF DrainStarts, DrainEnds
  <2>2. /\ drains' \in [Drains -> Drain]
        /\ \A e \in Drains : drains'[e].pc = "awaiting" => drains'[e] = drains[e]
    BY <2>1, <1>type DEF NotDraining
  <2> QED BY <2>1, <2>2, <1>type, AwaitInvSame
<1>7. CASE reset_state
  BY <1>7, <1>type DEF reset_state, AwaitInv
<1>8. CASE UNCHANGED flowVars
  BY <1>8, <1>same, <1>type DEF flowVars
<1> QED BY <1>1, <1>2, <1>3, <1>4, <1>5, <1>6, <1>7, <1>8 DEF FlowNext

(* For every program and any number of overlapping drains, a drain that comes *)
(* back from its handler finds its own invocation open, short of resetState() *)
(* (drain of flowRuntimeHost.js between begin and apply).                     *)
THEOREM HandlerMeetsItsInvocation == FlowSpec => []AwaitedInvocationIsOpen
<1>1. FlowInit => AwaitInv
  BY FlowAssumption DEF FlowInit, AwaitInv, AwaitedInvocationIsOpen, NotDraining, FlowNodes
<1>2. FlowSpec => []AwaitInv
  BY <1>1, AwaitInvNext, PTL DEF FlowSpec
<1>3. AwaitInv => AwaitedInvocationIsOpen
  BY DEF AwaitInv, AwaitedInvocationIsOpen
<1> QED BY <1>2, <1>3, PTL
=============================================================================

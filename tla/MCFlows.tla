------------------------------- MODULE MCFlows -------------------------------
(* The runtimes, timers, streams, event runner and invocations, for TLC.  They *)
(* share nothing, so one run checks them side by side: part names the one that *)
(* runs, and the others stay in an initial state.                              *)
EXTENDS FlowRuntime, JsFlowRuntime, TimerDriver, StreamPump, StreamIngestor, MCEvents,
        MCDirectInvoke, TLC

VARIABLE part

flowsVars == <<part, flowVars, jsVars, timerVars, pumpVars, ingestVars, eventVars, diVars>>

----------------------------------------------------------------------------
(* The flow program: node 0 feeds 1 and 2, 1 feeds 2, which needs both ports.  *)
Typed(s, al) == [schema |-> s, canonical |-> TRUE, aligned |-> al, opaque |-> FALSE]
Opaque == [schema |-> "", canonical |-> FALSE, aligned |-> FALSE, opaque |-> TRUE]
Edge(f, fp, t, tp, type) == [from |-> f, fromPort |-> fp, to |-> t, toPort |-> tp] @@ type
mcFlowEdges ==
  <<Edge(0, "o", 1, "a", Typed("S", FALSE)), Edge(0, "o", 2, "a", Typed("S", TRUE)),
    Edge(1, "o", 2, "b", Opaque)>>
mcBindings ==
  <<[trigger |-> 0, target |-> 0, port |-> "i"] @@ Typed("S", FALSE),
    [trigger |-> 0, target |-> 1, port |-> "a"] @@ Typed("S", FALSE),
    [trigger |-> 1, target |-> 2, port |-> "a"] @@ Opaque>>
mcRequired == {<<2, "a">>, <<2, "b">>}
mcTriggerFrames ==
  {[schema |-> "S", aligned |-> FALSE, opaque |-> FALSE, ext |-> 7],
   [schema |-> "untyped", aligned |-> FALSE, opaque |-> FALSE, ext |-> 0]}
Plain == [port |-> "o", schema |-> "", aligned |-> FALSE, fits |-> TRUE, mutable |-> FALSE,
          transferred |-> FALSE]
mcOutputLists ==
  {<<>>, <<Plain>>, <<Plain, [Plain EXCEPT !.schema = "S", !.aligned = TRUE, !.fits = FALSE]>>,
   <<[Plain EXCEPT !.mutable = TRUE, !.transferred = TRUE]>>}

----------------------------------------------------------------------------
(* The program of the JavaScript runtime: m feeds n and itself; u is unknown.  *)
Port(i, r) == [id |-> i, required |-> r]
mcJsNodes ==
  <<[id |-> "m", ports |-> <<Port("i", TRUE), Port("j", FALSE)>>, maxBatch |-> 1, known |-> TRUE],
    [id |-> "n", ports |-> <<Port("i", TRUE), Port("j", TRUE)>>, maxBatch |-> 2, known |-> TRUE],
    [id |-> "u", ports |-> <<Port("i", TRUE)>>, maxBatch |-> 1, known |-> FALSE]>>
mcJsEdges ==
  <<[from |-> "m", fromPort |-> "o", to |-> "n", toPort |-> "i", policy |-> "drop-oldest", depth |-> 1],
    [from |-> "m", fromPort |-> "o", to |-> "m", toPort |-> "j", policy |-> "queue", depth |-> 2]>>
mcJsBindings ==
  <<[trigger |-> "t", to |-> "m", toPort |-> "i", policy |-> "drop-newest", depth |-> 1],
    [trigger |-> "t", to |-> "n", toPort |-> "j", policy |-> "queue", depth |-> 0]>>
mcJsOutputs == {<<>>, <<"o", "s", "o">>}

----------------------------------------------------------------------------
FlowsInit ==
  /\ part \in {"flow", "js", "timer", "pump", "ingest", "event", "invoke"}
  /\ FlowInit /\ JsInit /\ TimerInit /\ PumpInit /\ IngestInit /\ DiInit
  /\ EventInit /\ (part # "event" => signal = (CHOOSE s \in Signals : TRUE) /\ scan = BaseScan)

FlowsNext ==
  \/ /\ part = "flow" /\ FlowNext
     /\ UNCHANGED <<part, jsVars, timerVars, pumpVars, ingestVars, eventVars, diVars>>
  \/ /\ part = "js" /\ JsNext
     /\ UNCHANGED <<part, flowVars, timerVars, pumpVars, ingestVars, eventVars, diVars>>
  \/ /\ part = "timer" /\ TimerNext
     /\ UNCHANGED <<part, flowVars, jsVars, pumpVars, ingestVars, eventVars, diVars>>
  \/ /\ part = "pump" /\ PumpNext
     /\ UNCHANGED <<part, flowVars, jsVars, timerVars, ingestVars, eventVars, diVars>>
  \/ /\ part = "ingest" /\ IngestNext
     /\ UNCHANGED <<part, flowVars, jsVars, timerVars, pumpVars, eventVars, diVars>>
  \/ /\ part = "event" /\ EventNext
     /\ UNCHANGED <<part, flowVars, jsVars, timerVars, pumpVars, ingestVars, diVars>>
  \/ /\ part = "invoke" /\ DiNext
     /\ UNCHANGED <<part, flowVars, jsVars, timerVars, pumpVars, ingestVars, eventVars>>

FlowsSpec == FlowsInit /\ [][FlowsNext]_flowsVars
=============================================================================

--------------------------- MODULE StreamIngestor ---------------------------
(* Ingestion of a FlatBuffer stream into the runtime store                       *)
(* (flatbufferStreamIngestor.js): chunks are pushed, whole frames are routed or   *)
(* appended one by one, each with an await.  A frame is two units, its size and   *)
(* its payload; a chunk is any run of units.  The store and the router are        *)
(* external: an append or a route succeeds or throws.                             *)
EXTENDS Naturals, Sequences

CONSTANTS
  IngestFrames,  \* frames of the stream
  Invalid,       \* frames whose size is refused
  Pushes         \* calls of pushBytes, in order: 1..n

VARIABLES
  rest,       \* pending: units kept for the next chunk
  push,       \* per call: where it is, its chunk, the units it works on, its position
  fedUnits, pushCount,
  tail,       \* calls chained on tail that have not settled
  terminal,   \* failed is set
  stream,     \* finish() has been called, has returned
  rows        \* frames stored or routed, in order

ingestVars == <<rest, push, fedUnits, pushCount, tail, terminal, stream, rows>>

AllUnits == 2 * IngestFrames
FrameOf(u) == (u + 1) \div 2
UnitsOf(from, n) == [i \in 1..n |-> from + i]

IngestInit ==
  /\ rest = <<>> /\ fedUnits = 0 /\ pushCount = 0 /\ tail = <<>>
  /\ push = [p \in Pushes |-> [pc |-> "new", units |-> <<>>, at |-> 0]]
  /\ terminal = FALSE /\ stream = "open" /\ rows = <<>>

\* pushBytes copies the chunk and queues behind the calls before it, awaited or
\* not.
pushChunk(n) ==
  /\ pushCount + 1 \in Pushes /\ fedUnits + n <= AllUnits /\ stream = "open"
  /\ pushCount' = pushCount + 1 /\ fedUnits' = fedUnits + n
  /\ push' = [push EXCEPT ![pushCount + 1] = [pc |-> "queued", units |-> UnitsOf(fedUnits, n), at |-> 0]]
  /\ tail' = Append(tail, pushCount + 1)
  /\ UNCHANGED <<rest, terminal, stream, rows>>

anyTurn(p) == push[p].pc = "queued"
firstInLine(p) == push[p].pc = "queued" /\ tail[1] = p

\* ingest begins: what was left over and the chunk; a terminal stream refuses.
ingest(p) ==
  /\ firstInLine(p)
  /\ IF terminal
     THEN push' = [push EXCEPT ![p].pc = "rejected"] /\ tail' = Tail(tail)
     ELSE push' = [push EXCEPT ![p].pc = "decode", ![p].units = rest \o @] /\ UNCHANGED tail
  /\ UNCHANGED <<rest, fedUnits, pushCount, terminal, stream, rows>>

Left(p) == SubSeq(push[p].units, push[p].at + 1, Len(push[p].units))
WholeFrame(p) == Len(Left(p)) >= 2
Refused(p) == Left(p) # <<>> /\ FrameOf(Left(p)[1]) \in Invalid

EndPush(p, pc) ==
  /\ push' = [push EXCEPT ![p].pc = pc]
  /\ tail' = SelectSeq(tail, LAMBDA q : q # p)

becomesTerminal == TRUE

\* An invalid frame, a route or an append that throws ends the stream; pending
\* keeps what it held before this chunk.
ingestThrows(p) ==
  /\ push[p].pc = "append" \/ (push[p].pc = "decode" /\ Refused(p))
  /\ EndPush(p, "rejected") /\ terminal' = becomesTerminal
  /\ UNCHANGED <<rest, fedUnits, pushCount, stream, rows>>

decodeFrame(p) ==
  /\ push[p].pc = "decode" /\ WholeFrame(p) /\ ~Refused(p)
  /\ push' = [push EXCEPT ![p].pc = "append"]
  /\ UNCHANGED <<rest, fedUnits, pushCount, tail, terminal, stream, rows>>

\* The frame is stored while the call waits, and then it goes on.
appendFrame(p) ==
  /\ push[p].pc = "append"
  /\ rows' = Append(rows, FrameOf(Left(p)[1]))
  /\ push' = [push EXCEPT ![p].pc = "decode", ![p].at = @ + 2]
  /\ UNCHANGED <<rest, fedUnits, pushCount, tail, terminal, stream>>

ingestReturns(p) ==
  /\ push[p].pc = "decode" /\ ~WholeFrame(p) /\ ~Refused(p)
  /\ rest' = Left(p)
  /\ EndPush(p, "done")
  /\ UNCHANGED <<fedUnits, pushCount, terminal, stream, rows>>

finishStream ==
  /\ stream = "open" /\ stream' = "finishing"
  /\ UNCHANGED <<rest, push, fedUnits, pushCount, tail, terminal, rows>>

\* finish waits for the calls before it, and reports a partial frame.
finishReturns ==
  /\ stream = "finishing" /\ tail = <<>>
  /\ stream' = IF terminal \/ rest # <<>> THEN "failed" ELSE "complete"
  /\ UNCHANGED <<rest, push, fedUnits, pushCount, tail, terminal, rows>>

IngestNext ==
  \/ \E n \in 1..AllUnits : pushChunk(n)
  \/ \E p \in Pushes :
       \/ ingest(p) \/ decodeFrame(p) \/ appendFrame(p) \/ ingestThrows(p) \/ ingestReturns(p)
  \/ finishStream \/ finishReturns

IngestSpec == IngestInit /\ [][IngestNext]_ingestVars

----------------------------------------------------------------------------
\* What has been stored is a run of the stream's first frames, each once and in
\* order, with pushes that were not awaited and with appends that failed: "A
\* failed route/write makes the stream terminal rather than dropping a record";
\* and finish succeeds only when every unit that was pushed is part of a stored
\* frame (it awaits tail and looks at pending).
RowsAreTheStream ==
  /\ \A i \in 1..Len(rows) : rows[i] = i
  /\ stream = "complete" => 2 * Len(rows) = fedUnits
=============================================================================

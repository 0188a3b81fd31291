----------------------------- MODULE StreamPump -----------------------------
(* The stream pump (moduleFlatbufferStreamPump.js): chunks of a byte stream  *)
(* come in, frames go out to a module in batches.                            *)
(*                                                                          *)
(* A frame is two units of the stream, its size prefix and its payload; a    *)
(* chunk is any run of units.  The pump is single-threaded: an action is one  *)
(* iteration of the decoding loop or one return to the event loop, and while  *)
(* a call is decoding nothing else runs.  A call gives the thread away only   *)
(* while it awaits the module, and a caller may then start another one.       *)
EXTENDS Naturals, Sequences

CONSTANTS
  StreamFrames,        \* frames of the stream
  BadSize, BadIdent,   \* frames with an invalid size, without an identifier
  maxFramesPerInvoke,
  PushCalls,           \* calls of pushBytes or finish that may be under way
  MayOverlap           \* TRUE when a caller does not await its last call

VARIABLES
  pendingBytes, pendingFrames, nextSequence,  \* the pump's own state
  call,       \* per call: pc, bytes to decode, offset, its batch, final flag
  fed,        \* units of the stream handed to pushBytes
  sent,       \* frames handed to the module, in order
  finished,   \* finish() has returned
  overlapped, faulted  \* a call was not awaited; a call was rejected

pumpVars == <<pendingBytes, pendingFrames, nextSequence, call, fed, sent, finished,
              overlapped, faulted>>

Units == 2 * StreamFrames
Unit(u) == [frame |-> (u + 1) \div 2, prefix |-> u % 2 = 1]
Chunk(from, n) == [i \in 1..n |-> Unit(from + i)]
NoCall == [pc |-> "idle", bytes |-> <<>>, offset |-> 0, batch |-> <<>>, final |-> FALSE]

Busy == \E c \in PushCalls : call[c].pc = "decode"
Awaiting == \E c \in PushCalls : call[c].pc = "await"
MayCall(c) == call[c].pc = "idle" /\ ~Busy /\ (Awaiting => MayOverlap) /\ ~finished

----------------------------------------------------------------------------
(* pushBytes: what is left of the last chunk and the new one.                *)
pushBytes(c, n) ==
  /\ MayCall(c) /\ fed + n <= Units
  /\ fed' = fed + n
  /\ call' = [call EXCEPT ![c] = [NoCall EXCEPT !.pc = "decode", !.bytes = pendingBytes \o Chunk(fed, n)]]
  /\ overlapped' = (overlapped \/ Awaiting)
  /\ UNCHANGED <<pendingBytes, pendingFrames, nextSequence, sent, finished, faulted>>

Ahead(c) == SubSeq(call[c].bytes, call[c].offset + 1, Len(call[c].bytes))
Decoding(c) == call[c].pc = "decode"

\* The prefix says how much belongs to the frame; garbage says anything.
Complete(c) == Decoding(c) /\ Len(Ahead(c)) >= 2
Misread(c) == Ahead(c) # <<>> /\ ~Ahead(c)[1].prefix
Rejected(c) ==
  /\ Decoding(c) /\ Ahead(c) # <<>>
  /\ \/ Misread(c)
     \/ Ahead(c)[1].prefix /\ Ahead(c)[1].frame \in BadSize
     \/ Complete(c) /\ Ahead(c)[2].frame \in BadIdent

\* The batch of flushPendingFrames; endOfStream marks the last frame of the
\* final one.
batchOf(frames, final) ==
  [i \in 1..Len(frames) |-> [frames[i] EXCEPT !.end = final /\ i = Len(frames)]]

full(frames) == Len(frames) >= maxFramesPerInvoke

sequenceAfter(frames) == nextSequence + 1

\* One frame is decoded; a full batch goes to the module at once.
DecodeFrame(c) ==
  /\ Complete(c) /\ ~Rejected(c)
  /\ LET unit == Ahead(c)
         frame == [of |-> IF unit[1].frame = unit[2].frame THEN unit[1].frame ELSE 0,
                   seq |-> nextSequence, end |-> FALSE]
         frames == Append(pendingFrames, frame)
     IN /\ nextSequence' = sequenceAfter(frames)
        /\ IF full(frames)
           THEN /\ pendingFrames' = <<>>
                /\ sent' = sent \o batchOf(frames, FALSE)
                /\ call' = [call EXCEPT ![c].pc = "await", ![c].offset = @ + 2,
                                        ![c].batch = batchOf(frames, FALSE)]
           ELSE /\ pendingFrames' = frames
                /\ call' = [call EXCEPT ![c].offset = @ + 2]
                /\ UNCHANGED sent
  /\ UNCHANGED <<pendingBytes, fed, finished, overlapped, faulted>>

\* The loop ends: what is left waits for the next chunk.
keepOld(c) == pendingBytes
remainder(c) == Ahead(c)
PushEnds(c) ==
  /\ Decoding(c) /\ (Len(Ahead(c)) < 2 \/ Misread(c)) /\ (Rejected(c) => Misread(c))
  /\ pendingBytes' = remainder(c)
  /\ call' = [call EXCEPT ![c] = NoCall]
  /\ UNCHANGED <<pendingFrames, nextSequence, fed, sent, finished, overlapped, faulted>>

\* A bad frame: the call throws and pendingBytes keeps its old value.
PushThrows(c) ==
  /\ Rejected(c)
  /\ call' = [call EXCEPT ![c] = NoCall]
  /\ faulted' = TRUE
  /\ UNCHANGED <<pendingBytes, pendingFrames, nextSequence, fed, sent, finished, overlapped>>

\* finish refuses a partial frame and flushes the rest, marked as the end.
finish(c) ==
  /\ MayCall(c)
  /\ overlapped' = (overlapped \/ Awaiting)
  /\ IF pendingBytes # <<>>
     THEN /\ faulted' = TRUE
          /\ UNCHANGED <<pendingFrames, call, sent, finished>>
     ELSE /\ pendingFrames' = <<>>
          /\ sent' = sent \o batchOf(pendingFrames, TRUE)
          /\ IF pendingFrames = <<>> THEN finished' = TRUE /\ UNCHANGED call
             ELSE /\ call' = [call EXCEPT ![c] = [NoCall EXCEPT !.pc = "await", !.final = TRUE,
                                                  !.batch = batchOf(pendingFrames, TRUE)]]
                  /\ UNCHANGED finished
          /\ UNCHANGED faulted
  /\ UNCHANGED <<pendingBytes, nextSequence, fed>>

\* invoke and onResponse resolve: the loop goes on, or finish returns.
InvokeReturns(c) ==
  /\ ~Busy /\ call[c].pc = "await"
  /\ call' = [call EXCEPT ![c] = IF call[c].final THEN NoCall
                                 ELSE [call[c] EXCEPT !.pc = "decode", !.batch = <<>>]]
  /\ finished' = (finished \/ call[c].final)
  /\ UNCHANGED <<pendingBytes, pendingFrames, nextSequence, fed, sent, overlapped, faulted>>

\* invoke or onResponse rejects: so does the call.
InvokeFails(c) ==
  /\ ~Busy /\ call[c].pc = "await"
  /\ call' = [call EXCEPT ![c] = NoCall]
  /\ faulted' = TRUE
  /\ UNCHANGED <<pendingBytes, pendingFrames, nextSequence, fed, sent, finished, overlapped>>

----------------------------------------------------------------------------
PumpInit ==
  /\ pendingBytes = <<>> /\ pendingFrames = <<>> /\ nextSequence = 1
  /\ call = [c \in PushCalls |-> NoCall]
  /\ fed = 0 /\ sent = <<>>
  /\ finished = FALSE /\ overlapped = FALSE /\ faulted = FALSE

PumpStep(c) ==
  \/ DecodeFrame(c) \/ PushEnds(c) \/ PushThrows(c) \/ InvokeReturns(c) \/ InvokeFails(c)

PumpNext ==
  \E c \in PushCalls :
    PumpStep(c) \/ finish(c) \/ \E n \in 1..Units : pushBytes(c, n)

PumpSpec == PumpInit /\ [][PumpNext]_pumpVars

----------------------------------------------------------------------------
(* A caller that awaits its calls gets every frame of the stream to the      *)
(* module once, whole and in order, wherever the chunks were cut: the frames  *)
(* sent, then those of the batch being filled, then the partial frame kept    *)
(* by pushBytes account for every unit it was fed; no frame follows the one   *)
(* marked endOfStream.                                                       *)
StreamInOrder ==
  ~overlapped /\ ~faulted =>
    LET frames == sent \o pendingFrames IN
    /\ \A i \in 1..Len(frames) : /\ frames[i].of = i /\ frames[i].seq = i
                                 /\ frames[i].end => i = Len(frames)
    /\ (\A c \in PushCalls : call[c].pc = "idle") => 2 * Len(frames) + Len(pendingBytes) = fed

=============================================================================

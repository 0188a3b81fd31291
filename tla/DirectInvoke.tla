---------------------------- MODULE DirectInvoke ----------------------------
(***************************************************************************)
(* A host that invokes a module in its memory: the direct surface of          *)
(* browserModuleHarness.js on one side of InvokeGlue, and the leases of       *)
(* codec.js that decide whether a decoded frame may still be forwarded.       *)
(*                                                                          *)
(* The host runs to completion around the handler, so a call is one step up    *)
(* to the handler and one after it.  A frame of an external arena is a view    *)
(* of module memory; a frame of a response's own arena is a view of the host's  *)
(* copy of the response.  Forwarding by copyCanonical, which looks at no lease, *)
(* and handlers that write into an input or call back are left out.            *)
(***************************************************************************)
EXTENDS InvokeGlue

CONSTANTS
  DiRequests,      \* [valid, method, external, from, inputs]
  OwnSize,         \* of the payloads the caller puts into module memory
  MaxInvokes,
  MaxHostSteps,    \* bounds what the caller does between its invocations
  MaxGeneration    \* UINT32_MAX

VARIABLES
  diCall,       \* the invocation whose handler runs: its two blocks
  diOwn,        \* the caller's payloads in module memory
  diLeases,     \* the leases, in the order of the responses
  diFrames,     \* the decoded output frames
  diTokens,     \* arenaTransferStates
  diForwarded,  \* input frames made by forwardOutputFrameAsInput
  diInvokes, diSteps

diVars == <<igVars, diCall, diOwn, diLeases, diFrames, diTokens, diForwarded, diInvokes, diSteps>>

NoInvocation == [req |-> 0, out |-> 0]

DiInit ==
  /\ IgInit
  /\ diCall = NoInvocation
  /\ diOwn = {} /\ diLeases = <<>> /\ diFrames = {} /\ diTokens = {} /\ diForwarded = {}
  /\ diInvokes = 0 /\ diSteps = 0

HostRuns == diCall = NoInvocation
HostStep == HostRuns /\ diSteps < MaxHostSteps /\ diSteps' = diSteps + 1

FrameBytes(f) == IF f.inMemory THEN BytesAt(igMem, f.at, f.size) ELSE f.bytes

\* touched is not in the code: since the lease was made or advanced the module
\* has been invoked or one of the caller's payloads freed.
Touch(leases) == [l \in DOMAIN leases |-> [leases[l] EXCEPT !.touched = TRUE]]

----------------------------------------------------------------------------
(* The caller's payloads, and leases.                                         *)

ownPayloadWritten(size) ==
  /\ HostStep
  /\ igMade' = igMade + 1
  /\ \E b \in AllocChoices(igMem, size) :
       /\ igMem' = WriteAt(plugin_alloc(igMem, b, size), PtrOf(b), PayloadBytes(igMade + 1, size))
       /\ diOwn' = diOwn \cup {[ptr |-> PtrOf(b), size |-> size, bytes |-> PayloadBytes(igMade + 1, size)]}
  /\ UNCHANGED <<igCtx, diCall, diLeases, diFrames, diTokens, diForwarded, diInvokes>>

ownPayloadFreed(x) ==
  /\ HostStep
  /\ igMem' = plugin_free(igMem, x.ptr)
  /\ diOwn' = diOwn \ {x}
  /\ diLeases' = Touch(diLeases)
  /\ UNCHANGED <<igCtx, igMade, diCall, diFrames, diTokens, diForwarded, diInvokes>>

advance(l) ==
  /\ HostStep /\ ~diLeases[l].closed /\ diLeases[l].generation < MaxGeneration
  /\ diLeases' = [diLeases EXCEPT ![l].generation = @ + 1, ![l].touched = FALSE]
  /\ UNCHANGED <<igVars, diCall, diOwn, diFrames, diTokens, diForwarded, diInvokes>>

close(l) ==
  /\ HostStep /\ ~diLeases[l].closed
  /\ diLeases' = [diLeases EXCEPT ![l].closed = TRUE]
  /\ UNCHANGED <<igVars, diCall, diOwn, diFrames, diTokens, diForwarded, diInvokes>>

assertLiveArenaLease(f) == ~diLeases[f.lease].closed /\ f.generation = diLeases[f.lease].generation

createTransferToken(f, mutability) ==
  /\ HostStep
  /\ assertLiveArenaLease(f)
  /\ diTokens' = diTokens \cup {[frame |-> f, mutability |-> mutability, consumed |-> FALSE]}
  /\ UNCHANGED <<igVars, diCall, diOwn, diLeases, diFrames, diForwarded, diInvokes>>

\* forwardOutputFrameAsInput: the producer's payload needs a token, which is used
\* up and leaves a receipt.
forwardOutputFrameAsInput(f) ==
  /\ HostStep /\ assertLiveArenaLease(f)
  /\ \/ /\ f.ownership # "PRODUCER_OWNED"
        /\ diForwarded' = diForwarded \cup
             {[frame |-> f, ownership |-> f.ownership, mutability |-> "IMMUTABLE", receipt |-> FALSE]}
        /\ UNCHANGED diTokens
     \/ \E token \in diTokens :
          /\ ~token.consumed /\ token.frame = f
          /\ diTokens' = (diTokens \ {token}) \cup {[token EXCEPT !.consumed = TRUE]}
          /\ diForwarded' = diForwarded \cup
               {[frame |-> f, ownership |-> "SHARED", mutability |-> token.mutability, receipt |-> TRUE]}
  /\ UNCHANGED <<igVars, diCall, diOwn, diLeases, diFrames, diInvokes>>

\* A frame that an encoder accepts.  A descriptor for an external arena is a new
\* object, which has no receipt.
assertRetainedAliasSafe(g, external) ==
  /\ assertLiveArenaLease(g.frame)
  /\ \/ g.ownership # "PRODUCER_OWNED" /\ g.mutability = "IMMUTABLE"
     \/ g.receipt /\ g.ownership = "SHARED" /\ ~external

----------------------------------------------------------------------------
(* A call.                                                                   *)

\* Decoding a response.  inMemory says where its frames are.
Misaligned(resp) ==
  \E i \in DOMAIN resp.outputs :
    LET o == resp.outputs[i] IN o.size > 0 /\ o.align > 1 /\ o.offset % o.align # 0
DecodedFrames(resp, lease) ==
  {LET o == resp.outputs[i]
       inMemory == resp.arena = <<>> /\ o.size > 0
   IN [lease |-> lease, generation |-> 1, index |-> i, port |-> o.port, inMemory |-> inMemory,
       at |-> IF inMemory THEN o.offset ELSE 0, size |-> o.size, align |-> o.align,
       ownership |-> o.ownership, pushed |-> o.pushed,
       bytes |-> IF inMemory THEN <<>> ELSE SubSeq(resp.arena, o.offset + 1, o.offset + o.size)]
   : i \in DOMAIN resp.outputs}

\* plugin_invoke_stream returns resp, in a block of its own or not at all; the
\* harness copies it, frees the blocks of the call and decodes the copy.
Respond(m, resp, call, leases) ==
  /\ igMem' = plugin_free(plugin_free(m, call.req), call.out)
  /\ diCall' = NoInvocation
  /\ IF AllocChoices(m, 1) = {} \/ Misaligned(resp)
     THEN diLeases' = leases /\ UNCHANGED diFrames
     ELSE /\ diLeases' = Append(leases, [generation |-> 1, closed |-> FALSE, touched |-> FALSE])
          /\ diFrames' = diFrames \cup DecodedFrames(resp, Len(leases) + 1)

\* plugin_invoke_stream up to the handler, with the request at call.req.
plugin_invoke_stream(m, r, call) ==
  IF ~r.valid THEN Respond(m, ErrorResponse("invalid-request"), call, diLeases) /\ UNCHANGED igCtx
  ELSE IF r.method \notin DOMAIN kMethodTable
  THEN Respond(m, ErrorResponse("unknown-method"), call, diLeases) /\ UNCHANGED igCtx
  ELSE LET cleared == ResetInvokeContext(m)
           ctx == LoadedContext(cleared, r, call.req)
       IN /\ igCtx' = ctx
          /\ IF ctx.error # "none" THEN Respond(cleared, SerializePivResponse(cleared, ctx), call, Touch(diLeases))
             ELSE /\ igMem' = cleared /\ diCall' = call
                  /\ diLeases' = Touch(diLeases) /\ UNCHANGED diFrames

\* The harness puts the encoded request into a block and calls; without a block
\* for the response length invokeDirectRaw leaves the request's block behind and
\* the external path frees it.
Call(r) ==
  /\ \/ AllocChoices(igMem, BlockBytes) = {} /\ UNCHANGED <<igMem, igCtx, diCall, diLeases, diFrames>>
     \/ \E b \in AllocChoices(igMem, BlockBytes) :
          LET m1 == WriteAt(plugin_alloc(igMem, b, BlockBytes), PtrOf(b), r.arena) IN
          \/ /\ AllocChoices(m1, 4) = {}
             /\ igMem' = IF r.external THEN plugin_free(m1, PtrOf(b)) ELSE m1
             /\ UNCHANGED <<igCtx, diCall, diLeases, diFrames>>
          \/ \E c \in AllocChoices(m1, 4) :
               plugin_invoke_stream(plugin_alloc(m1, c, 4), r, [req |-> PtrOf(b), out |-> PtrOf(c)])
  /\ UNCHANGED <<diOwn, diTokens, diForwarded, diSteps>>

\* The request as encoded, with the given payloads of its inputs: packed into its
\* arena, or named where they are.
Encoded(r, sent, offsets) ==
  LET inputs == [i \in DOMAIN r.inputs |-> [port |-> r.inputs[i].port, type |-> r.inputs[i].type,
                    align |-> r.inputs[i].align, ownership |-> r.inputs[i].ownership,
                    mutability |-> r.inputs[i].mutability, size |-> Len(sent[i]), sent |-> sent[i],
                    offset |-> offsets[i]]]
      n == Len(inputs)
      At(j) == {i \in 1..n : offsets[i] < j /\ j <= offsets[i] + Len(sent[i])}
  IN [valid |-> r.valid, method |-> r.method, external |-> r.external, inputs |-> inputs,
      arena |-> IF r.external \/ n = 0 THEN <<>>
                ELSE [j \in 1..offsets[n] + Len(sent[n]) |->
                        IF At(j) = {} THEN 0 ELSE LET i == CHOOSE i \in At(j) : TRUE IN sent[i][j - offsets[i]]]]

Packed(r, sent) ==
  LET frames == [i \in DOMAIN r.inputs |-> [size |-> Len(sent[i]), align |-> r.inputs[i].align]]
  IN Encoded(r, sent, PackedOffsets(frames))

StartsCall == HostRuns /\ diInvokes < MaxInvokes /\ diInvokes' = diInvokes + 1

\* invokeDirect with payload bytes.
invokeDirectRaw(r) ==
  /\ StartsCall /\ r.from = "bytes"
  /\ igMade' = igMade + Len(r.inputs)
  /\ Call(Packed(r, [i \in DOMAIN r.inputs |-> PayloadBytes(igMade + i, r.inputs[i].size)]))

\* invokeDirect with an external arena, on a payload of the caller or on an address
\* that the SDK does not own.
invokeDirectExternalArena(r) ==
  /\ StartsCall /\ UNCHANGED igMade
  /\ \/ r.from = "own" /\ \E x \in diOwn : Call(Encoded(r, <<x.bytes>>, <<x.ptr>>))
     \/ r.from = "elsewhere" /\ Call(Encoded(r, <<BytesAt(igMem, PtrOf(StackBlock), 1)>>, <<PtrOf(StackBlock)>>))

\* invokeDirect with a forwarded frame, as bytes or in place.
invokeForwarded(r, g) ==
  /\ StartsCall /\ UNCHANGED igMade
  /\ r.from = "forwarded"
  /\ IF ~assertRetainedAliasSafe(g, r.external) \/ (r.external /\ ~g.frame.inMemory)
     THEN UNCHANGED <<igMem, igCtx, diCall, diOwn, diLeases, diFrames, diTokens, diForwarded, diSteps>>
     ELSE LET as == [r EXCEPT !.inputs[1].ownership = g.ownership, !.inputs[1].mutability = g.mutability]
              sent == IF diLeases[g.frame.lease].touched THEN FrameBytes(g.frame) ELSE g.frame.pushed
          IN Call(IF r.external THEN Encoded(as, <<sent>>, <<g.frame.at>>) ELSE Packed(as, <<FrameBytes(g.frame)>>))

HandlerStep ==
  /\ ~HostRuns
  /\ HandlerResetsOutput \/ \E push \in IgPushes : HandlerPushes(push)
  /\ UNCHANGED <<diCall, diOwn, diLeases, diFrames, diTokens, diForwarded, diInvokes, diSteps>>

\* DispatchLoadedContext after the handler: its stack is gone.
HandlerReturns ==
  /\ ~HostRuns
  /\ LET m == WriteAt(igMem, PtrOf(StackBlock), Lost)
     IN Respond(m, SerializePivResponse(m, igCtx), diCall, diLeases)
  /\ UNCHANGED <<igCtx, igMade, diOwn, diTokens, diForwarded, diInvokes, diSteps>>

DiNext ==
  \/ ownPayloadWritten(OwnSize)
  \/ \E x \in diOwn : ownPayloadFreed(x)
  \/ \E l \in DOMAIN diLeases : advance(l) \/ close(l)
  \/ \E f \in diFrames :
       \/ \E mutability \in {"IMMUTABLE", "SINGLE_WRITER_MUTABLE"} : createTransferToken(f, mutability)
       \/ forwardOutputFrameAsInput(f)
  \/ \E r \in DiRequests :
       \/ invokeDirectRaw(r) \/ invokeDirectExternalArena(r)
       \/ \E g \in diForwarded : invokeForwarded(r, g)
  \/ HandlerStep \/ HandlerReturns

DiSpec == DiInit /\ [][DiNext]_diVars

----------------------------------------------------------------------------
\* A payload is read as it was written, on both sides of a call.  While a handler
\* runs, its input views hold what the caller sent (LoadInputsFromPivRequest); and
\* a decoded frame whose lease is live holds what the handler pushed, in the arena
\* of the response or where it is in module memory (plugin_push_output_typed,
\* SerializePivResponse), as long as the caller advances or closes the lease when
\* it invokes the module again or frees a payload.
FramesAreReadable ==
  /\ ~HostRuns => \A i \in DOMAIN igCtx.inputs :
                    LET f == igCtx.inputs[i] IN f.size > 0 => BytesAt(igMem, f.ptr, f.size) = f.sent
  /\ \A f \in diFrames :
       assertLiveArenaLease(f) /\ ~(f.inMemory /\ diLeases[f.lease].touched) => FrameBytes(f) = f.pushed
=============================================================================

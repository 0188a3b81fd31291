----------------------------- MODULE InvokeGlue -----------------------------
(***************************************************************************)
(* The invoke bridge that the compiler generates into every module          *)
(* (invokeGlue.js): the SDK allocator, the invoke context with its input     *)
(* views and output frames, and the dispatch of a request to a handler.       *)
(*                                                                          *)
(* Linear memory is a row of blocks of BlockBytes cells; block b begins at    *)
(* address b * BlockBytes, and address 0 is null.  A block of the heap is     *)
(* free, tracked by the SDK allocator ("sdk") or the buffer of a vector of     *)
(* the context ("vector"); the last block is the handler's stack.  What a      *)
(* freed block holds is lost.  An envelope is a record that fits a block, and   *)
(* has no status code.                                                       *)
(***************************************************************************)
EXTENDS Integers, Sequences, FiniteSets

CONSTANTS
  HeapBlocks, BlockBytes,
  kInvokeAllocAlignment, kInvokeArenaAlignment,
  MaxArena,       \* numeric_limits<uint32_t>::max, as far as arenas go
  kMethodTable,   \* per method: its input ports and its output ports
  IgPushes,       \* what handlers push: [port, type, from, size, off]
  MaxOutputs,     \* bounds the outputs of an invocation
  MaxPayloads     \* bounds the payloads that callers and handlers make

VARIABLES
  igMem,    \* the blocks, and g_allocations
  igCtx,    \* g_invoke_context
  igMade    \* counts the payloads written, to tell their bytes apart

igVars == <<igMem, igCtx, igMade>>

StackBlock == HeapBlocks + 1
Lost == [j \in 1..BlockBytes |-> 0]
PayloadBytes(n, size) == [j \in 1..size |-> 10 * n + j]

NoContext == [method |-> "none", inputs |-> <<>>, outputs |-> <<>>, direct |-> FALSE,
              error |-> "none"]

IgInit ==
  /\ igMem = [blocks |-> [b \in 1..StackBlock |-> [owner |-> IF b = StackBlock THEN "stack" ELSE "free",
                                                   cells |-> Lost]],
              g_allocations |-> {}]
  /\ igCtx = NoContext
  /\ igMade = 0

----------------------------------------------------------------------------
(* Memory, as functions of a memory m.                                        *)

PtrOf(b) == b * BlockBytes
BlockOf(p) == p \div BlockBytes
BytesAt(m, p, n) == [j \in 1..n |-> m.blocks[BlockOf(p)].cells[(p % BlockBytes) + j]]
WriteAt(m, p, bytes) ==
  LET from == p % BlockBytes IN
  [m EXCEPT !.blocks[BlockOf(p)].cells =
     [j \in 1..BlockBytes |-> IF j - from \in 1..Len(bytes) THEN bytes[j - from] ELSE @[j]]]

\* The block that malloc finds, if any: the first free one, so that a freed block
\* is used again at once.
FreeBlocks(m) ==
  {b \in 1..HeapBlocks : m.blocks[b].owner = "free" /\ \A c \in 1..b - 1 : m.blocks[c].owner # "free"}
TakeBlock(m, b, owner) == [m EXCEPT !.blocks[b] = [owner |-> owner, cells |-> Lost]]
ReleaseBlocks(m, bs) ==
  [m EXCEPT !.blocks = [b \in DOMAIN @ |-> IF b \in bs THEN [owner |-> "free", cells |-> Lost] ELSE @[b]]]

AlignOffset(offset, alignment) ==
  IF alignment <= 1 \/ offset % alignment = 0 THEN offset ELSE offset + alignment - (offset % alignment)

AllocationContains(m, ptr, length) ==
  \/ length = 0
  \/ /\ ptr # 0
     /\ \E a \in m.g_allocations :
          ptr >= a.ptr /\ ptr - a.ptr <= a.size /\ length <= a.size - (ptr - a.ptr)

\* plugin_alloc: the blocks it may return, none if it returns null.
AllocSize(size) == AlignOffset(IF size > 0 THEN size ELSE 1, kInvokeAllocAlignment)
AllocChoices(m, size) == IF AllocSize(size) <= BlockBytes THEN FreeBlocks(m) ELSE {}
plugin_alloc(m, b, size) ==
  [TakeBlock(m, b, "sdk") EXCEPT !.g_allocations = @ \cup {[ptr |-> PtrOf(b), size |-> AllocSize(size)]}]

plugin_free(m, ptr) ==
  IF \E a \in m.g_allocations : a.ptr = ptr
  THEN [ReleaseBlocks(m, {BlockOf(ptr)}) EXCEPT !.g_allocations = {a \in @ : a.ptr # ptr}]
  ELSE m

----------------------------------------------------------------------------
(* Types of frames: an accepted type is a wildcard or names one identity and  *)
(* layout; al is the aligned-binary wire format, fb FlatBuffers.              *)

WildcardAcceptsWireFormat(type) == type.wire = "fb" \/ type.alignment > 0

InputTypeMatches(accepted, f) ==
  IF accepted.any THEN WildcardAcceptsWireFormat(f.type)
  ELSE /\ f.type.id = accepted.id /\ f.type.wire = accepted.wire /\ f.type.alignment = accepted.alignment
       /\ accepted.wire = "al" => /\ accepted.alignment > 0 /\ f.align >= accepted.alignment
                                  /\ accepted.length \in {0, f.size}

OutputTypeMatches(accepted, type, size) ==
  IF accepted.any THEN WildcardAcceptsWireFormat(type)
  ELSE /\ type.id = accepted.id /\ type.wire = accepted.wire
       /\ IF type.wire = "al" THEN /\ type.alignment = accepted.alignment /\ accepted.alignment > 0
                                   /\ accepted.length \in {0, size}
          ELSE type.alignment = 0

\* Exactly one declared type, or none.
ResolveOutputType(types, type, size) ==
  LET matches == {a \in types : OutputTypeMatches(a, type, size)}
  IN IF Cardinality(matches) = 1 THEN matches ELSE {}

----------------------------------------------------------------------------
(* The context and its inputs.                                                *)

VectorsOf(ctx) == {ctx.outputs[i].copy : i \in DOMAIN ctx.outputs} \ {0}
ResetInvokeContext(m) == ReleaseBlocks(m, VectorsOf(igCtx))

FirstOf(seq, Bad(_)) == CHOOSE i \in DOMAIN seq : Bad(seq[i]) /\ \A j \in 1..i - 1 : ~Bad(seq[j])

PivRequestUsesExternalPayloadArena(r) ==
  r.arena = <<>> /\ \E i \in DOMAIN r.inputs : r.inputs[i].size > 0

\* Where the payload of frame f of the request at req begins; the arena of an
\* envelope begins on an address of every alignment used.
PayloadPtr(r, req, f) == IF f.size = 0 THEN 0 ELSE IF r.arena = <<>> THEN f.offset ELSE req + f.offset

\* LoadInputsFromPivRequest: what is wrong with a frame.
LoadError(m, r, req, f) ==
  IF f.size > 0 /\ r.arena = <<>>
  THEN IF ~AllocationContains(m, f.offset, f.size) THEN "invalid-request-pointer"
       ELSE IF f.align > 1 /\ f.offset % f.align # 0 THEN "misaligned-input-frame" ELSE "none"
  ELSE IF f.offset > Len(r.arena) \/ f.size > Len(r.arena) - f.offset THEN "invalid-request-frame"
  ELSE IF f.size > 0 /\ f.align > 1 /\ (req + f.offset) % f.align # 0 THEN "misaligned-input-frame"
  ELSE "none"

\* A buffer that its consumer may write must have been handed over.
InputBufferContractAllowed(f) == f.mutability = "IMMUTABLE" \/ f.ownership = "SHARED"

FrameError(method, f) ==
  LET ports == kMethodTable[method].inputs IN
  IF f.port \notin DOMAIN ports THEN "unknown-input-port"
  ELSE IF ~InputBufferContractAllowed(f) THEN "incompatible-input-buffer-contract"
  ELSE IF ports[f.port].types # {} /\ ~\E a \in ports[f.port].types : InputTypeMatches(a, f)
       THEN "unsupported-input-type"
  ELSE "none"

MissingRequired(method, inputs) ==
  \E p \in DOMAIN kMethodTable[method].inputs :
    kMethodTable[method].inputs[p].required /\ ~\E i \in DOMAIN inputs : inputs[i].port = p

\* ValidateInputFrames after LoadInputsFromPivRequest.
RequestError(m, r, req) ==
  LET Unloaded(f) == LoadError(m, r, req, f) # "none"
      Refused(f) == FrameError(r.method, f) # "none"
  IN IF \E i \in DOMAIN r.inputs : Unloaded(r.inputs[i])
     THEN LoadError(m, r, req, r.inputs[FirstOf(r.inputs, Unloaded)])
     ELSE IF \E i \in DOMAIN r.inputs : Refused(r.inputs[i])
     THEN FrameError(r.method, r.inputs[FirstOf(r.inputs, Refused)])
     ELSE IF MissingRequired(r.method, r.inputs) THEN "missing-required-input"
     ELSE "none"

\* The context with which the handler of a request is called; sent is what the
\* caller put into the frame, for the properties.
LoadedContext(m, r, req) ==
  [method |-> r.method,
   inputs |-> [i \in DOMAIN r.inputs |->
                 [port |-> r.inputs[i].port, ptr |-> PayloadPtr(r, req, r.inputs[i]),
                  size |-> r.inputs[i].size, sent |-> r.inputs[i].sent]],
   outputs |-> <<>>,
   direct |-> PivRequestUsesExternalPayloadArena(r),
   error |-> RequestError(m, r, req)]

----------------------------------------------------------------------------
(* Outputs.                                                                  *)

\* Mutant: the frame goes on naming the caller's memory.
keepPointer(o, m, b) == [o EXCEPT !.copy = b]

\* The payload was copied into a vector of the context: a descriptor names it.
ownPayload(o, m, b) == [o EXCEPT !.copy = b, !.ptr = IF igCtx.direct THEN PtrOf(b) ELSE @]

\* plugin_push_output_typed of the payload at ptr in memory m.  An SDK-owned
\* payload of a direct external invocation is passed by its address, any other
\* is copied.
PushOutput(m, push, ptr) ==
  LET ports == kMethodTable[igCtx.method].outputs
      match == IF push.port \in DOMAIN ports
               THEN ResolveOutputType(ports[push.port], push.type, push.size) ELSE {}
      alignment == IF push.type.wire = "al" /\ push.type.alignment > 0 THEN push.type.alignment
                   ELSE kInvokeArenaAlignment
      frame == [port |-> push.port, align |-> alignment, ptr |-> ptr, size |-> push.size, copy |-> 0,
                pushed |-> BytesAt(m, ptr, push.size)]
      byAddress == igCtx.direct /\ AllocationContains(m, ptr, push.size)
  IN \/ /\ push.port \notin DOMAIN ports \/ (ports[push.port] # {} /\ match = {})
        /\ igMem' = m
        /\ igCtx' = [igCtx EXCEPT !.error = IF push.port \in DOMAIN ports THEN "unsupported-output-type"
                                            ELSE "unknown-output-port"]
     \/ /\ push.port \in DOMAIN ports /\ (ports[push.port] = {} \/ match # {})
        /\ push.size = 0 \/ byAddress
        /\ igMem' = m
        /\ igCtx' = [igCtx EXCEPT !.outputs = Append(@, frame)]
     \/ /\ push.port \in DOMAIN ports /\ (ports[push.port] = {} \/ match # {})
        /\ push.size > 0 /\ ~byAddress
        /\ \E b \in FreeBlocks(m) :
             /\ igMem' = WriteAt(TakeBlock(m, b, "vector"), PtrOf(b), BytesAt(m, ptr, push.size))
             /\ igCtx' = [igCtx EXCEPT !.outputs = Append(@, ownPayload(frame, m, b))]

\* The handler pushes bytes of its stack, of a block it has allocated, or of an
\* input.
HandlerPushes(push) ==
  /\ Len(igCtx.outputs) < MaxOutputs
  /\ \/ /\ push.from = "stack" /\ igMade < MaxPayloads /\ igMade' = igMade + 1
        /\ PushOutput(WriteAt(igMem, PtrOf(StackBlock), PayloadBytes(igMade + 1, push.size)), push,
                      PtrOf(StackBlock))
     \/ /\ push.from = "sdk" /\ igMade < MaxPayloads /\ igMade' = igMade + 1
        /\ \E b \in AllocChoices(igMem, push.off + push.size) :
             PushOutput(WriteAt(plugin_alloc(igMem, b, push.off + push.size), PtrOf(b) + push.off,
                                PayloadBytes(igMade + 1, push.size)), push, PtrOf(b) + push.off)
     \/ /\ push.from = "input" /\ UNCHANGED igMade
        /\ \E i \in DOMAIN igCtx.inputs :
             /\ push.size <= igCtx.inputs[i].size /\ igCtx.inputs[i].size > 0
             /\ PushOutput(igMem, push, igCtx.inputs[i].ptr)

\* plugin_reset_output_state.
HandlerResetsOutput ==
  /\ igCtx.outputs # <<>>
  /\ igMem' = ReleaseBlocks(igMem, VectorsOf(igCtx))
  /\ igCtx' = [igCtx EXCEPT !.outputs = <<>>, !.error = "none"]
  /\ UNCHANGED igMade

\* SerializePivResponse of a context: its descriptors, and the arena into which
\* the payloads are packed unless the descriptors name them where they are.
PackedOffsets(outputs) ==
  LET offset[i \in 0..Len(outputs)] ==
        IF i = 0 THEN 0
        ELSE LET end == IF i = 1 THEN 0 ELSE offset[i - 1] + outputs[i - 1].size
             IN AlignOffset(end, outputs[i].align)
  IN offset
ArenaOf(m, outputs) ==
  LET offset == PackedOffsets(outputs)
      n == Len(outputs)
      At(j) == {i \in 1..n : offset[i] < j /\ j <= offset[i] + outputs[i].size}
  IN [j \in 1..(IF n = 0 THEN 0 ELSE offset[n] + outputs[n].size) |->
        IF At(j) = {} THEN 0
        ELSE LET i == CHOOSE i \in At(j) : TRUE
             IN BytesAt(m, PtrOf(outputs[i].copy), outputs[i].size)[j - offset[i]]]

ErrorResponse(code) == [error |-> code, outputs |-> <<>>, arena |-> <<>>]

SerializePivResponse(m, ctx) ==
  LET n == Len(ctx.outputs)
      offset == PackedOffsets(ctx.outputs)
      Descriptor(o, at, ownership) ==
        [port |-> o.port, offset |-> at, size |-> o.size, align |-> o.align, ownership |-> ownership,
         pushed |-> o.pushed]
  IN IF ctx.direct
     THEN [error |-> ctx.error, arena |-> <<>>,
           outputs |-> [i \in 1..n |-> Descriptor(ctx.outputs[i], ctx.outputs[i].ptr, "PRODUCER_OWNED")]]
     ELSE IF n > 0 /\ offset[n] + ctx.outputs[n].size > MaxArena
     THEN ErrorResponse("output-arena-overflow")
     ELSE [error |-> ctx.error, arena |-> ArenaOf(m, ctx.outputs),
           outputs |-> [i \in 1..n |-> Descriptor(ctx.outputs[i], offset[i], "HOST_OWNED")]]
=============================================================================

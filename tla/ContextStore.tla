---------------------------- MODULE ContextStore ----------------------------
(* The file-backed context store of the Node host (createFileContextStore,     *)
(* nodeHost.js).  The state is an object that is read from a JSON file on first *)
(* use, cached, and written back whole after every change.  Changes run one     *)
(* after the other on writeChain; reads do not.                                 *)
(*                                                                             *)
(* A step is what runs between two awaits.  The value a set stores is the call  *)
(* itself, so a later one is recognised; zero is an absent key.                 *)
EXTENDS Naturals, Sequences

CONSTANTS
  CtxKeys,
  CtxCalls,      \* the calls, in the order they are made: 1..n
  MaxCtxFaults   \* writes that fail

VARIABLES
  ctxObjects,   \* every state object loadState has made
  ctxCache,     \* the cached one: an index, or 0 for null
  ctxFile,      \* the file: contents, none, or cut short
  ctxOp,        \* per call: what it is, where it is, what it has read
  ctxMade,      \* calls made
  ctxChain,     \* calls on writeChain that have not settled
  ctxBroken,    \* writeChain is rejected
  ctxFaults,
  ctxReloaded   \* a load has replaced an object that was already cached

ctxVars == <<ctxObjects, ctxCache, ctxFile, ctxOp, ctxMade, ctxChain, ctxBroken,
             ctxFaults, ctxReloaded>>

Blank == [k \in CtxKeys |-> 0]
File(whole, data) == [whole |-> whole, data |-> data]

CtxInit ==
  /\ ctxObjects = <<>> /\ ctxCache = 0 /\ ctxFile = File(TRUE, Blank)
  /\ ctxOp = [c \in CtxCalls |-> [kind |-> "none", key |-> "", pc |-> "new",
                                  text |-> File(TRUE, Blank), answer |-> 0]]
  /\ ctxMade = 0 /\ ctxChain = <<>> /\ ctxBroken = FALSE /\ ctxFaults = 0
  /\ ctxReloaded = FALSE

CtxAt(c, pc) == ctxOp[c].pc = pc
IsWrite(c) == ctxOp[c].kind \in {"set", "delete"}

\* get, set and delete: a write waits for its turn, a read starts at once.
callCtx(kind, key) ==
  /\ ctxMade + 1 \in CtxCalls
  /\ ctxMade' = ctxMade + 1
  /\ LET c == ctxMade + 1
         op == [ctxOp[c] EXCEPT !.kind = kind, !.key = key]
     IN IF kind = "get"
        THEN /\ ctxOp' = [ctxOp EXCEPT ![c] =
                  IF ctxCache = 0 THEN [op EXCEPT !.pc = "load"]
                  ELSE [op EXCEPT !.pc = "done", !.answer = ctxObjects[ctxCache][key]]]
             /\ UNCHANGED ctxChain
        ELSE /\ ctxOp' = [ctxOp EXCEPT ![c] = [op EXCEPT !.pc = "queued"]]
             /\ ctxChain' = Append(ctxChain, c)
  /\ UNCHANGED <<ctxObjects, ctxCache, ctxFile, ctxBroken, ctxFaults, ctxReloaded>>

\* The change to the state and, in the same step, the payload of flushState.
changed(objects, obj, c) ==
  [objects EXCEPT ![obj][ctxOp[c].key] = IF ctxOp[c].kind = "set" THEN c ELSE 0]
flushing(op, data) == [op EXCEPT !.pc = "flush", !.text = File(TRUE, data)]

itsTurnAlways(c) == ctxChain # <<>> /\ ctxChain[1] <= c
itsTurn(c) == ctxChain # <<>> /\ ctxChain[1] = c

startWrite(c) ==
  /\ CtxAt(c, "queued") /\ itsTurn(c) /\ ~ctxBroken
  /\ IF ctxCache = 0
     THEN ctxOp' = [ctxOp EXCEPT ![c].pc = "load"] /\ UNCHANGED ctxObjects
     ELSE /\ ctxObjects' = changed(ctxObjects, ctxCache, c)
          /\ ctxOp' = [ctxOp EXCEPT ![c] = flushing(@, ctxObjects'[ctxCache])]
  /\ UNCHANGED <<ctxCache, ctxFile, ctxMade, ctxChain, ctxBroken, ctxFaults, ctxReloaded>>

\* readFile takes the bytes that are there; its caller goes on later.
readFile(c) ==
  /\ CtxAt(c, "load")
  /\ ctxOp' = [ctxOp EXCEPT ![c].pc = "parse", ![c].text = ctxFile]
  /\ UNCHANGED <<ctxObjects, ctxCache, ctxFile, ctxMade, ctxChain, ctxBroken, ctxFaults, ctxReloaded>>

\* loadState after the await: the parsed object becomes the cache, and its
\* caller goes on with it.
loadState(c) ==
  /\ CtxAt(c, "parse") /\ ctxOp[c].text.whole
  /\ LET obj == Len(ctxObjects) + 1
         loaded == Append(ctxObjects, ctxOp[c].text.data)
     IN /\ ctxCache' = obj
        /\ ctxReloaded' = (ctxReloaded \/ ctxCache # 0)
        /\ IF IsWrite(c)
           THEN /\ ctxObjects' = changed(loaded, obj, c)
                /\ ctxOp' = [ctxOp EXCEPT ![c] = flushing(@, ctxObjects'[obj])]
           ELSE /\ ctxObjects' = loaded
                /\ ctxOp' = [ctxOp EXCEPT ![c].pc = "done", ![c].answer = loaded[obj][ctxOp[c].key]]
  /\ UNCHANGED <<ctxFile, ctxMade, ctxChain, ctxBroken, ctxFaults>>

\* A file cut short does not parse, and the call is rejected.
parseFails(c) ==
  /\ CtxAt(c, "parse") /\ ~ctxOp[c].text.whole
  /\ ctxOp' = [ctxOp EXCEPT ![c].pc = "rejected"]
  /\ ctxBroken' = (ctxBroken \/ IsWrite(c))
  /\ ctxChain' = IF IsWrite(c) THEN Tail(ctxChain) ELSE ctxChain
  /\ UNCHANGED <<ctxObjects, ctxCache, ctxFile, ctxMade, ctxFaults, ctxReloaded>>

\* writeFile empties the file and then writes it; either part may fail.
emptyFile(c) ==
  /\ CtxAt(c, "flush")
  /\ ctxFile' = File(FALSE, Blank)
  /\ ctxOp' = [ctxOp EXCEPT ![c].pc = "write"]
  /\ UNCHANGED <<ctxObjects, ctxCache, ctxMade, ctxChain, ctxBroken, ctxFaults, ctxReloaded>>

OtherCalls(c) == SelectSeq(ctxChain, LAMBDA d : d # c)

writeFile(c) ==
  /\ CtxAt(c, "write")
  /\ ctxFile' = ctxOp[c].text
  /\ ctxOp' = [ctxOp EXCEPT ![c].pc = "done"]
  /\ ctxChain' = OtherCalls(c)
  /\ UNCHANGED <<ctxObjects, ctxCache, ctxMade, ctxBroken, ctxFaults, ctxReloaded>>

writeFails(c) ==
  /\ ctxOp[c].pc \in {"flush", "write"} /\ ctxFaults < MaxCtxFaults
  /\ ctxFaults' = ctxFaults + 1
  /\ ctxOp' = [ctxOp EXCEPT ![c].pc = "rejected"]
  /\ ctxChain' = OtherCalls(c) /\ ctxBroken' = TRUE
  /\ UNCHANGED <<ctxObjects, ctxCache, ctxFile, ctxMade, ctxReloaded>>

\* A rejected chain runs none of the changes that follow.
rejectQueued(c) ==
  /\ CtxAt(c, "queued") /\ itsTurn(c) /\ ctxBroken
  /\ ctxOp' = [ctxOp EXCEPT ![c].pc = "rejected"]
  /\ ctxChain' = Tail(ctxChain)
  /\ UNCHANGED <<ctxObjects, ctxCache, ctxFile, ctxMade, ctxBroken, ctxFaults, ctxReloaded>>

CtxNext ==
  \/ \E kind \in {"get", "set", "delete"}, key \in CtxKeys : callCtx(kind, key)
  \/ \E c \in CtxCalls :
       \/ startWrite(c) \/ readFile(c) \/ loadState(c) \/ parseFails(c)
       \/ emptyFile(c) \/ writeFile(c) \/ writeFails(c) \/ rejectQueued(c)

CtxSpec == CtxInit /\ [][CtxNext]_ctxVars

----------------------------------------------------------------------------
Confirmed(key) == {c \in CtxCalls : IsWrite(c) /\ ctxOp[c].key = key /\ CtxAt(c, "done")}
LastConfirmed(key, c) == c \in Confirmed(key) /\ \A d \in Confirmed(key) : d <= c
ValueOf(c) == IF ctxOp[c].kind = "set" THEN c ELSE 0
KeptAtRest ==
  ctxChain = <<>> /\ ~ctxBroken =>
    \A key \in CtxKeys, c \in CtxCalls : LastConfirmed(key, c) => ctxFile.data[key] = ValueOf(c)

\* With no change under way the file holds, under every key, what the last
\* change that was confirmed left there, in the order of the calls (writeChain),
\* unless a second load replaced the cached state.
KeptUnlessReloaded == ~ctxReloaded => KeptAtRest

=============================================================================

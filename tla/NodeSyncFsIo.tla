---------------------------- MODULE NodeSyncFsIo ----------------------------
(***************************************************************************)
(* The synchronous file provider of Node workers (nodeSyncFsIo.js): threads *)
(* share a table of virtual handles in a SharedArrayBuffer and each keeps    *)
(* its own file descriptors, opened when it first uses a handle.             *)
(*                                                                          *)
(* A step is one access to the shared words or one file system call; loads   *)
(* and stores between which no other thread's step makes a difference are    *)
(* taken together.  Bytes, offsets, directories and access modes are left     *)
(* out; an operation on an open handle is one step, use.  Paths have          *)
(* different lengths and none is the start of another.                       *)
(***************************************************************************)
EXTENDS Integers

CONSTANTS
  FsThreads,      \* guest threads, each with a provider of its own
  FsInstances,    \* revocable instances
  FsInstanceOf,   \* of each thread; not in FsInstances: anonymous
  FsStored,       \* the paths that exist at the start
  FsOpens,        \* the opens that may be asked for: [path, flags]
  maxHandles,
  GenRange,       \* a generation is kept modulo GenRange (0x100)
  MaxFsCalls,     \* bounds the calls
  MaxRevokes      \* bounds the revocations

VARIABLES
  fsTable,    \* the slots: state, generation, path bytes and length, flags
  fsCursor,   \* header word 5: where the next claim starts to look
  fsWords,    \* per instance: the words revoked and inFlight
  fsFiles,    \* the paths that exist
  fsThread,   \* per thread: where it is in which call, and its localFds
  fsGiven,    \* the handles that open has returned
  fsRevoker,  \* per instance: "no", "waiting" or "returned"
  fsCalls, fsRevokes

fsVars == <<fsTable, fsCursor, fsWords, fsFiles, fsThread, fsGiven, fsRevoker, fsCalls, fsRevokes>>

FsSlots == 0..maxHandles - 1
NoFd == [gen |-> -1, path |-> "none", epoch |-> 0]

\* epoch counts the claims of a slot; it and the path of a handle are not in the
\* code: they tell which opening a handle or a descriptor belongs to.
NoHandle == [slot |-> 0, gen |-> -1, epoch |-> 0, path |-> "none"]

\* A thread in no call.
Idle(fds) == [pc |-> "idle", op |-> "none", path |-> "none", flags |-> {}, handle |-> NoHandle,
              slot |-> 0, tries |-> 0, fds |-> fds]

FsInit ==
  /\ fsTable = [s \in FsSlots |-> [state |-> "FREE", gen |-> 0, bytes |-> "none", len |-> "none",
                                   flags |-> {}, epoch |-> 0]]
  /\ fsCursor = 0
  /\ fsWords = [i \in FsInstances |-> [revoked |-> FALSE, inFlight |-> 0]]
  /\ fsFiles = FsStored
  /\ fsThread = [t \in FsThreads |-> Idle([s \in FsSlots |-> NoFd])]
  /\ fsGiven = {}
  /\ fsRevoker = [i \in FsInstances |-> "no"]
  /\ fsCalls = 0 /\ fsRevokes = 0

FsAt(t, label) == fsThread[t].pc = label
Goes(t, label) == fsThread' = [fsThread EXCEPT ![t].pc = label]
GoesWith(t, label, f, v) == fsThread' = [fsThread EXCEPT ![t].pc = label, ![t][f] = v]
Returns(t) == fsThread' = [fsThread EXCEPT ![t] = Idle(@.fds)]
SlotOf(t) == fsTable[fsThread[t].slot]
HandleSlot(t) == fsTable[fsThread[t].handle.slot]

----------------------------------------------------------------------------
(* Calls, and the guard around all of them except close.                     *)

Revocable(t) == FsInstanceOf[t] \in FsInstances
StartsAt(t, label) == IF Revocable(t) THEN "enter" ELSE label

callOpen(t, o) ==
  /\ FsAt(t, "idle") /\ fsCalls < MaxFsCalls /\ fsCalls' = fsCalls + 1
  /\ fsThread' = [fsThread EXCEPT ![t].pc = StartsAt(t, "open"), ![t].op = "open", ![t].path = o.path,
                                  ![t].flags = o.flags, ![t].handle = NoHandle]
  /\ UNCHANGED <<fsTable, fsCursor, fsWords, fsFiles, fsGiven, fsRevoker, fsRevokes>>

\* read, write, truncate, sync or size with any handle ever returned.
callUse(t, h) ==
  /\ FsAt(t, "idle") /\ fsCalls < MaxFsCalls /\ fsCalls' = fsCalls + 1
  /\ fsThread' = [fsThread EXCEPT ![t].pc = StartsAt(t, "state"), ![t].op = "state", ![t].handle = h]
  /\ UNCHANGED <<fsTable, fsCursor, fsWords, fsFiles, fsGiven, fsRevoker, fsRevokes>>

callClose(t, h) ==
  /\ FsAt(t, "idle") /\ fsCalls < MaxFsCalls /\ fsCalls' = fsCalls + 1
  /\ fsThread' = [fsThread EXCEPT ![t].pc = "closeGen", ![t].op = "close", ![t].handle = h]
  /\ UNCHANGED <<fsTable, fsCursor, fsWords, fsFiles, fsGiven, fsRevoker, fsRevokes>>

countIn(t) ==
  fsWords' = [fsWords EXCEPT ![FsInstanceOf[t]].inFlight = @ + 1]

loadRevoked(t, otherwise) ==
  Goes(t, IF fsWords[FsInstanceOf[t]].revoked THEN "leave" ELSE otherwise)

\* Mutant: enter looks at the word before it counts itself in.
enterLate(t) ==
  \/ /\ FsAt(t, "enter") /\ UNCHANGED fsWords
     /\ IF fsWords[FsInstanceOf[t]].revoked THEN Returns(t) ELSE Goes(t, "check")
  \/ FsAt(t, "check") /\ countIn(t) /\ Goes(t, fsThread[t].op)

\* enter: the call is counted first, then the word is looked at.
enter(t) ==
  \/ FsAt(t, "enter") /\ countIn(t) /\ Goes(t, "check")
  \/ FsAt(t, "check") /\ loadRevoked(t, fsThread[t].op) /\ UNCHANGED fsWords

fsEnter(t) ==
  /\ enter(t)
  /\ UNCHANGED <<fsTable, fsCursor, fsFiles, fsGiven, fsRevoker, fsCalls, fsRevokes>>

\* The call returns; an open that succeeded makes its handle known.
leave(t) ==
  /\ FsAt(t, "leave")
  /\ fsWords' = IF Revocable(t) THEN [fsWords EXCEPT ![FsInstanceOf[t]].inFlight = @ - 1] ELSE fsWords
  /\ fsGiven' = IF fsThread[t].op = "open" /\ fsThread[t].handle # NoHandle
                THEN fsGiven \cup {fsThread[t].handle} ELSE fsGiven
  /\ Returns(t)
  /\ UNCHANGED <<fsTable, fsCursor, fsFiles, fsRevoker, fsCalls, fsRevokes>>

----------------------------------------------------------------------------
(* open: PROBE, UNLINK and UNLINK_IF_UNUSED return at once; the others drop   *)
(* stale descriptors, claim a slot, open the file and publish the slot.       *)

\* The loads of one sweep are taken together: a descriptor kept too long is
\* compared again in fdFor.
sweep(fds) ==
  [s \in FsSlots |-> IF fsTable[s].state = "LIVE" /\ fsTable[s].gen = fds[s].gen THEN fds[s] ELSE NoFd]

openInternal(t) ==
  LET flags == fsThread[t].flags IN
  /\ FsAt(t, "open")
  /\ \/ "PROBE" \in flags /\ Goes(t, "leave") /\ UNCHANGED fsCursor
     \/ /\ "PROBE" \notin flags /\ "UNLINK_IF_UNUSED" \in flags
        /\ GoesWith(t, "scan", "slot", 0) /\ UNCHANGED fsCursor
     \/ /\ flags \cap {"PROBE", "UNLINK", "UNLINK_IF_UNUSED"} = {"UNLINK"}
        /\ Goes(t, "unlink") /\ UNCHANGED fsCursor
     \/ /\ flags \cap {"PROBE", "UNLINK", "UNLINK_IF_UNUSED"} = {}
        /\ fsCursor' = (fsCursor + 1) % maxHandles
        /\ fsThread' = [fsThread EXCEPT ![t].pc = "claim", ![t].slot = fsCursor, ![t].tries = 0,
                                        ![t].fds = sweep(@)]
  /\ UNCHANGED <<fsTable, fsWords, fsFiles, fsGiven, fsRevoker, fsCalls, fsRevokes>>

\* A slot in use by path, as its words stand: the path of a slot being claimed
\* may be half written.
samePath(s, path) == fsTable[s].len = path /\ fsTable[s].bytes = path
pathInUse(t) ==
  LET s == fsThread[t].slot IN
  /\ FsAt(t, "scan")
  /\ IF fsTable[s].state \in {"LIVE", "CLAIMING"} /\ samePath(s, fsThread[t].path) THEN Goes(t, "leave")
     ELSE IF s + 1 = maxHandles THEN Goes(t, "unlink")
     ELSE GoesWith(t, "scan", "slot", s + 1)
  /\ UNCHANGED <<fsTable, fsCursor, fsWords, fsFiles, fsGiven, fsRevoker, fsCalls, fsRevokes>>

\* unlinkSync may fail.
unlink(t) ==
  /\ FsAt(t, "unlink")
  /\ fsFiles' \in {fsFiles \ {fsThread[t].path}, fsFiles}
  /\ Goes(t, "leave")
  /\ UNCHANGED <<fsTable, fsCursor, fsWords, fsGiven, fsRevoker, fsCalls, fsRevokes>>

claimSlot(t) ==
  LET s == fsThread[t].slot IN
  /\ FsAt(t, "claim")
  /\ IF SlotOf(t).state = "FREE"
     THEN /\ fsTable' = [fsTable EXCEPT ![s].state = "CLAIMING", ![s].epoch = @ + 1]
          /\ Goes(t, "bytes")
     ELSE /\ fsThread' = IF fsThread[t].tries + 1 = maxHandles THEN [fsThread EXCEPT ![t].pc = "leave"]
                         ELSE [fsThread EXCEPT ![t].slot = (s + 1) % maxHandles, ![t].tries = @ + 1]
          /\ UNCHANGED fsTable
  /\ UNCHANGED <<fsCursor, fsWords, fsFiles, fsGiven, fsRevoker, fsCalls, fsRevokes>>

\* The path is written while the length is still that of the last user; then
\* the length, the flags, the owner and the new generation.
fillSlot(t) ==
  LET s == fsThread[t].slot
      p == fsThread[t].path IN
  /\ \/ FsAt(t, "bytes") /\ fsTable' = [fsTable EXCEPT ![s].bytes = p] /\ Goes(t, "words")
     \/ /\ FsAt(t, "words") /\ Goes(t, "create")
        /\ fsTable' = [fsTable EXCEPT ![s].len = p, ![s].flags = fsThread[t].flags,
                                      ![s].gen = (@ + 1) % GenRange]
  /\ UNCHANGED <<fsCursor, fsWords, fsFiles, fsGiven, fsRevoker, fsCalls, fsRevokes>>

\* openSync with the flags of the call; it may fail for other reasons too, and
\* the sync of the directory may fail when the file is there.
mayCreate(t) ==
  LET o == fsThread[t] IN
  IF o.path \in fsFiles THEN "EXCL" \notin o.flags ELSE "CREATE" \in o.flags
createFile(t) ==
  LET s == fsThread[t].slot
      p == fsThread[t].path
      gen == SlotOf(t).gen IN
  /\ FsAt(t, "create")
  /\ \/ /\ mayCreate(t)
        /\ fsFiles' = fsFiles \cup {p}
        /\ fsThread' = [fsThread EXCEPT ![t].pc = "publish",
                          ![t].fds[s] = [gen |-> gen, path |-> p, epoch |-> SlotOf(t).epoch]]
        /\ UNCHANGED fsTable
     \/ /\ fsTable' = [fsTable EXCEPT ![s].state = "FREE"]
        /\ Goes(t, "leave")
        /\ UNCHANGED fsFiles \/ (mayCreate(t) /\ fsFiles' = fsFiles \cup {p})
  /\ UNCHANGED <<fsCursor, fsWords, fsGiven, fsRevoker, fsCalls, fsRevokes>>

publishSlot(t) ==
  LET s == fsThread[t].slot IN
  /\ FsAt(t, "publish")
  /\ fsTable' = [fsTable EXCEPT ![s].state = "LIVE"]
  /\ GoesWith(t, "leave", "handle",
              [slot |-> s, gen |-> SlotOf(t).gen, epoch |-> SlotOf(t).epoch, path |-> fsThread[t].path])
  /\ UNCHANGED <<fsCursor, fsWords, fsFiles, fsGiven, fsRevoker, fsCalls, fsRevokes>>

----------------------------------------------------------------------------
(* fdFor: the descriptor of this thread for a handle.                         *)

\* The slot was closed elsewhere: the descriptor kept for this handle is stale.
badHandle(t) ==
  LET h == fsThread[t].handle IN
  fsThread' = [fsThread EXCEPT ![t].pc = "leave", ![t].fds[h.slot] = IF @.gen = h.gen THEN NoFd ELSE @]

loadSlotState(t) ==
  /\ FsAt(t, "state")
  /\ IF HandleSlot(t).state = "LIVE" THEN Goes(t, "gen") ELSE badHandle(t)
  /\ UNCHANGED <<fsTable, fsCursor, fsWords, fsFiles, fsGiven, fsRevoker, fsCalls, fsRevokes>>

\* Mutant: a descriptor kept for the slot is used whatever its generation.
anyCached(t) ==
  LET h == fsThread[t].handle IN
  IF fsThread[t].fds[h.slot] # NoFd THEN Goes(t, "use") ELSE Goes(t, "path")

\* A descriptor of another generation is closed.
fromCache(t) ==
  LET h == fsThread[t].handle IN
  IF fsThread[t].fds[h.slot].gen = h.gen THEN Goes(t, "use")
  ELSE fsThread' = [fsThread EXCEPT ![t].pc = "path", ![t].fds[h.slot] = NoFd]

loadGen(t) ==
  /\ FsAt(t, "gen")
  /\ IF HandleSlot(t).gen = fsThread[t].handle.gen THEN fromCache(t) ELSE badHandle(t)
  /\ UNCHANGED <<fsTable, fsCursor, fsWords, fsFiles, fsGiven, fsRevoker, fsCalls, fsRevokes>>

\* What length and bytes make of the path of a slot: no path of the store if
\* another thread is writing them.
slotPath(s) == IF fsTable[s].len = fsTable[s].bytes THEN fsTable[s].bytes ELSE "torn"
readPath(t) ==
  /\ FsAt(t, "path")
  /\ GoesWith(t, "reopen", "path", slotPath(fsThread[t].handle.slot))
  /\ UNCHANGED <<fsTable, fsCursor, fsWords, fsFiles, fsGiven, fsRevoker, fsCalls, fsRevokes>>

\* openSync without CREATE, TRUNC and EXCL; it may fail for other reasons too.
reopen(t) ==
  LET h == fsThread[t].handle
      p == fsThread[t].path IN
  /\ FsAt(t, "reopen")
  /\ \/ /\ p \in fsFiles
        /\ fsThread' = [fsThread EXCEPT ![t].pc = "use",
                          ![t].fds[h.slot] = [gen |-> h.gen, path |-> p, epoch |-> h.epoch]]
     \/ Goes(t, "leave")
  /\ UNCHANGED <<fsTable, fsCursor, fsWords, fsFiles, fsGiven, fsRevoker, fsCalls, fsRevokes>>

use(t) ==
  /\ FsAt(t, "use") /\ Goes(t, "leave")
  /\ UNCHANGED <<fsTable, fsCursor, fsWords, fsFiles, fsGiven, fsRevoker, fsCalls, fsRevokes>>

----------------------------------------------------------------------------
(* close, which is not guarded, and the exit of a thread.                     *)

closeSlot(t) ==
  LET h == fsThread[t].handle IN
  /\ \/ /\ FsAt(t, "closeGen")
        /\ IF HandleSlot(t).gen = h.gen THEN Goes(t, "closeSwap") ELSE Returns(t)
        /\ UNCHANGED fsTable
     \/ /\ FsAt(t, "closeSwap") /\ HandleSlot(t).state = "LIVE"
        /\ fsTable' = [fsTable EXCEPT ![h.slot].state = "CLOSING"] /\ Goes(t, "closeFree")
     \/ /\ FsAt(t, "closeSwap") /\ HandleSlot(t).state # "LIVE"
        /\ Returns(t) /\ UNCHANGED fsTable
     \/ /\ FsAt(t, "closeFree")
        /\ fsTable' = [fsTable EXCEPT ![h.slot].state = "FREE"]
        /\ LET fds == [fsThread[t].fds EXCEPT ![h.slot] = NoFd] IN
           fsThread' = [fsThread EXCEPT ![t] =
             IF "DELETE_ON_CLOSE" \notin HandleSlot(t).flags THEN Idle(fds)
             ELSE [Idle(fds) EXCEPT !.pc = "closeUnlink", !.path = slotPath(h.slot)]]
  /\ UNCHANGED <<fsCursor, fsWords, fsFiles, fsGiven, fsRevoker, fsCalls, fsRevokes>>

\* DELETE_ON_CLOSE: the slot is free already.
closeUnlink(t) ==
  /\ FsAt(t, "closeUnlink") /\ Returns(t)
  /\ fsFiles' \in {fsFiles \ {fsThread[t].path}, fsFiles}
  /\ UNCHANGED <<fsTable, fsCursor, fsWords, fsGiven, fsRevoker, fsCalls, fsRevokes>>

closeLocalFds(t) ==
  /\ FsAt(t, "idle") /\ GoesWith(t, "idle", "fds", [s \in FsSlots |-> NoFd])
  /\ UNCHANGED <<fsTable, fsCursor, fsWords, fsFiles, fsGiven, fsRevoker, fsCalls, fsRevokes>>

----------------------------------------------------------------------------
(* Revocation by another thread: the word is stored, then the counter is      *)
(* looked at until it is zero.                                               *)

revokeNodeSyncFsIoInstance(i) ==
  /\ \/ /\ fsRevoker[i] = "no" /\ fsRevokes < MaxRevokes /\ fsRevokes' = fsRevokes + 1
        /\ fsWords' = [fsWords EXCEPT ![i].revoked = TRUE]
        /\ fsRevoker' = [fsRevoker EXCEPT ![i] = "waiting"]
     \/ /\ fsRevoker[i] = "waiting" /\ fsWords[i].inFlight = 0
        /\ fsRevoker' = [fsRevoker EXCEPT ![i] = "returned"]
        /\ UNCHANGED <<fsWords, fsRevokes>>
  /\ UNCHANGED <<fsTable, fsCursor, fsFiles, fsThread, fsGiven, fsCalls>>

resetNodeSyncFsIoInstance(i) ==
  /\ fsRevoker[i] = "returned"
  /\ fsWords' = [fsWords EXCEPT ![i].revoked = FALSE]
  /\ fsRevoker' = [fsRevoker EXCEPT ![i] = "no"]
  /\ UNCHANGED <<fsTable, fsCursor, fsFiles, fsThread, fsGiven, fsCalls, fsRevokes>>

FsStep(t) ==
  \/ \E o \in FsOpens : callOpen(t, o)
  \/ \E h \in fsGiven : callUse(t, h) \/ callClose(t, h)
  \/ fsEnter(t) \/ leave(t)
  \/ openInternal(t) \/ pathInUse(t) \/ unlink(t)
  \/ claimSlot(t) \/ fillSlot(t) \/ createFile(t) \/ publishSlot(t)
  \/ loadSlotState(t) \/ loadGen(t) \/ readPath(t) \/ reopen(t) \/ use(t)
  \/ closeSlot(t) \/ closeUnlink(t) \/ closeLocalFds(t)

FsNext ==
  \/ \E t \in FsThreads : FsStep(t)
  \/ \E i \in FsInstances : revokeNodeSyncFsIoInstance(i) \/ resetNodeSyncFsIoInstance(i)

FsSpec == FsInit /\ [][FsNext]_fsVars

----------------------------------------------------------------------------
\* A read or write of a handle that is still open reaches the file the handle
\* was opened for, on whichever thread, although slots are closed and reused by
\* other threads while each keeps descriptors of its own ("other workers' cached
\* fds for that slot are detected as stale"), as long as a thread has not kept a
\* descriptor for a whole round of generations (fdFor).
FdIsOfItsFile ==
  \A t \in FsThreads : FsAt(t, "use") =>
    LET h == fsThread[t].handle
        fd == fsThread[t].fds[h.slot] IN
    fsTable[h.slot].state = "LIVE" /\ fsTable[h.slot].epoch = h.epoch /\ h.epoch < fd.epoch + GenRange
      => fd.path = h.path

\* "no byte of a revoked instance is written after it returns": once revoke has
\* returned and until the id is reset, no call of the instance is past its check
\* (enter counts the call before it looks, revoke stores before it looks).
RevokedIsQuiet ==
  \A t \in FsThreads :
    Revocable(t) /\ fsRevoker[FsInstanceOf[t]] = "returned" =>
      fsThread[t].pc \in {"idle", "enter", "check", "leave", "closeGen", "closeSwap", "closeFree", "closeUnlink"}

\* "UNLINK_IF_UNUSED is BUSY while any live slot names the path": the file is not
\* removed while a live slot names it.
UnlinkSparesLive ==
  [][\A t \in FsThreads :
       unlink(t) /\ "UNLINK_IF_UNUSED" \in fsThread[t].flags =>
         ~\E s \in FsSlots : fsTable[s].state = "LIVE" /\ samePath(s, fsThread[t].path)]_fsVars
=============================================================================

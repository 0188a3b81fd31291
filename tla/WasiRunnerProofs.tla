------------------------- MODULE WasiRunnerProofs -------------------------
(* The WasmEdge command host takes nothing away from a running guest thread,  *)
(* for any number of worker slots.  Only the order of the host's teardown     *)
(* carries the argument: closed is set before anything is cancelled, so no    *)
(* thread starts any more, and every delete comes after a wait.               *)
EXTENDS WasiRunner, TLAPS

ThreadType ==
  [run : Live \cup {"none", "ok", "exit", "trap", "interrupted"}, at : Nat, cancel : BOOLEAN]
TableType == [next_tid : Nat, closed : BOOLEAN, failed : BOOLEAN, exited : BOOLEAN]
HostType ==
  [pc : {"poll", "lock", "reap", "decide", "cancel", "cancelAll", "awaitMain", "awaitWorkers", "freed", "aborted"},
   at : Nat, finished : BOOLEAN, code : {0, 1}]

Runs(t) == rThread[t].run \in Live
Teardown == {"cancel", "cancelAll", "awaitMain", "awaitWorkers", "freed"}

Types == rThread \in [RThreads -> ThreadType] /\ rTable \in TableType /\ rHost \in HostType

\* How far the waits of the teardown have come.
Waited ==
  /\ rHost.pc \in Teardown => rTable.closed
  /\ rHost.pc \in {"awaitWorkers", "freed"} => ~Runs(0)
  /\ rHost.pc = "awaitWorkers" => \A i \in Slots : i < rHost.at => ~Runs(i)
  /\ rHost.pc = "freed" => \A i \in Slots : ~Runs(i)

RunnerInv == Types /\ Waited /\ ~rDeleted

\* What a step of a guest thread may do: no thread runs that did not, unless
\* the table is open, and a closed table stays closed.
GuestMay ==
  /\ rTable.closed => \A i \in RThreads : Runs(i)' => Runs(i)
  /\ rTable.closed => rTable.closed'
  /\ rHost' = rHost /\ ~rDeleted'

----------------------------------------------------------------------------
\* 0 is main's thread, the others are the slots.
LEMMA ThreadSets == RThreads = {0} \cup Slots /\ 0 \in RThreads
  BY MaxWorkersAssumption DEF RThreads, Slots

\* Such a step keeps the invariant.
LEMMA GuestMayKeeps == ASSUME RunnerInv, Types', GuestMay PROVE RunnerInv'
<1>1. \A i \in RThreads : rTable.closed /\ ~Runs(i) => ~Runs(i)'
  BY DEF GuestMay
<1>2. rHost.pc \in {"awaitWorkers", "freed"} => rHost.pc \in Teardown
  BY DEF Teardown
<1>3. Waited'
  BY Zenon, <1>1, <1>2, ThreadSets DEF RunnerInv, Waited, GuestMay
<1> QED BY <1>3 DEF RunnerInv, GuestMay

----------------------------------------------------------------------------
(* The types, where a step builds records.                                    *)

\* A record of a thread with another run.
LEMMA ThreadMoves ==
  ASSUME Types, NEW t \in RThreads, NEW how \in Live \cup {"none", "ok", "exit", "trap", "interrupted"}
  PROVE /\ [rThread EXCEPT ![t].run = how] \in [RThreads -> ThreadType]
        /\ \A i \in RThreads : [rThread EXCEPT ![t].run = how][i].run = IF i = t THEN how ELSE rThread[i].run
  BY DEF Types, ThreadType

\* The table after a slot was reaped: closed is never taken back.
LEMMA ReapedTable ==
  ASSUME Types, NEW i \in Nat
  PROVE reapedTable(i) \in TableType /\ (rTable.closed => reapedTable(i).closed)
<1>1. CASE rThread[i].run = "exit"
  BY Zenon, <1>1 DEF Types, TableType, reapedTable
<1>2. CASE rThread[i].run \in {"trap", "interrupted"}
  BY Zenon, <1>2 DEF Types, TableType, reapedTable
<1>3. CASE rThread[i].run \notin {"exit", "trap", "interrupted"}
  BY <1>3 DEF Types, TableType, reapedTable
<1> QED BY <1>1, <1>2, <1>3

\* Reap makes no thread run and deletes none that does.
LEMMA Reaped ==
  ASSUME RunnerInv, NEW i \in Nat, NEW threads \in [RThreads -> ThreadType], Reap(i, threads)
  PROVE /\ rThread' \in [RThreads -> ThreadType] /\ rTable' \in TableType
        /\ rTable.closed => rTable'.closed
        /\ \A j \in RThreads : rThread'[j].run \in Live => threads[j].run \in Live
        /\ ~rDeleted'
<1>0. Empty \in ThreadType /\ Empty.run \notin Live
  BY DEF Empty, ThreadType, Live
<1>1. CASE Ended(i)
  BY Zenon, <1>0, <1>1, ReapedTable DEF RunnerInv, Reap, reapable, Ended
<1>2. CASE ~Ended(i)
  BY <1>2 DEF RunnerInv, Types, Reap, reapable
<1> QED BY <1>1, <1>2

----------------------------------------------------------------------------
(* The guest's steps.                                                         *)

\* A call ends, or enters thread_spawn: the thread ran before.
LEMMA GuestStep ==
  ASSUME RunnerInv, NEW t \in RThreads,
         CallSpawn(t) \/ \E how \in {"ok", "exit", "trap", "interrupted"} : GuestEnds(t, how)
  PROVE RunnerInv'
<1>1. PICK how \in {"lock", "ok", "exit", "trap", "interrupted"} :
        /\ rThread[t].run = "guest" /\ rThread' = [rThread EXCEPT ![t].run = how]
        /\ UNCHANGED <<rTable, rMutex, rHost, rDeleted>>
  BY DEF CallSpawn, GuestEnds
<1>2. how \in Live \cup {"none", "ok", "exit", "trap", "interrupted"} /\ "guest" \in Live
  BY DEF Live
<1>3. /\ rThread' \in [RThreads -> ThreadType]
      /\ \A i \in RThreads : rThread'[i].run = IF i = t THEN how ELSE rThread[i].run
  BY <1>1, <1>2, ThreadMoves DEF RunnerInv
<1>4. Types'
  BY <1>1, <1>3 DEF RunnerInv, Types
<1>5. GuestMay
  BY <1>1, <1>2, <1>3 DEF GuestMay, Runs, RunnerInv
<1> QED BY <1>4, <1>5, GuestMayKeeps

\* thread_spawn takes the mutex, or leaves because the table is closed.
LEMMA LockStep == ASSUME RunnerInv, NEW t \in RThreads, SpawnLocks(t) PROVE RunnerInv'
<1>0. rThread[t].run \in Live /\ "guest" \in Live /\ "reap" \in Live
  BY DEF SpawnLocks, Live
<1>1. rThread \in [RThreads -> ThreadType]
  BY DEF RunnerInv, Types
<1>2. rThread' \in [RThreads -> ThreadType]
  BY <1>1 DEF SpawnLocks, ThreadType, Live
<1>3. \A i \in RThreads : i # t => rThread'[i] = rThread[i]
  BY <1>1 DEF SpawnLocks
<1>4. Types'
  BY <1>2 DEF RunnerInv, Types, SpawnLocks
<1>5. GuestMay
  BY <1>0, <1>3 DEF GuestMay, Runs, RunnerInv, SpawnLocks
<1> QED BY <1>4, <1>5, GuestMayKeeps

\* thread_spawn reaps one slot.
LEMMA SpawnReapStep == ASSUME RunnerInv, NEW t \in RThreads, SpawnReaps(t) PROVE RunnerInv'
<1> DEFINE i == rThread[t].at
           next == IF i < MAX_WORKERS THEN i + 1 ELSE 0
           run == IF i < MAX_WORKERS THEN "reap" ELSE "pick"
           threads == [rThread EXCEPT ![t].at = next, ![t].run = run]
<1>0. rThread[t].run \in Live /\ rThread \in [RThreads -> ThreadType] /\ i \in Nat
  BY DEF SpawnReaps, Live, RunnerInv, Types, ThreadType
<1>1. threads \in [RThreads -> ThreadType]
  <2>1. next \in Nat /\ run \in Live
    BY <1>0, MaxWorkersAssumption DEF Live
  <2> HIDE DEF next, run
  <2> QED BY Zenon, <1>0, <2>1 DEF ThreadType
<1>2. \A j \in RThreads : j # t => threads[j] = rThread[j]
  BY <1>0
<1>3. Reap(i, threads) /\ rHost' = rHost
  BY DEF SpawnReaps
<1> HIDE DEF i, threads
<1>4. /\ rThread' \in [RThreads -> ThreadType] /\ rTable' \in TableType
      /\ rTable.closed => rTable'.closed
      /\ \A j \in RThreads : rThread'[j].run \in Live => threads[j].run \in Live
      /\ ~rDeleted'
  BY <1>0, <1>1, <1>3, Reaped
<1>5. Types'
  BY <1>3, <1>4 DEF RunnerInv, Types
<1>6. GuestMay
  BY <1>0, <1>2, <1>3, <1>4 DEF GuestMay, Runs
<1> QED BY <1>5, <1>6, GuestMayKeeps

\* A new thread starts only in an open table.
LEMMA PickStep ==
  ASSUME RunnerInv, NEW t \in RThreads, NEW instantiates \in BOOLEAN, SpawnPicks(t, instantiates)
  PROVE RunnerInv'
<1> DEFINE spawns == ~rTable.closed /\ rTable.next_tid <= MaxSpawned /\ FreeSlot # {} /\ instantiates
<1>0. rThread[t].run \in Live /\ rThread \in [RThreads -> ThreadType] /\ rTable \in TableType
  BY DEF SpawnPicks, Live, RunnerInv, Types
<1>1. [rThread[t] EXCEPT !.run = "guest"] \in ThreadType /\ Fresh \in ThreadType
  BY Zenon, <1>0 DEF ThreadType, Fresh, Empty, Live
<1>2. rThread' = [i \in RThreads |-> CASE i = t -> [rThread[t] EXCEPT !.run = "guest"]
                                       [] i # t /\ spawns /\ i \in FreeSlot -> Fresh
                                       [] OTHER -> rThread[i]]
  BY DEF SpawnPicks
<1>3. rTable' = IF spawns THEN [rTable EXCEPT !.next_tid = @ + 1] ELSE rTable
  BY DEF SpawnPicks
<1>4. rTable' \in TableType /\ rTable'.closed = rTable.closed
  BY <1>0, <1>3 DEF TableType
<1>5. spawns => ~rTable.closed
  OBVIOUS
<1> HIDE DEF spawns
<1>6. rThread' \in [RThreads -> ThreadType]
  BY <1>0, <1>1, <1>2
<1>7. \A i \in RThreads : i # t /\ ~spawns => rThread'[i] = rThread[i]
  BY <1>2
<1>8. Types'
  BY <1>4, <1>6 DEF RunnerInv, Types, SpawnPicks
<1>9. GuestMay
  BY <1>0, <1>4, <1>5, <1>7 DEF GuestMay, Runs, RunnerInv, SpawnPicks
<1> QED BY <1>8, <1>9, GuestMayKeeps

----------------------------------------------------------------------------
(* The host's steps.                                                          *)

\* Before the teardown the waits say nothing.
LEMMA LoopStep == ASSUME RunnerInv, HostPolls \/ HostLocks \/ HostDecides PROVE RunnerInv'
<1>1. rHost' \in HostType /\ rHost'.pc \in {"lock", "reap", "cancel", "poll"}
  <2>0. rHost \in HostType
    BY DEF RunnerInv, Types
  <2>1. CASE HostPolls
    <3> DEFINE seen == Ended(0)
    <3>1. seen \in BOOLEAN /\ rHost' = [rHost EXCEPT !.pc = "lock", !.finished = seen]
      BY <2>1 DEF HostPolls, Ended, HasAsync
    <3> HIDE DEF seen
    <3> QED BY Zenon, <2>0, <3>1 DEF HostType
  <2>2. CASE HostLocks
    BY Zenon, <2>0, <2>2 DEF HostLocks, HostType
  <2>3. CASE HostDecides
    <3> DEFINE to == IF stopSeen THEN "cancel" ELSE "poll"
    <3>1. to \in {"cancel", "poll"} /\ rHost' = [rHost EXCEPT !.pc = to]
      BY <2>3 DEF HostDecides
    <3> HIDE DEF to
    <3> QED BY <2>0, <3>1 DEF HostType
  <2> QED BY <2>1, <2>2, <2>3
<1>2. rTable' \in TableType
  BY Zenon DEF HostPolls, HostLocks, HostDecides, RunnerInv, Types, TableType
<1>3. rHost'.pc = "cancel" => rTable'.closed
  BY Zenon DEF HostPolls, HostLocks, HostDecides, RunnerInv, Types, TableType, HostType
<1>4. rThread' = rThread /\ rDeleted' = rDeleted
  BY DEF HostPolls, HostLocks, HostDecides
<1> QED BY <1>1, <1>2, <1>3, <1>4 DEF RunnerInv, Types, Waited, Teardown

\* The host reaps one slot.
LEMMA HostReapStep == ASSUME RunnerInv, HostReaps PROVE RunnerInv'
<1>0. rThread \in [RThreads -> ThreadType] /\ rHost.at \in Nat /\ Reap(rHost.at, rThread)
  BY DEF HostReaps, RunnerInv, Types, HostType
<1>1. rThread' \in [RThreads -> ThreadType] /\ rTable' \in TableType /\ ~rDeleted'
  BY <1>0, Reaped
<1>2. rHost' \in HostType /\ rHost'.pc \in {"reap", "decide"}
  <2> DEFINE next == IF rHost.at < MAX_WORKERS THEN rHost.at + 1 ELSE 0
             to == IF rHost.at < MAX_WORKERS THEN "reap" ELSE "decide"
  <2>1. next \in Nat /\ to \in {"reap", "decide"}
    BY <1>0
  <2>2. rHost' = [rHost EXCEPT !.at = next, !.pc = to] /\ rHost \in HostType
    BY DEF HostReaps, RunnerInv, Types
  <2> HIDE DEF next, to
  <2> QED BY Zenon, <2>1, <2>2 DEF HostType
<1> QED BY <1>1, <1>2 DEF RunnerInv, Types, Waited, Teardown

\* Cancelling stops no thread by itself and starts none.
LEMMA CancelStep == ASSUME RunnerInv, HostCancelsMain \/ HostCancelsWorkers PROVE RunnerInv'
<1>1. rHost' \in HostType /\ rHost'.pc \in {"cancelAll", "awaitMain"}
  BY DEF HostCancelsMain, HostCancelsWorkers, RunnerInv, Types, HostType
<1>2. rTable' = rTable /\ rDeleted' = rDeleted /\ rTable.closed
  BY DEF HostCancelsMain, HostCancelsWorkers, RunnerInv, Waited, Teardown
<1>3. rThread' \in [RThreads -> ThreadType]
  <2>1. CASE HostCancelsMain
    <3> DEFINE runs == ~Ended(0)
    <3>1. runs \in BOOLEAN /\ rThread' = [rThread EXCEPT ![0].cancel = runs]
      BY <2>1 DEF Ended, HasAsync, HostCancelsMain
    <3> HIDE DEF runs
    <3> QED BY <3>1, ThreadSets DEF RunnerInv, Types, ThreadType
  <2>2. CASE HostCancelsWorkers
    BY Zenon, <2>2 DEF HostCancelsWorkers, RunnerInv, Types, ThreadType
  <2> QED BY <2>1, <2>2
<1> QED BY <1>1, <1>2, <1>3 DEF RunnerInv, Types, Waited

\* The waits: main first, then the slots in order.
LEMMA WaitStep == ASSUME RunnerInv, HostGetsMain \/ HostFreesWorker \/ HostAborts PROVE RunnerInv'
<1>0. rThread' = rThread /\ rTable' = rTable /\ rDeleted' = rDeleted
  BY DEF HostGetsMain, HostFreesWorker, HostAborts
<1>1. rHost' \in HostType
  <2>0. rHost \in HostType
    BY DEF RunnerInv, Types
  <2>1. CASE HostGetsMain
    BY Zenon, <2>0, <2>1 DEF HostGetsMain, HostType
  <2>2. CASE HostFreesWorker
    <3> DEFINE to == IF rHost.at < MAX_WORKERS THEN "awaitWorkers" ELSE "freed"
               next == rHost.at + 1
    <3>1. to \in {"awaitWorkers", "freed"} /\ rHost' = [rHost EXCEPT !.at = next, !.pc = to]
      BY <2>2 DEF HostFreesWorker
    <3>2. next \in Nat
      BY <2>0 DEF HostType
    <3> HIDE DEF to, next
    <3> QED BY Zenon, <2>0, <3>1, <3>2 DEF HostType
  <2>3. CASE HostAborts
    BY Zenon, <2>0, <2>3 DEF HostAborts, HostType
  <2> QED BY <2>1, <2>2, <2>3
<1>2. CASE HostGetsMain
  <2>1. rHost'.pc = "awaitWorkers" /\ rHost'.at = 1 /\ ~Runs(0) /\ rTable.closed
    BY <1>2 DEF HostGetsMain, RunnerInv, Types, HostType, Waited, Teardown, Ended, Runs
  <2> QED BY <1>0, <1>1, <2>1 DEF RunnerInv, Types, Waited, Slots, Runs
<1>3. CASE HostFreesWorker
  <2>1. /\ rHost.pc = "awaitWorkers" /\ rHost.at \in Slots /\ rHost'.at = rHost.at + 1
        /\ rHost'.pc = IF rHost.at < MAX_WORKERS THEN "awaitWorkers" ELSE "freed"
    BY <1>3 DEF HostFreesWorker, RunnerInv, Types, HostType
  <2>2. ~Runs(rHost.at)
    BY <1>3 DEF HostFreesWorker, mayFree, HasAsync, Ended, Runs, Live
  <2>3. rTable.closed /\ ~Runs(0) /\ \A i \in Slots : i < rHost.at => ~Runs(i)
    BY <2>1 DEF RunnerInv, Waited, Teardown
  <2>4. \A i \in Slots : i < rHost.at + 1 => ~Runs(i)
    BY <2>1, <2>2, <2>3, MaxWorkersAssumption DEF Slots
  <2>5. rHost'.pc = "freed" => \A i \in Slots : ~Runs(i)
    BY <2>1, <2>4, MaxWorkersAssumption DEF Slots
  <2> QED BY <1>0, <1>1, <2>1, <2>3, <2>4, <2>5 DEF RunnerInv, Types, Waited, Runs
<1>4. CASE HostAborts
  <2>1. rHost'.pc = "aborted"
    BY <1>4 DEF HostAborts, RunnerInv, Types, HostType
  <2> QED BY <1>0, <1>1, <2>1 DEF RunnerInv, Types, Waited, Teardown
<1> QED BY <1>2, <1>3, <1>4

----------------------------------------------------------------------------
(* Whatever the number of slots and of threads: reap deletes no instance of a *)
(* running call, and when the store, the memory and the executor are freed    *)
(* no thread runs (the teardown of main()).                                   *)
THEOREM RunnerIsSafe == RSpec => []RunningIsKept
<1>1. RInit => RunnerInv
  <2> SUFFICES ASSUME RInit PROVE RunnerInv
    OBVIOUS
  <2>1. Fresh \in ThreadType /\ Empty \in ThreadType
    BY Zenon DEF Fresh, Empty, ThreadType, Live
  <2>2. rThread \in [RThreads -> ThreadType]
    BY <2>1 DEF RInit
  <2>3. rTable \in TableType /\ rHost \in HostType /\ rHost.pc = "poll" /\ ~rDeleted
    BY DEF RInit, TableType, HostType
  <2> QED BY <2>2, <2>3 DEF RunnerInv, Types, Waited, Teardown
<1>2. ASSUME RunnerInv, [RNext]_rVars PROVE RunnerInv'
  <2>1. CASE UNCHANGED rVars
    BY <1>2, <2>1 DEF rVars, RunnerInv, Types, Waited, Runs
  <2>2. ASSUME NEW t \in RThreads,
               \/ \E how \in {"ok", "exit", "trap", "interrupted"} : GuestEnds(t, how)
               \/ CallSpawn(t) \/ SpawnLocks(t) \/ SpawnReaps(t)
               \/ \E instantiates \in BOOLEAN : SpawnPicks(t, instantiates)
        PROVE RunnerInv'
    BY <1>2, <2>2, GuestStep, LockStep, SpawnReapStep, PickStep
  <2>3. CASE HostPolls \/ HostLocks \/ HostReaps \/ HostDecides
    BY <1>2, <2>3, LoopStep, HostReapStep
  <2>4. CASE HostCancelsMain \/ HostCancelsWorkers \/ HostGetsMain \/ HostFreesWorker \/ HostAborts
    BY <1>2, <2>4, CancelStep, WaitStep
  <2> QED BY <1>2, <2>1, <2>2, <2>3, <2>4 DEF RNext
<1>3. RunnerInv => RunningIsKept
  BY ThreadSets DEF RunnerInv, Waited, Runs, RunningIsKept
<1> QED BY <1>1, <1>2, <1>3, PTL DEF RSpec
=============================================================================

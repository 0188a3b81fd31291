---------------------------- MODULE WasiRunner ----------------------------
(* The WasmEdge command host of the parity lanes                             *)
(* (wasmedge_wasi_threads_runner.c): the guest's main call and its threads    *)
(* run at once, thread-spawn and the host's loop share one mutex and a table  *)
(* of worker slots, and the host tears everything down when a call ends.      *)
(*                                                                          *)
(* Thread 0 is main_call, thread i > 0 the one in slot i.  Under the mutex    *)
(* the slots are visited one step each, because guest threads end meanwhile.  *)
EXTENDS Naturals

CONSTANTS
  MAX_WORKERS,
  MaxSpawned     \* threads started

ASSUME MaxWorkersAssumption == MAX_WORKERS \in Nat

VARIABLES
  rThread,   \* per thread: run, at (next slot of its reap), cancel
  rTable,    \* [next_tid, closed, failed, exited]
  rMutex,    \* the holder: a thread, "host" or "none"
  rHost,     \* the C main(): [pc, at, finished, code]
  rDeleted   \* an instance was deleted while its thread was running

rVars == <<rThread, rTable, rMutex, rHost, rDeleted>>

Slots == 1..MAX_WORKERS
RThreads == 0..MAX_WORKERS
Live == {"guest", "lock", "reap", "pick"}   \* inside the guest or thread_spawn
Empty == [run |-> "none", at |-> 0, cancel |-> FALSE]
Fresh == [Empty EXCEPT !.run = "guest"]
HasAsync(i) == rThread[i].run # "none"
Ended(i) == HasAsync(i) /\ rThread[i].run \notin Live

----------------------------------------------------------------------------
(* The guest: a call returns, exits, traps, or stops because it is cancelled. *)

\* Main's end, or a worker's exit or trap, ends the command.
GuestEnds(t, how) ==
  /\ rThread[t].run = "guest"
  /\ how \in (IF rThread[t].cancel THEN {"interrupted"} ELSE {"ok", "exit", "trap"})
  /\ rThread' = [rThread EXCEPT ![t].run = how]
  /\ UNCHANGED <<rTable, rMutex, rHost, rDeleted>>

----------------------------------------------------------------------------
(* reap: one slot.  A slot whose call has ended gives up its instance.        *)

reapsAny(i) == HasAsync(i)
reapable(i) == Ended(i)
reapedTable(i) ==
  CASE rThread[i].run = "exit" -> [rTable EXCEPT !.exited = TRUE, !.closed = TRUE]
    [] rThread[i].run \in {"trap", "interrupted"} -> [rTable EXCEPT !.failed = TRUE, !.closed = TRUE]
    [] OTHER -> rTable
Reap(i, threads) ==
  IF reapable(i)
  THEN /\ rThread' = [threads EXCEPT ![i] = Empty]
       /\ rTable' = reapedTable(i)
       /\ rDeleted' = (rDeleted \/ rThread[i].run \in Live)
  ELSE rThread' = threads /\ UNCHANGED <<rTable, rDeleted>>

----------------------------------------------------------------------------
(* thread_spawn, in the thread that called it.                               *)

CallSpawn(t) ==
  /\ rThread[t].run = "guest" /\ ~rThread[t].cancel
  /\ rThread' = [rThread EXCEPT ![t].run = "lock"]
  /\ UNCHANGED <<rTable, rMutex, rHost, rDeleted>>

SpawnLocks(t) ==
  /\ rThread[t].run = "lock" /\ rMutex = "none"
  /\ IF rTable.closed
     THEN rThread' = [rThread EXCEPT ![t].run = "guest"] /\ UNCHANGED rMutex
     ELSE rThread' = [rThread EXCEPT ![t].run = "reap", ![t].at = 1] /\ rMutex' = "thread"
  /\ UNCHANGED <<rTable, rHost, rDeleted>>

SpawnReaps(t) ==
  /\ rThread[t].run = "reap"
  /\ LET i == rThread[t].at IN
     Reap(i, [rThread EXCEPT ![t].at = IF i < MAX_WORKERS THEN i + 1 ELSE 0,
                             ![t].run = IF i < MAX_WORKERS THEN "reap" ELSE "pick"])
  /\ UNCHANGED <<rMutex, rHost>>

\* The first free slot takes a new instance, unless instantiating it fails.
FreeSlot == {i \in Slots : ~HasAsync(i) /\ \A j \in 1..(i - 1) : HasAsync(j)}
SpawnPicks(t, instantiates) ==
  /\ rThread[t].run = "pick"
  /\ LET spawns == ~rTable.closed /\ rTable.next_tid <= MaxSpawned /\ FreeSlot # {} /\ instantiates
     IN /\ rThread' = [i \in RThreads |-> CASE i = t -> [rThread[t] EXCEPT !.run = "guest"]
                                             [] i # t /\ spawns /\ i \in FreeSlot -> Fresh
                                             [] OTHER -> rThread[i]]
        /\ rTable' = IF spawns THEN [rTable EXCEPT !.next_tid = @ + 1] ELSE rTable
  /\ rMutex' = "none"
  /\ UNCHANGED <<rHost, rDeleted>>

----------------------------------------------------------------------------
(* The host's loop: wait a moment for main, then reap under the mutex.        *)

HostPolls ==
  /\ rHost.pc = "poll"
  /\ rHost' = [rHost EXCEPT !.pc = "lock", !.finished = Ended(0)]
  /\ UNCHANGED <<rThread, rTable, rMutex, rDeleted>>

HostLocks ==
  /\ rHost.pc = "lock" /\ rMutex = "none"
  /\ rMutex' = "host"
  /\ rHost' = [rHost EXCEPT !.pc = "reap", !.at = 1]
  /\ UNCHANGED <<rThread, rTable, rDeleted>>

HostReaps ==
  /\ rHost.pc = "reap"
  /\ Reap(rHost.at, rThread)
  /\ rHost' = [rHost EXCEPT !.at = IF @ < MAX_WORKERS THEN @ + 1 ELSE 0,
                            !.pc = IF rHost.at < MAX_WORKERS THEN "reap" ELSE "decide"]
  /\ UNCHANGED <<rMutex>>

stopSeen == rHost.finished \/ rTable.failed \/ rTable.exited
HostDecides ==
  /\ rHost.pc = "decide"
  /\ rMutex' = "none"
  /\ rTable' = IF stopSeen THEN [rTable EXCEPT !.closed = TRUE] ELSE rTable
  /\ rHost' = [rHost EXCEPT !.pc = IF stopSeen THEN "cancel" ELSE "poll"]
  /\ UNCHANGED <<rThread, rDeleted>>

----------------------------------------------------------------------------
(* Teardown: cancel what runs, wait for it until the deadline, free it.       *)

HostCancelsMain ==
  /\ rHost.pc = "cancel"
  /\ rThread' = [rThread EXCEPT ![0].cancel = ~Ended(0)]
  /\ rHost' = [rHost EXCEPT !.pc = "cancelAll"]
  /\ UNCHANGED <<rTable, rMutex, rDeleted>>

HostCancelsWorkers ==
  /\ rHost.pc = "cancelAll" /\ rMutex = "none"
  /\ rThread' = [i \in RThreads |-> IF i # 0 /\ HasAsync(i) THEN [rThread[i] EXCEPT !.cancel = TRUE] ELSE rThread[i]]
  /\ rHost' = [rHost EXCEPT !.pc = "awaitMain"]
  /\ UNCHANGED <<rTable, rMutex, rDeleted>>

\* WasmEdge_ResultOK is true of an exit.
mainFailed == rTable.failed \/ (rThread[0].run \in {"trap", "interrupted"} /\ ~rTable.exited)
HostGetsMain ==
  /\ rHost.pc = "awaitMain" /\ Ended(0)
  /\ rHost' = [rHost EXCEPT !.pc = "awaitWorkers", !.at = 1, !.code = IF mainFailed THEN 1 ELSE 0]
  /\ UNCHANGED <<rThread, rTable, rMutex, rDeleted>>

mayFree(i) == ~HasAsync(i) \/ Ended(i)
HostFreesWorker ==
  /\ rHost.pc = "awaitWorkers" /\ rHost.at \in Slots /\ mayFree(rHost.at)
  /\ rHost' = [rHost EXCEPT !.at = @ + 1, !.pc = IF rHost.at < MAX_WORKERS THEN "awaitWorkers" ELSE "freed"]
  /\ UNCHANGED <<rThread, rTable, rMutex, rDeleted>>

\* _Exit(1): nothing is freed under a thread that will not stop.
HostAborts ==
  /\ \/ rHost.pc = "awaitMain" /\ ~Ended(0)
     \/ rHost.pc = "awaitWorkers" /\ ~mayFree(rHost.at)
  /\ rHost' = [rHost EXCEPT !.pc = "aborted", !.code = 1]
  /\ UNCHANGED <<rThread, rTable, rMutex, rDeleted>>

----------------------------------------------------------------------------
RInit ==
  /\ rThread = [t \in RThreads |-> IF t = 0 THEN Fresh ELSE Empty]
  /\ rTable = [next_tid |-> 1, closed |-> FALSE, failed |-> FALSE, exited |-> FALSE]
  /\ rMutex = "none"
  /\ rHost = [pc |-> "poll", at |-> 0, finished |-> FALSE, code |-> 0]
  /\ rDeleted = FALSE

RNext ==
  /\ rHost.pc # "aborted"
  /\ \/ \E t \in RThreads :
          \/ \E how \in {"ok", "exit", "trap", "interrupted"} : GuestEnds(t, how)
          \/ CallSpawn(t) \/ SpawnLocks(t) \/ SpawnReaps(t)
          \/ \E instantiates \in BOOLEAN : SpawnPicks(t, instantiates)
     \/ HostPolls \/ HostLocks \/ HostReaps \/ HostDecides
     \/ HostCancelsMain \/ HostCancelsWorkers \/ HostGetsMain \/ HostFreesWorker \/ HostAborts

RSpec == RInit /\ [][RNext]_rVars

----------------------------------------------------------------------------
(* Nothing is taken away from under a running guest thread: reap deletes an   *)
(* instance "only ... after execution ends", whichever thread runs it, and    *)
(* the store, the memory and the executor are freed only when no thread runs, *)
(* one that was being spawned during the teardown included (thread_spawn      *)
(* refuses once closed; the waits before the deletes).                        *)
RunningIsKept ==
  ~rDeleted /\ (rHost.pc = "freed" => \A t \in RThreads : rThread[t].run \notin Live)
=============================================================================

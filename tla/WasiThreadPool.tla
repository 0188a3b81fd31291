--------------------------- MODULE WasiThreadPool ---------------------------
(***************************************************************************)
(* The wasi-threads pool (src/host/wasiThreadPool.js) with the two hosts   *)
(* that drive it (wasiThreadHost.js: Node and browser) and its workers     *)
(* (wasiThreadWorker.mjs, wasiThreadBrowserWorker.mjs).                    *)
(*                                                                         *)
(* One step is one atomic access to the shared control words (or one turn  *)
(* of the owner's event loop).  A thread is the owner or the worker of a   *)
(* slot; the guest thread a worker runs may itself call thread-spawn, so   *)
(* a worker's pc walks through the pool's serve loop and, while its guest  *)
(* thread runs, through the spawn code.                                    *)
(***************************************************************************)
EXTENDS Integers, FiniteSets

CONSTANTS
  Capacity,      \* H_CAPACITY, slots the pool has room for
  Growable,      \* TRUE on Node: spawners start workers (grow)
  MessageSlots,  \* slots whose worker script predates the pool protocol
  CannotBlock,   \* threads on which Atomics.wait throws
  SpawnWaits,    \* TRUE when spawnWaitMs > 0
  MortalSlots,   \* slots whose worker may die at any point
  MayTerminate,  \* TRUE when the host may call terminateAll
  MaxTid,        \* MAX_TID
  MaxCalls       \* bound: thread-spawn calls made in a behaviour

Owner == -1
NoSlot == -1
Slots == 0 .. Capacity - 1
Threads == Slots \cup {Owner}

ASSUME PoolAssumption ==
  /\ Capacity \in Nat
  /\ MaxTid \in Nat
  /\ MaxCalls \in Nat
  /\ Growable \in BOOLEAN
  /\ SpawnWaits \in BOOLEAN
  /\ MayTerminate \in BOOLEAN
  /\ MessageSlots \subseteq Slots
  /\ MortalSlots \subseteq Slots
  /\ CannotBlock \subseteq Threads
  /\ Growable => MessageSlots = {}

PENDING  == 0
IDLE     == 1
CLAIMED  == 2
ASSIGNED == 3
RUNNING  == 4
RETIRED  == 5
SlotStates == PENDING .. RETIRED

VARIABLES
  generation,  \* H_GENERATION
  nextTid,     \* H_NEXT_TID
  inService,   \* H_SLOTS
  counts,      \* H_SPAWNED, H_WAITED, H_DECLINED
  state,       \* S_STATE of each slot
  tid,         \* S_TID of each slot
  pc,          \* where each thread is
  at,          \* scan: the slot the thread is at
  upto,        \* scan: H_SLOTS as read when the scan began
  live,        \* scan: claimable slots found not RETIRED
  seen,        \* the generation (or slot state) read before a wait
  until,       \* the clock value that ends the wait: 1 growAt, 2 deadline
  clock,       \* time since the first scan failed
  waited,      \* 1 once the spawn has waited
  slot,        \* the slot the spawn claimed or reserved
  myTid,       \* the thread id the spawn took
  starvedAt,   \* generation at which the thread's last wait ran out
  canBlock,    \* FALSE once Atomics.wait has thrown on the thread
  rtid,        \* tid of the guest thread the slot's worker runs
  mail,        \* {t:"run"} posted to a message-dispatch worker (0: none)
  exits,       \* {t:"exit"} messages waiting for the owner's event loop
  watched,     \* slots whose worker's exit/error event reaches the owner
  disabled,    \* poolDisabled of the browser host
  terminated,  \* terminateAll was called
  calls,       \* spawn calls made
  returned,    \* tids a spawn has returned to the guest
  runs         \* how often wasi_thread_start was called with each tid

vars == <<generation, nextTid, inService, counts, state, tid, pc, at, upto, live,
          seen, until, clock, waited, slot, myTid, starvedAt, canBlock, rtid, mail,
          exits, watched, disabled, terminated, calls, returned, runs>>

\* The words every spawner shares and no slot operation of the owner touches.
hostVars == <<mail, exits, watched, disabled, terminated>>
historyVars == <<calls, returned, runs>>
spawnVars == <<nextTid, inService, counts, starvedAt, canBlock>>
scanVars == <<at, upto, live>>
waitVars == <<seen, until, clock, waited>>
claimVars == <<slot, myTid>>
localVars == <<scanVars, waitVars, claimVars>>

-----------------------------------------------------------------------------
(* Locals.  clock abstracts monotonicNow() against growAt and deadline:    *)
(* NotStarted before the first scan failed, 0 before growAt, 1 from growAt *)
(* on, 2 from the deadline on.                                             *)

NotStarted == -1

Home(t) == IF t = Owner THEN "idle" ELSE "running"

\* Atomics.notify on a slot word, and on the generation word.
NotifySlot(p, s) == IF p[s] = "asleep" THEN [p EXCEPT ![s] = "loop"] ELSE p
NotifyGeneration(p) ==
  [t \in Threads |-> IF p[t] = "gasleep" THEN "gen" ELSE p[t]]

Goto(t, l) == pc' = [pc EXCEPT ![t] = l]

\* setState without its bumpGeneration, which is the thread's next step.
StoreAndNotify(t, s, v, l) ==
  /\ state' = [state EXCEPT ![s] = v]
  /\ pc' = NotifySlot([pc EXCEPT ![t] = l], s)

BumpLabels == {"bumpHome", "bumpTerm", "bumpArm", "bumpLoop", "bumpDead"}

AfterBump(t) ==
  CASE pc[t] = "bumpTerm" -> "term"
    [] pc[t] = "bumpArm"  -> "arming"
    [] pc[t] = "bumpLoop" -> "loop"
    [] pc[t] = "bumpDead" -> "dead"
    [] OTHER              -> Home(t)

bumpGeneration(t) ==
  /\ pc[t] \in BumpLabels
  /\ generation' = generation + 1
  /\ pc' = NotifyGeneration([pc EXCEPT ![t] = AfterBump(t)])
  /\ UNCHANGED <<state, tid, localVars, rtid, spawnVars, hostVars, historyVars>>

-----------------------------------------------------------------------------
(* Spawning: createWasiThreadPoolSpawn.                                    *)

\* A guest thread (or the owner's guest) calls wasi.thread-spawn.  The
\* browser owner declines outside the pool while poolDisabled.
Spawn(t) ==
  /\ pc[t] = Home(t)
  /\ t \notin MessageSlots
  /\ t = Owner => ~disabled
  /\ calls < MaxCalls
  /\ calls' = calls + 1
  /\ at' = [at EXCEPT ![t] = 0]
  /\ upto' = [upto EXCEPT ![t] = 0]
  /\ live' = [live EXCEPT ![t] = 0]
  /\ until' = [until EXCEPT ![t] = 1]
  /\ clock' = [clock EXCEPT ![t] = NotStarted]
  /\ waited' = [waited EXCEPT ![t] = 0]
  /\ slot' = [slot EXCEPT ![t] = NoSlot]
  /\ myTid' = [myTid EXCEPT ![t] = 0]
  /\ Goto(t, "scan")
  /\ UNCHANGED <<seen, generation, state, tid, rtid, spawnVars, hostVars, returned,
                 runs>>

\* scan: the number of slots is read once.
ScanBegin(t) ==
  /\ pc[t] = "scan"
  /\ at' = [at EXCEPT ![t] = 0]
  /\ upto' = [upto EXCEPT ![t] = inService]
  /\ live' = [live EXCEPT ![t] = 0]
  /\ Goto(t, "cas")
  /\ UNCHANGED <<waitVars, claimVars, generation, state, tid, rtid, spawnVars,
                 hostVars, historyVars>>

claimable(t, s) == t = Owner \/ s \notin MessageSlots

\* The state the claim's compare-exchange expects, and a mutant that only
\* checks that the slot is in use.
slotIsLive(s) == state[s] # RETIRED
slotIsFree(s) == state[s] = IDLE

\* scan, one slot: compare-exchange IDLE to CLAIMED.
ScanCas(t) ==
  /\ pc[t] = "cas"
  /\ at[t] < upto[t]
  /\ LET s == at[t] IN
     \/ /\ ~claimable(t, s)
        /\ at' = [at EXCEPT ![t] = s + 1]
        /\ UNCHANGED <<state, slot, pc>>
     \/ /\ claimable(t, s)
        /\ slotIsFree(s)
        /\ state' = [state EXCEPT ![s] = CLAIMED]
        /\ slot' = [slot EXCEPT ![t] = s]
        /\ Goto(t, "tid")
        /\ UNCHANGED at
     \/ /\ claimable(t, s)
        /\ ~slotIsFree(s)
        /\ Goto(t, "live")
        /\ UNCHANGED <<state, slot, at>>
  /\ UNCHANGED <<upto, live, waitVars, myTid, generation, tid, rtid, spawnVars,
                 hostVars, historyVars>>

\* scan, the slot was not IDLE: count it unless it is RETIRED by now.
ScanLive(t) ==
  /\ pc[t] = "live"
  /\ at' = [at EXCEPT ![t] = @ + 1]
  /\ live' = [live EXCEPT ![t] = IF state[at[t]] # RETIRED THEN @ + 1 ELSE @]
  /\ Goto(t, "cas")
  /\ UNCHANGED <<upto, waitVars, claimVars, generation, state, tid, rtid, spawnVars,
                 hostVars, historyVars>>

\* scan found nothing.  The first scan starts the clocks.
ScanEnd(t) ==
  /\ pc[t] = "cas"
  /\ at[t] >= upto[t]
  /\ IF clock[t] = NotStarted
     THEN /\ clock' = [clock EXCEPT ![t] = IF canBlock[t] /\ SpawnWaits THEN 0 ELSE 2]
          /\ Goto(t, "gen")
     ELSE /\ Goto(t, "decide")
          /\ UNCHANGED clock
  /\ UNCHANGED <<scanVars, seen, until, waited, claimVars, generation, state, tid,
                 rtid, spawnVars, hostVars, historyVars>>

LoadGeneration(t) ==
  /\ pc[t] = "gen"
  /\ seen' = [seen EXCEPT ![t] = generation]
  /\ Goto(t, "scan")
  /\ UNCHANGED <<scanVars, until, clock, waited, claimVars, generation, state, tid,
                 rtid, spawnVars, hostVars, historyVars>>

\* Time passes while a spawn decides or waits.
Tick(t) ==
  /\ pc[t] \in {"decide", "gasleep"}
  /\ clock[t] < 2
  /\ clock' = [clock EXCEPT ![t] = @ + 1]
  /\ UNCHANGED <<scanVars, seen, until, waited, claimVars, generation, state, tid,
                 pc, rtid, spawnVars, hostVars, historyVars>>

DeclineExhausted(t) ==
  /\ counts' = [counts EXCEPT !.declined = @ + 1]
  /\ Goto(t, Home(t))

\* H_SLOTS < H_CAPACITY, and its off-by-one mutant.
hasRoomOrFull == inService <= Capacity
hasRoom == inService < Capacity

\* claim, after a scan that found nothing: grow, decline or wait.
Decide(t) ==
  /\ pc[t] = "decide"
  /\ LET room == Growable /\ hasRoom
         due  == clock[t] >= IF room THEN 1 ELSE 2
         none == live[t] = 0
     IN
     \/ /\ room /\ (none \/ due)
        /\ Goto(t, "reserve")
        /\ UNCHANGED <<until, starvedAt, counts>>
     \/ /\ ~room /\ (none \/ seen[t] = starvedAt[t] \/ due)
        /\ starvedAt' = IF ~none /\ seen[t] # starvedAt[t]
                        THEN [starvedAt EXCEPT ![t] = seen[t]] ELSE starvedAt
        /\ DeclineExhausted(t)
        /\ UNCHANGED until
     \/ /\ ~none /\ ~due
        /\ ~room => seen[t] # starvedAt[t]
        /\ until' = [until EXCEPT ![t] = IF room THEN 1 ELSE 2]
        /\ Goto(t, "gwait")
        /\ UNCHANGED <<starvedAt, counts>>
  /\ UNCHANGED <<scanVars, seen, clock, waited, claimVars, generation, nextTid,
                 inService, canBlock, state, tid, rtid, hostVars, historyVars>>

\* Atomics.wait on the generation.  Where it throws, a spawn with room grows
\* at once and one without is declined.
WaitGeneration(t) ==
  /\ pc[t] = "gwait"
  /\ \/ /\ t \in CannotBlock
        /\ canBlock' = [canBlock EXCEPT ![t] = FALSE]
        /\ IF until[t] = 1
           THEN /\ clock' = [clock EXCEPT ![t] = IF @ = 0 THEN 1 ELSE @]
                /\ Goto(t, "gen")
                /\ UNCHANGED counts
           ELSE DeclineExhausted(t) /\ UNCHANGED clock
        /\ UNCHANGED waited
     \/ /\ t \notin CannotBlock
        /\ waited' = [waited EXCEPT ![t] = 1]
        /\ Goto(t, IF generation = seen[t] THEN "gasleep" ELSE "gen")
        /\ UNCHANGED <<clock, canBlock, counts>>
  /\ UNCHANGED <<scanVars, seen, until, claimVars, generation, nextTid, inService,
                 starvedAt, state, tid, rtid, hostVars, historyVars>>

\* Mutant: without room, the wait is given no timeout.
WaitForever(t) ==
  /\ pc[t] = "gasleep"
  /\ until[t] = 1
  /\ clock[t] >= until[t]
  /\ Goto(t, "gen")
  /\ UNCHANGED <<generation, state, tid, localVars, rtid, spawnVars, hostVars,
                 historyVars>>

WaitTimedOut(t) ==
  /\ pc[t] = "gasleep"
  /\ clock[t] >= until[t]
  /\ Goto(t, "gen")
  /\ UNCHANGED <<generation, state, tid, localVars, rtid, spawnVars, hostVars,
                 historyVars>>

-----------------------------------------------------------------------------
(* growOne and the rest of the spawn closure.                              *)

reserve(t) ==
  /\ pc[t] = "reserve"
  /\ IF hasRoom
     THEN /\ inService' = inService + 1
          /\ slot' = [slot EXCEPT ![t] = inService]
          /\ Goto(t, "mark")
     ELSE /\ Goto(t, "gen")
          /\ UNCHANGED <<inService, slot>>
  /\ UNCHANGED <<scanVars, waitVars, myTid, generation, nextTid, counts, starvedAt,
                 canBlock, state, tid, rtid, hostVars, historyVars>>

\* Mutant: the reserved slot is opened instead of claimed.
MarkOpened(t) ==
  /\ pc[t] = "mark"
  /\ state' = [state EXCEPT ![slot[t]] = IDLE]
  /\ Goto(t, "grow")
  /\ UNCHANGED <<generation, tid, localVars, rtid, spawnVars, hostVars,
                 historyVars>>

MarkReserved(t) ==
  /\ pc[t] = "mark"
  /\ state' = [state EXCEPT ![slot[t]] = CLAIMED]
  /\ Goto(t, "grow")
  /\ UNCHANGED <<generation, tid, localVars, rtid, spawnVars, hostVars,
                 historyVars>>

\* grow(slot): the worker starts, or its creation throws and the slot is
\* retired.  Only a worker the owner started has an exit handler.
grow(t) ==
  /\ pc[t] = "grow"
  /\ LET s == slot[t] IN
     \/ /\ pc' = [pc EXCEPT ![t] = "tid", ![s] = "boot"]
        /\ watched' = IF t = Owner THEN watched \cup {s} ELSE watched
        /\ UNCHANGED state
     \/ /\ StoreAndNotify(t, s, RETIRED, "bumpHome")
        /\ UNCHANGED watched
  /\ UNCHANGED <<generation, tid, localVars, rtid, mail, exits, disabled,
                 terminated, spawnVars, historyVars>>

TakeTid(t) ==
  /\ pc[t] = "tid"
  /\ nextTid' = nextTid + 1
  /\ myTid' = [myTid EXCEPT ![t] = nextTid]
  /\ Goto(t, IF nextTid > MaxTid THEN "undo" ELSE "put")
  /\ UNCHANGED <<scanVars, waitVars, slot, generation, inService, counts, starvedAt,
                 canBlock, state, tid, rtid, hostVars, historyVars>>

\* tid-exhausted: the slot goes back.
UndoClaim(t) ==
  /\ pc[t] = "undo"
  /\ state' = [state EXCEPT ![slot[t]] = IDLE]
  /\ Goto(t, "bumpHome")
  /\ UNCHANGED <<generation, tid, localVars, rtid, spawnVars, hostVars,
                 historyVars>>

PutTid(t) ==
  /\ pc[t] = "put"
  /\ tid' = [tid EXCEPT ![slot[t]] = myTid[t]]
  /\ Goto(t, "assign")
  /\ UNCHANGED <<generation, state, localVars, rtid, spawnVars, hostVars,
                 historyVars>>

Assign(t) ==
  /\ pc[t] = "assign"
  /\ state' = [state EXCEPT ![slot[t]] = ASSIGNED]
  /\ Goto(t, "notify")
  /\ UNCHANGED <<generation, tid, localVars, rtid, spawnVars, hostVars,
                 historyVars>>

\* releaseWasiThreadPoolSlotIfRunning: TRUE when the slot still runs k.
stillRuns(s, k) == state[s] \in {ASSIGNED, RUNNING} /\ tid[s] = k

\* Mutant: the worker is not woken.
AssignSilently(t) ==
  /\ pc[t] = "notify"
  /\ Goto(t, "count")
  /\ UNCHANGED <<generation, state, tid, localVars, rtid, spawnVars, hostVars,
                 historyVars>>

\* Notify the worker, or post it the message; a failed post frees the slot.
NotifyAssigned(t) ==
  /\ pc[t] = "notify"
  /\ LET s == slot[t]
         k == myTid[t]
     IN
     \/ /\ s \notin MessageSlots
        /\ pc' = NotifySlot([pc EXCEPT ![t] = "count"], s)
        /\ UNCHANGED <<state, mail>>
     \/ /\ s \in MessageSlots
        /\ mail' = [mail EXCEPT ![s] = k]
        /\ Goto(t, "count")
        /\ UNCHANGED state
     \/ /\ s \in MessageSlots
        /\ IF stillRuns(s, k)
           THEN state' = [state EXCEPT ![s] = IDLE] /\ Goto(t, "bumpHome")
           ELSE Goto(t, Home(t)) /\ UNCHANGED state
        /\ UNCHANGED mail
  /\ UNCHANGED <<generation, tid, localVars, rtid, exits, watched, disabled,
                 terminated, spawnVars, historyVars>>

CountSpawned(t) ==
  /\ pc[t] = "count"
  /\ counts' = [counts EXCEPT !.spawned = @ + 1,
                              !.waited = @ + waited[t]]
  /\ returned' = returned \cup {myTid[t]}
  /\ Goto(t, Home(t))
  /\ UNCHANGED <<generation, nextTid, inService, starvedAt, canBlock, state, tid,
                 localVars, rtid, hostVars, calls, runs>>

-----------------------------------------------------------------------------
(* The worker of a slot: serveWasiThreadPoolSlot.                          *)

Boot(s) ==
  /\ pc[s] = "boot"
  /\ \/ Goto(s, "loop") /\ UNCHANGED state
     \/ Growable /\ StoreAndNotify(s, s, RETIRED, "bumpDead")
  /\ UNCHANGED <<generation, tid, localVars, rtid, spawnVars, hostVars,
                 historyVars>>

ServeLoad(s) ==
  /\ pc[s] = "loop"
  /\ s \notin MessageSlots
  /\ seen' = [seen EXCEPT ![s] = state[s]]
  /\ Goto(s, CASE state[s] = RETIRED  -> "dead"
               [] state[s] = ASSIGNED -> "take"
               [] OTHER               -> "wait")
  /\ UNCHANGED <<scanVars, until, clock, waited, claimVars, generation, state, tid,
                 rtid, spawnVars, hostVars, historyVars>>

ServeWait(s) ==
  /\ pc[s] = "wait"
  /\ Goto(s, IF state[s] = seen[s] THEN "asleep" ELSE "loop")
  /\ UNCHANGED <<generation, state, tid, localVars, rtid, spawnVars, hostVars,
                 historyVars>>

StartRun(s, k) ==
  /\ rtid' = [rtid EXCEPT ![s] = k]
  /\ runs' = [runs EXCEPT ![k] = @ + 1]

\* Mutant: the assignment is read but not taken.
peekAssignment(s) ==
  /\ pc[s] = "take"
  /\ StartRun(s, tid[s])
  /\ Goto(s, "running")
  /\ UNCHANGED <<generation, state, tid, localVars, spawnVars, hostVars, calls,
                 returned>>

takeAssignment(s) ==
  /\ pc[s] = "take"
  /\ IF state[s] = ASSIGNED
     THEN /\ state' = [state EXCEPT ![s] = RUNNING]
          /\ StartRun(s, tid[s])
          /\ Goto(s, "running")
     ELSE /\ Goto(s, "loop")
          /\ UNCHANGED <<state, rtid, runs>>
  /\ UNCHANGED <<generation, tid, localVars, spawnVars, hostVars, calls, returned>>

\* The guest thread returns: a slot retired while its thread ran stays retired.
finishRun(s) ==
  /\ pc[s] = "running"
  /\ s \notin MessageSlots
  /\ IF state[s] = RUNNING
     THEN state' = [state EXCEPT ![s] = IDLE] /\ Goto(s, "bumpLoop")
     ELSE Goto(s, "loop") /\ UNCHANGED state
  /\ UNCHANGED <<generation, tid, localVars, rtid, spawnVars, hostVars,
                 historyVars>>

\* The guest thread traps: runThread returns false and the slot is retired.
TrapRun(s) ==
  /\ pc[s] = "running"
  /\ s \notin MessageSlots
  /\ StoreAndNotify(s, s, RETIRED, "bumpDead")
  /\ UNCHANGED <<generation, tid, localVars, rtid, spawnVars, hostVars,
                 historyVars>>

\* A worker script from before the pool protocol: {t:"run"} and {t:"exit"}.
MessageRun(s) ==
  /\ pc[s] = "loop"
  /\ s \in MessageSlots
  /\ mail[s] # 0
  /\ mail' = [mail EXCEPT ![s] = 0]
  /\ StartRun(s, mail[s])
  /\ Goto(s, "running")
  /\ UNCHANGED <<generation, state, tid, localVars, spawnVars, exits, watched,
                 disabled, terminated, calls, returned>>

MessageExit(s) ==
  /\ pc[s] = "running"
  /\ s \in MessageSlots
  /\ exits' = exits \cup {<<s, rtid[s]>>}
  /\ Goto(s, "loop")
  /\ UNCHANGED <<generation, state, tid, localVars, rtid, spawnVars, mail, watched,
                 disabled, terminated, historyVars>>

\* The worker is lost (out of memory, an error outside the guest).
Die(s) ==
  /\ s \in MortalSlots
  /\ pc[s] \notin {"none", "dead"}
  /\ Goto(s, "dead")
  /\ UNCHANGED <<generation, state, tid, localVars, rtid, spawnVars, hostVars,
                 historyVars>>

-----------------------------------------------------------------------------
(* The owner's event loop: wasiThreadHost.js.                              *)

\* Browser, after armBrowserPool: a worker that answered the probe is kept,
\* the others are retired and terminated.
ArmSlot(s) ==
  /\ pc[Owner] = "arming"
  /\ state[s] = PENDING
  /\ \/ /\ pc[s] \notin {"boot", "dead"}
        /\ StoreAndNotify(Owner, s, IDLE, "bumpArm")
     \/ /\ state' = [state EXCEPT ![s] = RETIRED]
        /\ pc' = [pc EXCEPT ![s] = "dead", ![Owner] = "bumpArm"]
  /\ UNCHANGED <<generation, tid, localVars, rtid, spawnVars, hostVars,
                 historyVars>>

ArmDone ==
  /\ pc[Owner] = "arming"
  /\ \A s \in Slots : state[s] # PENDING
  /\ disabled' = \A s \in Slots : state[s] = RETIRED
  /\ Goto(Owner, "idle")
  /\ UNCHANGED <<generation, state, tid, localVars, rtid, spawnVars, mail, exits,
                 watched, terminated, historyVars>>

\* returnWorkerToIdle: {t:"exit"} of a message-dispatch worker.
returnWorkerToIdle(s, k) ==
  /\ pc[Owner] = "idle"
  /\ <<s, k>> \in exits
  /\ exits' = exits \ {<<s, k>>}
  /\ IF stillRuns(s, k)
     THEN state' = [state EXCEPT ![s] = IDLE] /\ Goto(Owner, "bumpHome")
     ELSE UNCHANGED <<state, pc>>
  /\ UNCHANGED <<generation, tid, localVars, rtid, spawnVars, mail, watched,
                 disabled, terminated, historyVars>>

\* The exit event of a Node worker, the error event of a browser one.
retireWorker(s) ==
  /\ pc[Owner] = "idle"
  /\ s \in watched
  /\ pc[s] = "dead"
  /\ watched' = watched \ {s}
  /\ IF state[s] # RETIRED
     THEN state' = [state EXCEPT ![s] = RETIRED] /\ Goto(Owner, "bumpHome")
     ELSE UNCHANGED <<state, pc>>
  /\ UNCHANGED <<generation, tid, localVars, rtid, spawnVars, mail, exits, disabled,
                 terminated, historyVars>>

\* terminateAll: retire the slots in service one by one, then stop the workers.
terminateAll ==
  /\ MayTerminate
  /\ ~terminated
  /\ pc[Owner] = "idle"
  /\ terminated' = TRUE
  /\ disabled' = ~Growable
  /\ at' = [at EXCEPT ![Owner] = 0]
  /\ upto' = [upto EXCEPT ![Owner] = inService]
  /\ Goto(Owner, "term")
  /\ UNCHANGED <<live, waitVars, claimVars, generation, state, tid, rtid, spawnVars,
                 mail, exits, watched, historyVars>>

TerminateSlot ==
  /\ pc[Owner] = "term"
  /\ at[Owner] < upto[Owner]
  /\ at' = [at EXCEPT ![Owner] = @ + 1]
  /\ StoreAndNotify(Owner, at[Owner], RETIRED, "bumpTerm")
  /\ UNCHANGED <<upto, live, waitVars, claimVars, generation, tid, rtid, spawnVars,
                 hostVars, historyVars>>

TerminateWorkers ==
  /\ pc[Owner] = "term"
  /\ at[Owner] >= upto[Owner]
  /\ pc' = [t \in Threads |-> IF t = Owner THEN "idle"
                              ELSE IF pc[t] = "none" THEN "none" ELSE "dead"]
  /\ UNCHANGED <<generation, state, tid, localVars, rtid, spawnVars, hostVars,
                 historyVars>>

-----------------------------------------------------------------------------
\* createWasiThreadPool, and for the browser openWasiThreadPoolSlots with a
\* worker already started for every slot.
Init ==
  /\ generation = 0
  /\ nextTid = 1
  /\ inService = IF Growable THEN 0 ELSE Capacity
  /\ counts = [spawned |-> 0, waited |-> 0, declined |-> 0]
  /\ state = [s \in Slots |-> PENDING]
  /\ tid = [s \in Slots |-> 0]
  /\ pc = [t \in Threads |-> IF t = Owner
                             THEN IF Growable THEN "idle" ELSE "arming"
                             ELSE IF Growable THEN "none" ELSE "boot"]
  /\ at = [t \in Threads |-> 0]
  /\ upto = [t \in Threads |-> 0]
  /\ live = [t \in Threads |-> 0]
  /\ seen = [t \in Threads |-> 0]
  /\ until = [t \in Threads |-> 1]
  /\ clock = [t \in Threads |-> NotStarted]
  /\ waited = [t \in Threads |-> 0]
  /\ slot = [t \in Threads |-> NoSlot]
  /\ myTid = [t \in Threads |-> 0]
  /\ starvedAt = [t \in Threads |-> -1]
  /\ canBlock = [t \in Threads |-> TRUE]
  /\ rtid = [s \in Slots |-> 0]
  /\ mail = [s \in Slots |-> 0]
  /\ exits = {}
  /\ watched = IF Growable THEN {} ELSE Slots
  /\ disabled = ~Growable
  /\ terminated = FALSE
  /\ calls = 0
  /\ returned = {}
  /\ runs = [k \in 1 .. MaxTid |-> 0]

Claiming(t) ==
  \/ ScanBegin(t) \/ ScanCas(t) \/ ScanLive(t) \/ ScanEnd(t) \/ LoadGeneration(t)
  \/ Decide(t) \/ WaitGeneration(t) \/ WaitTimedOut(t)

Assigning(t) ==
  \/ reserve(t) \/ MarkReserved(t) \/ grow(t) \/ TakeTid(t) \/ UndoClaim(t)
  \/ PutTid(t) \/ Assign(t) \/ NotifyAssigned(t) \/ CountSpawned(t)

Serving(s) ==
  \/ Boot(s) \/ ServeLoad(s) \/ ServeWait(s) \/ takeAssignment(s) \/ MessageRun(s)

EventLoop ==
  \/ \E s \in Slots : ArmSlot(s) \/ retireWorker(s)
  \/ \E m \in exits : returnWorkerToIdle(m[1], m[2])
  \/ ArmDone \/ terminateAll \/ TerminateSlot \/ TerminateWorkers

Next ==
  \/ \E t \in Threads : Spawn(t) \/ Tick(t) \/ Claiming(t) \/ Assigning(t)
                        \/ bumpGeneration(t)
  \/ \E s \in Slots : Serving(s) \/ finishRun(s) \/ TrapRun(s) \/ MessageExit(s)
                      \/ Die(s)
  \/ EventLoop

Spec == Init /\ [][Next]_vars

\* Threads run and clocks advance.  Nothing forces a guest thread to return,
\* a worker to die or the host to terminate the pool.
FairSpec ==
  /\ Spec
  /\ \A t \in Threads : WF_vars(Tick(t)) /\ WF_vars(bumpGeneration(t))
                        /\ WF_vars(Claiming(t) \/ Assigning(t))
  /\ \A s \in Slots : WF_vars(Serving(s))
-----------------------------------------------------------------------------
(* Properties.                                                             *)

Labels == {"idle", "arming", "term", "none", "boot", "loop", "wait", "asleep", "take",
           "running", "dead", "scan", "cas", "live", "gen", "decide", "gwait",
           "gasleep", "reserve", "mark", "grow", "tid", "undo", "put", "assign",
           "notify", "count"} \cup BumpLabels

CoreTypeOK ==
  /\ inService \in 0 .. Capacity
  /\ state \in [Slots -> SlotStates]
  /\ pc \in [Threads -> Labels]
  /\ at \in [Threads -> Nat]
  /\ upto \in [Threads -> 0 .. Capacity]
  /\ slot \in [Threads -> NoSlot .. Capacity - 1]
  /\ myTid \in [Threads -> Nat]

WordTypeOK ==
  /\ generation \in Nat
  /\ nextTid \in Nat \ {0}
  /\ counts \in [spawned : Nat, waited : Nat, declined : Nat]
  /\ tid \in [Slots -> 0 .. MaxTid]
  /\ rtid \in [Slots -> 0 .. MaxTid]
  /\ mail \in [Slots -> 0 .. MaxTid]

LocalTypeOK ==
  /\ live \in [Threads -> Nat]
  /\ seen \in [Threads -> Nat]
  /\ until \in [Threads -> 1 .. 2]
  /\ clock \in [Threads -> NotStarted .. 2]
  /\ waited \in [Threads -> 0 .. 1]
  /\ starvedAt \in [Threads -> Int]
  /\ canBlock \in [Threads -> BOOLEAN]

HostTypeOK ==
  /\ exits \subseteq Slots \X (0 .. MaxTid)
  /\ watched \subseteq Slots
  /\ disabled \in BOOLEAN
  /\ terminated \in BOOLEAN
  /\ calls \in Nat
  /\ returned \subseteq 1 .. MaxTid
  /\ runs \in [1 .. MaxTid -> Nat]

\* Every word of the pool and every local keeps its type; the slots in
\* service never exceed the capacity (H_SLOTS against H_CAPACITY).
TypeOK == CoreTypeOK /\ WordTypeOK /\ LocalTypeOK /\ HostTypeOK

\* A spawner holds its slot from the claim until it publishes the assignment.
Holding == {"grow", "tid", "undo", "put", "assign"}

\* The slot a spawner holds is its own: no other spawner holds it, and no
\* step but a retirement has moved it off CLAIMED, so the thread id and the
\* argument it writes cannot reach a thread somebody else assigned.
ClaimIsExclusive ==
  \A t \in Threads : pc[t] \in Holding =>
    /\ state[slot[t]] \in {CLAIMED, RETIRED}
    /\ \A u \in Threads \ {t} : pc[u] \in Holding => slot[u] # slot[t]

\* wasi_thread_start is called at most once for a thread id: a re-used slot,
\* a retried dispatch or a late exit message never runs a thread again.
ThreadRunsOnce == \A k \in 1 .. MaxTid : runs[k] <= 1

\* A thread id returned to the guest is never forgotten: the thread ran, or
\* a slot (or the message to its worker) still carries it.
SpawnedThreadIsKept ==
  \A k \in returned : runs[k] = 1 \/ \E s \in Slots : tid[s] = k

\* "RETIRED is final": no step takes a slot out of RETIRED.
RetiredIsFinal == [][\A s \in Slots : state[s] = RETIRED => state'[s] = RETIRED]_vars

\* thread-spawn returns: the guest gets a thread id or an error.
SpawnReturns == \A t \in Threads : pc[t] = "scan" ~> (pc[t] = Home(t) \/ pc[t] = "dead")

\* An assigned thread runs, unless its slot is retired under it, its message
\* could not be posted (both leave ASSIGNED without a run) or the worker is gone.
AssignedRuns ==
  \A s \in Slots : \A k \in 1 .. MaxTid :
    (state[s] = ASSIGNED /\ tid[s] = k)
      ~> (runs[k] = 1 \/ state[s] # ASSIGNED \/ pc[s] = "dead")
=============================================================================

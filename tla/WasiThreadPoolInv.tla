-------------------------- MODULE WasiThreadPoolInv --------------------------
(***************************************************************************)
(* The inductive invariant of WasiThreadPool, and that a spawning thread's *)
(* steps keep it: for every capacity, every mix of message slots and       *)
(* blocking threads, every MAX_TID and any number of calls.                *)
(***************************************************************************)
EXTENDS WasiThreadPool, TLAPS

\* A spawner owns its slot from the reservation on.
Owning == Holding \cup {"mark"}

OwnerLabels == {"arming", "bumpArm", "term", "bumpTerm"}

Assigned == {"put", "assign", "notify", "count"}

\* Slots not in service are untouched, and a scan never leaves the slots in
\* service.
ServiceInv ==
  /\ \A s \in Slots : s >= inService => state[s] = PENDING /\ pc[s] = "none"
  /\ \A t \in Threads : upto[t] <= inService

\* Only a growing pool reserves, only a fixed one arms.
PhaseInv ==
  /\ \A t \in Threads : pc[t] \in {"reserve", "mark", "grow"} => Growable
  /\ pc[Owner] \in {"arming", "bumpArm"} => ~Growable
  /\ ~Growable => inService = Capacity
  /\ \A s \in Slots : pc[s] \notin OwnerLabels

\* What a spawner may assume of the slot it owns.
OwnInv ==
  \A t \in Threads : pc[t] \in Owning =>
    /\ slot[t] \in Slots
    /\ slot[t] < inService
    /\ pc[t] = "mark" => state[slot[t]] \in {PENDING, RETIRED}
    /\ pc[t] # "mark" => state[slot[t]] \in {CLAIMED, RETIRED}

\* No two spawners own the same slot.
ExclusiveInv ==
  \A t, u \in Threads : t # u /\ pc[t] \in Owning /\ pc[u] \in Owning
                         => slot[t] # slot[u]

\* A spawner past the thread id test has a legal id and keeps its slot number.
TidInv ==
  \A t \in Threads : pc[t] \in Assigned =>
    myTid[t] \in 1 .. MaxTid /\ slot[t] \in Slots

IInv == TypeOK /\ ServiceInv /\ PhaseInv /\ OwnInv /\ ExclusiveInv /\ TidInv

\* Most steps are quiet: no thread enters a phase the invariant speaks of, ...
QuietPc ==
  /\ \A u \in Threads : pc'[u] \in Owning =>
       pc[u] \in Owning /\ (pc'[u] = "mark" <=> pc[u] = "mark")
  /\ \A u \in Threads : pc'[u] \in Assigned => pc[u] \in Assigned
  /\ \A u \in Threads : pc'[u] \in {"reserve", "mark", "grow"} => pc'[u] = pc[u]
  /\ \A s \in Slots : pc[s] = "none" => pc'[s] = "none"
  /\ \A s \in Slots : pc'[s] \in OwnerLabels => pc[s] \in OwnerLabels
  /\ pc'[Owner] \in {"arming", "bumpArm"} => pc[Owner] \in {"arming", "bumpArm"}

\* ... and a slot that is reserved, claimed or retired stays so or is retired.
QuietState ==
  /\ \A s \in Slots : state[s] \in {PENDING, CLAIMED, RETIRED} =>
                        state'[s] \in {state[s], RETIRED}
  /\ \A s \in Slots : s >= inService => state'[s] = state[s]

QuietLocals ==
  /\ inService' = inService
  /\ \A u \in Threads : upto'[u] <= inService
  /\ \A u \in Threads : pc'[u] \in Owning \cup Assigned =>
                          slot'[u] = slot[u] /\ myTid'[u] = myTid[u]

\* A slot number names the worker thread of the slot, never the owner.
LEMMA SlotIsThread == \A s \in Slots : s \in Threads /\ s \in Nat /\ s # Owner
BY PoolAssumption DEF Slots, Threads, Owner

\* The owner spawns too.
LEMMA OwnerIsThread == Owner \in Threads
BY DEF Threads

\* The slot states are distinct numbers.
LEMMA StateFacts ==
  /\ {PENDING, IDLE, CLAIMED, ASSIGNED, RUNNING, RETIRED} \subseteq SlotStates
  /\ SlotStates \subseteq Nat
  /\ PENDING \notin {IDLE, CLAIMED, ASSIGNED, RUNNING, RETIRED}
  /\ IDLE \notin {CLAIMED, ASSIGNED, RUNNING, RETIRED}
  /\ CLAIMED \notin {ASSIGNED, RUNNING, RETIRED}
  /\ RETIRED \notin {ASSIGNED, RUNNING}
BY DEF SlotStates, PENDING, IDLE, CLAIMED, ASSIGNED, RUNNING, RETIRED

\* Counting a spawn keeps the counters natural numbers.
LEMMA CountsUpdate ==
  ASSUME NEW c \in [spawned : Nat, waited : Nat, declined : Nat],
         NEW a \in Nat, NEW b \in Nat
  PROVE  [c EXCEPT !.spawned = a, !.waited = b]
           \in [spawned : Nat, waited : Nat, declined : Nat]
BY Zenon

\* The fresh pool satisfies the invariant.
LEMMA InitInv == Init => IInv
<1> SUFFICES ASSUME Init PROVE IInv
  OBVIOUS
<1>1. CoreTypeOK
  BY PoolAssumption, StateFacts DEF Init, CoreTypeOK, Labels, NoSlot, Slots
<1>2. WordTypeOK /\ LocalTypeOK
  BY PoolAssumption DEF Init, WordTypeOK, LocalTypeOK, NotStarted
<1>3. HostTypeOK
  BY PoolAssumption, Zenon DEF Init, HostTypeOK
<1>4. ServiceInv /\ PhaseInv
  BY PoolAssumption DEF Init, ServiceInv, PhaseInv, OwnerLabels, Slots, Threads, Owner
<1>5. OwnInv /\ ExclusiveInv /\ TidInv
  BY DEF Init, OwnInv, ExclusiveInv, TidInv, Owning, Holding, Assigned
<1> QED
  BY <1>1, <1>2, <1>3, <1>4, <1>5 DEF IInv, TypeOK

\* Quiet steps keep the invariant.
LEMMA QuietInv ==
  ASSUME IInv, TypeOK', QuietPc, QuietState, QuietLocals
  PROVE  IInv'
<1>1. ServiceInv'
  BY DEF IInv, TypeOK, CoreTypeOK, ServiceInv, QuietPc, QuietState, QuietLocals
<1>2. PhaseInv'
  BY DEF IInv, PhaseInv, QuietPc, QuietLocals
<1>3. OwnInv'
  BY DEF IInv, OwnInv, QuietPc, QuietState, QuietLocals
<1>4. ExclusiveInv'
  BY DEF IInv, ExclusiveInv, QuietPc, QuietLocals
<1>5. TidInv'
  BY DEF IInv, TidInv, QuietPc, QuietLocals
<1> QED
  BY <1>1, <1>2, <1>3, <1>4, <1>5 DEF IInv

\* A new generation only wakes spawners back into their scan.
LEMMA BumpGenerationStep ==
  ASSUME IInv, NEW t \in Threads, bumpGeneration(t)
  PROVE  IInv'
<1>0. CoreTypeOK /\ WordTypeOK /\ LocalTypeOK /\ HostTypeOK
  BY Zenon DEF IInv, TypeOK
<1>1. CoreTypeOK'
  BY <1>0, StateFacts, OwnerIsThread, SlotIsThread
  DEF bumpGeneration, AfterBump, NotifyGeneration, Home, spawnVars, localVars,
      scanVars, claimVars, CoreTypeOK, Labels, BumpLabels, NoSlot
<1>2. WordTypeOK'
  BY <1>0, PoolAssumption
  DEF bumpGeneration, AfterBump, NotifyGeneration, Home, spawnVars, hostVars,
      WordTypeOK, IInv, TidInv, Assigned
<1>3. LocalTypeOK'
  BY <1>0, StateFacts, SlotIsThread
  DEF bumpGeneration, AfterBump, NotifyGeneration, Home, spawnVars, localVars,
      scanVars, waitVars, CoreTypeOK, WordTypeOK, LocalTypeOK, NotStarted
<1>4. HostTypeOK'
  BY <1>0
  DEF bumpGeneration, AfterBump, NotifyGeneration, Home, hostVars, historyVars,
      HostTypeOK, WordTypeOK, IInv, TidInv, Assigned
<1>5. QuietPc /\ QuietState /\ QuietLocals
  BY <1>0, SlotIsThread, OwnerIsThread, StateFacts
  DEF bumpGeneration, AfterBump, NotifyGeneration, Home, spawnVars, localVars,
      scanVars, claimVars, QuietPc, QuietState, QuietLocals, CoreTypeOK, Owning,
      Holding, Assigned, OwnerLabels, BumpLabels, IInv, PhaseInv, ServiceInv
<1> QED
  BY <1>1, <1>2, <1>3, <1>4, <1>5, QuietInv, Zenon DEF TypeOK

\* A spawn call starts with fresh locals and owns nothing.
LEMMA SpawnStep ==
  ASSUME IInv, NEW t \in Threads, Spawn(t)
  PROVE  IInv'
<1>0. CoreTypeOK /\ WordTypeOK /\ LocalTypeOK /\ HostTypeOK
  BY Zenon DEF IInv, TypeOK
<1>1. CoreTypeOK'
  BY <1>0, PoolAssumption
  DEF Spawn, Goto, Home, spawnVars, localVars, scanVars, claimVars, CoreTypeOK, Labels,
      NoSlot
<1>2. WordTypeOK'
  BY <1>0, PoolAssumption
  DEF Spawn, Goto, Home, spawnVars, hostVars, WordTypeOK, IInv, TidInv, Assigned
<1>3. LocalTypeOK'
  BY <1>0, StateFacts, SlotIsThread
  DEF Spawn, Goto, Home, spawnVars, localVars, scanVars, waitVars, CoreTypeOK,
      WordTypeOK, LocalTypeOK, NotStarted
<1>4. HostTypeOK'
  BY <1>0
  DEF Spawn, Goto, Home, hostVars, historyVars, HostTypeOK, WordTypeOK, IInv, TidInv,
      Assigned
<1>5. QuietPc /\ QuietState /\ QuietLocals
  BY <1>0, SlotIsThread, OwnerIsThread, StateFacts
  DEF Spawn, Goto, Home, spawnVars, localVars, scanVars, claimVars, QuietPc,
      QuietState, QuietLocals, CoreTypeOK, Owning, Holding, Assigned, OwnerLabels,
      BumpLabels, IInv, PhaseInv, ServiceInv
<1> QED
  BY <1>1, <1>2, <1>3, <1>4, <1>5, QuietInv, Zenon DEF TypeOK

\* A scan covers at most the slots in service.
LEMMA ScanBeginStep ==
  ASSUME IInv, NEW t \in Threads, ScanBegin(t)
  PROVE  IInv'
<1>0. CoreTypeOK /\ WordTypeOK /\ LocalTypeOK /\ HostTypeOK
  BY Zenon DEF IInv, TypeOK
<1>1. CoreTypeOK'
  BY <1>0, StateFacts, OwnerIsThread, SlotIsThread
  DEF ScanBegin, Goto, spawnVars, localVars, scanVars, claimVars, CoreTypeOK, Labels,
      BumpLabels, NoSlot
<1>2. WordTypeOK' /\ LocalTypeOK' /\ HostTypeOK'
  BY <1>0, PoolAssumption, StateFacts, SlotIsThread, Zenon
  DEF ScanBegin, Goto, spawnVars, hostVars, localVars, scanVars, waitVars, historyVars,
      CoreTypeOK, WordTypeOK, LocalTypeOK, HostTypeOK, NotStarted
<1>5. QuietPc /\ QuietState /\ QuietLocals
  BY <1>0, SlotIsThread, OwnerIsThread, StateFacts
  DEF ScanBegin, Goto, spawnVars, localVars, scanVars, claimVars, QuietPc, QuietState,
      QuietLocals, CoreTypeOK, Owning, Holding, Assigned, OwnerLabels, BumpLabels,
      IInv, PhaseInv, ServiceInv
<1> QED
  BY <1>1, <1>2, <1>5, QuietInv, Zenon DEF TypeOK

\* The compare-exchange claims a slot nobody owns: it was IDLE.
LEMMA ScanCasStep ==
  ASSUME IInv, NEW t \in Threads, ScanCas(t)
  PROVE  IInv'
<1>0. CoreTypeOK /\ WordTypeOK /\ LocalTypeOK /\ HostTypeOK
  BY Zenon DEF IInv, TypeOK
<1>00. ServiceInv /\ PhaseInv /\ OwnInv /\ ExclusiveInv /\ TidInv
  BY Zenon DEF IInv
<1>1. CoreTypeOK'
  <2>1. at[t] \in Slots /\ at[t] \in NoSlot .. Capacity - 1
    BY <1>0, PoolAssumption DEF ScanCas, CoreTypeOK, Slots, NoSlot
  <2>2. inService' = inService /\ upto' = upto /\ myTid' = myTid
    BY DEF ScanCas, spawnVars
  <2>3. state' \in [Slots -> SlotStates] /\ pc' \in [Threads -> Labels]
    BY <1>0, StateFacts DEF ScanCas, Goto, CoreTypeOK, Labels
  <2>4. at' \in [Threads -> Nat]
    BY <1>0 DEF ScanCas, CoreTypeOK
  <2>5. slot' \in [Threads -> NoSlot .. Capacity - 1]
    BY <1>0, <2>1 DEF ScanCas, CoreTypeOK
  <2> QED
    BY <1>0, <2>2, <2>3, <2>4, <2>5 DEF CoreTypeOK
<1>2. WordTypeOK'
  BY <1>0, PoolAssumption DEF ScanCas, slotIsFree, Goto, spawnVars, hostVars, WordTypeOK
<1>3. LocalTypeOK'
  BY <1>0, StateFacts, SlotIsThread
  DEF ScanCas, slotIsFree, Goto, spawnVars, localVars, scanVars, waitVars, CoreTypeOK,
      LocalTypeOK, NotStarted
<1>4. HostTypeOK'
  BY <1>0 DEF ScanCas, slotIsFree, Goto, hostVars, historyVars, HostTypeOK
<1>5. ServiceInv'
  BY <1>0, <1>00, SlotIsThread, OwnerIsThread
  DEF ScanCas, slotIsFree, Goto, spawnVars, localVars, scanVars, CoreTypeOK,
      ServiceInv, OwnInv, Owning, Holding
<1>6. PhaseInv'
  BY <1>0, <1>00, SlotIsThread, OwnerIsThread
  DEF ScanCas, slotIsFree, Goto, spawnVars, CoreTypeOK, PhaseInv, OwnerLabels
<1>7. OwnInv'
  <2>1. at[t] \in Slots /\ at[t] < inService
    BY <1>0, <1>00, PoolAssumption DEF ScanCas, CoreTypeOK, ServiceInv, Slots
  <2>2. CASE state' = state /\ slot' = slot /\ pc' \in {pc, [pc EXCEPT ![t] = "live"]}
    <3>1. \A u \in Threads : pc'[u] \in Owning => pc'[u] = pc[u]
      BY <1>0, <2>2 DEF CoreTypeOK, Owning, Holding
    <3> QED
      BY <1>00, <2>2, <3>1 DEF OwnInv, ScanCas, spawnVars
  <2>3. CASE /\ state[at[t]] = IDLE
             /\ state' = [state EXCEPT ![at[t]] = CLAIMED]
             /\ slot' = [slot EXCEPT ![t] = at[t]]
             /\ pc' = [pc EXCEPT ![t] = "tid"]
    BY <1>0, <1>00, <2>1, <2>3, StateFacts
    DEF CoreTypeOK, OwnInv, Owning, Holding, ScanCas, spawnVars
  <2> QED
    BY <2>2, <2>3 DEF ScanCas, slotIsFree, Goto
<1>8. ExclusiveInv'
  BY <1>0, <1>00, SlotIsThread, OwnerIsThread, StateFacts
  DEF ScanCas, slotIsFree, Goto, localVars, claimVars, CoreTypeOK, OwnInv,
      ExclusiveInv, Owning, Holding
<1>9. TidInv'
  BY <1>0, <1>00, OwnerIsThread
  DEF ScanCas, slotIsFree, Goto, localVars, claimVars, CoreTypeOK, WordTypeOK, TidInv,
      Assigned, OwnInv, Owning, Holding
<1> QED
  BY <1>1, <1>2, <1>3, <1>4, <1>5, <1>6, <1>7, <1>8, <1>9, Zenon DEF IInv, TypeOK

\* Counting a live slot owns nothing.
LEMMA ScanLiveStep ==
  ASSUME IInv, NEW t \in Threads, ScanLive(t)
  PROVE  IInv'
<1>0. CoreTypeOK /\ WordTypeOK /\ LocalTypeOK /\ HostTypeOK
  BY Zenon DEF IInv, TypeOK
<1>1. CoreTypeOK'
  BY <1>0, StateFacts, OwnerIsThread, SlotIsThread
  DEF ScanLive, Goto, spawnVars, localVars, scanVars, claimVars, CoreTypeOK, Labels,
      BumpLabels, NoSlot
<1>2. WordTypeOK'
  BY <1>0, PoolAssumption
  DEF ScanLive, Goto, spawnVars, hostVars, WordTypeOK, IInv, TidInv, Assigned
<1>3. LocalTypeOK'
  BY <1>0, StateFacts, SlotIsThread
  DEF ScanLive, Goto, spawnVars, localVars, scanVars, waitVars, CoreTypeOK, WordTypeOK,
      LocalTypeOK, NotStarted
<1>4. HostTypeOK'
  BY <1>0
  DEF ScanLive, Goto, hostVars, historyVars, HostTypeOK, WordTypeOK, IInv, TidInv,
      Assigned
<1>5. QuietPc /\ QuietState /\ QuietLocals
  BY <1>0, SlotIsThread, OwnerIsThread, StateFacts
  DEF ScanLive, Goto, spawnVars, localVars, scanVars, claimVars, QuietPc, QuietState,
      QuietLocals, CoreTypeOK, Owning, Holding, Assigned, OwnerLabels, BumpLabels,
      IInv, PhaseInv, ServiceInv
<1> QED
  BY <1>1, <1>2, <1>3, <1>4, <1>5, QuietInv, Zenon DEF TypeOK

\* A scan that found nothing owns nothing.
LEMMA ScanEndStep ==
  ASSUME IInv, NEW t \in Threads, ScanEnd(t)
  PROVE  IInv'
<1>0. CoreTypeOK /\ WordTypeOK /\ LocalTypeOK /\ HostTypeOK
  BY Zenon DEF IInv, TypeOK
<1>1. CoreTypeOK'
  BY <1>0, StateFacts, OwnerIsThread, SlotIsThread
  DEF ScanEnd, Goto, spawnVars, localVars, scanVars, claimVars, CoreTypeOK, Labels,
      BumpLabels, NoSlot
<1>2. WordTypeOK'
  BY <1>0, PoolAssumption
  DEF ScanEnd, Goto, spawnVars, hostVars, WordTypeOK, IInv, TidInv, Assigned
<1>3. LocalTypeOK'
  BY <1>0, StateFacts, SlotIsThread
  DEF ScanEnd, Goto, spawnVars, localVars, scanVars, waitVars, CoreTypeOK, WordTypeOK,
      LocalTypeOK, NotStarted
<1>4. HostTypeOK'
  BY <1>0
  DEF ScanEnd, Goto, hostVars, historyVars, HostTypeOK, WordTypeOK, IInv, TidInv,
      Assigned
<1>5. QuietPc /\ QuietState /\ QuietLocals
  BY <1>0, SlotIsThread, OwnerIsThread, StateFacts
  DEF ScanEnd, Goto, spawnVars, localVars, scanVars, claimVars, QuietPc, QuietState,
      QuietLocals, CoreTypeOK, Owning, Holding, Assigned, OwnerLabels, BumpLabels,
      IInv, PhaseInv, ServiceInv
<1> QED
  BY <1>1, <1>2, <1>3, <1>4, <1>5, QuietInv, Zenon DEF TypeOK

\* Reading the generation owns nothing.
LEMMA LoadGenerationStep ==
  ASSUME IInv, NEW t \in Threads, LoadGeneration(t)
  PROVE  IInv'
<1>0. CoreTypeOK /\ WordTypeOK /\ LocalTypeOK /\ HostTypeOK
  BY Zenon DEF IInv, TypeOK
<1>1. CoreTypeOK'
  BY <1>0, StateFacts, OwnerIsThread, SlotIsThread
  DEF LoadGeneration, Goto, spawnVars, localVars, scanVars, claimVars, CoreTypeOK,
      Labels, BumpLabels, NoSlot
<1>2. WordTypeOK' /\ LocalTypeOK' /\ HostTypeOK'
  BY <1>0, PoolAssumption, StateFacts, SlotIsThread, Zenon
  DEF LoadGeneration, Goto, spawnVars, hostVars, localVars, scanVars, waitVars,
      historyVars, CoreTypeOK, WordTypeOK, LocalTypeOK, HostTypeOK, NotStarted
<1>5. QuietPc /\ QuietState /\ QuietLocals
  BY <1>0, SlotIsThread, OwnerIsThread, StateFacts
  DEF LoadGeneration, Goto, spawnVars, localVars, scanVars, claimVars, QuietPc,
      QuietState, QuietLocals, CoreTypeOK, Owning, Holding, Assigned, OwnerLabels,
      BumpLabels, IInv, PhaseInv, ServiceInv
<1> QED
  BY <1>1, <1>2, <1>5, QuietInv, Zenon DEF TypeOK

\* Time changes no slot.
LEMMA TickStep ==
  ASSUME IInv, NEW t \in Threads, Tick(t)
  PROVE  IInv'
<1>0. CoreTypeOK /\ WordTypeOK /\ LocalTypeOK /\ HostTypeOK
  BY Zenon DEF IInv, TypeOK
<1>1. CoreTypeOK'
  BY <1>0, StateFacts, OwnerIsThread, SlotIsThread
  DEF Tick, spawnVars, localVars, scanVars, claimVars, CoreTypeOK, Labels, BumpLabels,
      NoSlot
<1>2. WordTypeOK'
  BY <1>0, PoolAssumption
  DEF Tick, spawnVars, hostVars, WordTypeOK, IInv, TidInv, Assigned
<1>3. LocalTypeOK'
  BY <1>0, StateFacts, SlotIsThread
  DEF Tick, spawnVars, localVars, scanVars, waitVars, CoreTypeOK, WordTypeOK,
      LocalTypeOK, NotStarted
<1>4. HostTypeOK'
  BY <1>0
  DEF Tick, hostVars, historyVars, HostTypeOK, WordTypeOK, IInv, TidInv, Assigned
<1>5. QuietPc /\ QuietState /\ QuietLocals
  BY <1>0, SlotIsThread, OwnerIsThread, StateFacts
  DEF Tick, spawnVars, localVars, scanVars, claimVars, QuietPc, QuietState,
      QuietLocals, CoreTypeOK, Owning, Holding, Assigned, OwnerLabels, BumpLabels,
      IInv, PhaseInv, ServiceInv
<1> QED
  BY <1>1, <1>2, <1>3, <1>4, <1>5, QuietInv, Zenon DEF TypeOK

\* Only a spawner of a pool with room goes on to reserve.
LEMMA DecideStep ==
  ASSUME IInv, NEW t \in Threads, Decide(t)
  PROVE  IInv'
<1>0. CoreTypeOK /\ WordTypeOK /\ LocalTypeOK /\ HostTypeOK
  BY Zenon DEF IInv, TypeOK
<1>00. ServiceInv /\ PhaseInv /\ OwnInv /\ ExclusiveInv /\ TidInv
  BY Zenon DEF IInv
<1>1. CoreTypeOK'
  BY <1>0, StateFacts, OwnerIsThread, SlotIsThread
  DEF Decide, DeclineExhausted, hasRoom, Goto, Home, spawnVars, localVars, scanVars,
      claimVars, CoreTypeOK, Labels, BumpLabels, NoSlot
<1>2. WordTypeOK'
  BY <1>0, PoolAssumption
  DEF Decide, DeclineExhausted, hasRoom, Goto, Home, spawnVars, hostVars, WordTypeOK
<1>3. LocalTypeOK'
  <2>1. until' \in [Threads -> 1 .. 2]
    BY <1>0 DEF Decide, LocalTypeOK
  <2>2. starvedAt' \in [Threads -> Int]
    BY <1>0 DEF Decide, LocalTypeOK
  <2> QED
    BY <1>0, <2>1, <2>2 DEF Decide, LocalTypeOK, scanVars
<1>4. HostTypeOK'
  BY <1>0
  DEF Decide, DeclineExhausted, hasRoom, Goto, Home, hostVars, historyVars, HostTypeOK
<1>5. ServiceInv'
  BY <1>0, <1>00, SlotIsThread, OwnerIsThread
  DEF Decide, DeclineExhausted, hasRoom, Goto, Home, spawnVars, localVars, scanVars,
      CoreTypeOK, ServiceInv, OwnInv, Owning, Holding
<1>6. PhaseInv'
  BY <1>0, <1>00, SlotIsThread, OwnerIsThread
  DEF Decide, DeclineExhausted, hasRoom, Goto, Home, spawnVars, CoreTypeOK, PhaseInv,
      OwnerLabels
<1>7. OwnInv'
  BY <1>0, <1>00, SlotIsThread, OwnerIsThread, StateFacts
  DEF Decide, DeclineExhausted, hasRoom, Goto, Home, spawnVars, localVars, claimVars,
      CoreTypeOK, OwnInv, Owning, Holding, ExclusiveInv, PhaseInv
<1>8. ExclusiveInv'
  BY <1>0, <1>00, SlotIsThread, OwnerIsThread, StateFacts
  DEF Decide, DeclineExhausted, hasRoom, Goto, Home, localVars, claimVars, CoreTypeOK,
      OwnInv, ExclusiveInv, Owning, Holding
<1>9. TidInv'
  BY <1>0, <1>00, OwnerIsThread
  DEF Decide, DeclineExhausted, hasRoom, Goto, Home, localVars, claimVars, CoreTypeOK,
      WordTypeOK, TidInv, Assigned, OwnInv, Owning, Holding
<1> QED
  BY <1>1, <1>2, <1>3, <1>4, <1>5, <1>6, <1>7, <1>8, <1>9, Zenon DEF IInv, TypeOK

\* A spawner that waits owns nothing.
LEMMA WaitGenerationStep ==
  ASSUME IInv, NEW t \in Threads, WaitGeneration(t)
  PROVE  IInv'
<1>0. CoreTypeOK /\ WordTypeOK /\ LocalTypeOK /\ HostTypeOK
  BY Zenon DEF IInv, TypeOK
<1>1. CoreTypeOK'
  BY <1>0, StateFacts, OwnerIsThread, SlotIsThread
  DEF WaitGeneration, DeclineExhausted, Goto, Home, spawnVars, localVars, scanVars,
      claimVars, CoreTypeOK, Labels, BumpLabels, NoSlot
<1>2. WordTypeOK'
  BY <1>0, PoolAssumption
  DEF WaitGeneration, DeclineExhausted, Goto, Home, spawnVars, hostVars, WordTypeOK,
      IInv, TidInv, Assigned
<1>3. LocalTypeOK'
  <2>1. clock' \in [Threads -> NotStarted .. 2] /\ waited' \in [Threads -> 0 .. 1]
    BY <1>0 DEF WaitGeneration, LocalTypeOK, NotStarted
  <2>2. canBlock' \in [Threads -> BOOLEAN]
    BY <1>0, Zenon DEF WaitGeneration, LocalTypeOK
  <2> QED
    BY <1>0, <2>1, <2>2 DEF WaitGeneration, LocalTypeOK, scanVars
<1>4. HostTypeOK'
  BY <1>0
  DEF WaitGeneration, DeclineExhausted, Goto, Home, hostVars, historyVars, HostTypeOK,
      WordTypeOK, IInv, TidInv, Assigned
<1>5. QuietPc /\ QuietState /\ QuietLocals
  BY <1>0, SlotIsThread, OwnerIsThread, StateFacts
  DEF WaitGeneration, DeclineExhausted, Goto, Home, spawnVars, localVars, scanVars,
      claimVars, QuietPc, QuietState, QuietLocals, CoreTypeOK, Owning, Holding,
      Assigned, OwnerLabels, BumpLabels, IInv, PhaseInv, ServiceInv
<1> QED
  BY <1>1, <1>2, <1>3, <1>4, <1>5, QuietInv, Zenon DEF TypeOK

\* A spawner whose wait ran out owns nothing.
LEMMA WaitTimedOutStep ==
  ASSUME IInv, NEW t \in Threads, WaitTimedOut(t)
  PROVE  IInv'
<1>0. CoreTypeOK /\ WordTypeOK /\ LocalTypeOK /\ HostTypeOK
  BY Zenon DEF IInv, TypeOK
<1>1. CoreTypeOK'
  BY <1>0, StateFacts, OwnerIsThread, SlotIsThread
  DEF WaitTimedOut, Goto, spawnVars, localVars, scanVars, claimVars, CoreTypeOK,
      Labels, BumpLabels, NoSlot
<1>2. WordTypeOK' /\ LocalTypeOK' /\ HostTypeOK'
  BY <1>0, PoolAssumption, StateFacts, SlotIsThread, Zenon
  DEF WaitTimedOut, Goto, spawnVars, hostVars, localVars, scanVars, waitVars,
      historyVars, CoreTypeOK, WordTypeOK, LocalTypeOK, HostTypeOK, NotStarted
<1>5. QuietPc /\ QuietState /\ QuietLocals
  BY <1>0, SlotIsThread, OwnerIsThread, StateFacts
  DEF WaitTimedOut, Goto, spawnVars, localVars, scanVars, claimVars, QuietPc,
      QuietState, QuietLocals, CoreTypeOK, Owning, Holding, Assigned, OwnerLabels,
      BumpLabels, IInv, PhaseInv, ServiceInv
<1> QED
  BY <1>1, <1>2, <1>5, QuietInv, Zenon DEF TypeOK

\* The reserved slot is the first one out of service, so nobody owns it.
LEMMA ReserveStep ==
  ASSUME IInv, NEW t \in Threads, reserve(t)
  PROVE  IInv'
<1>0. CoreTypeOK /\ WordTypeOK /\ LocalTypeOK /\ HostTypeOK
  BY Zenon DEF IInv, TypeOK
<1>00. ServiceInv /\ PhaseInv /\ OwnInv /\ ExclusiveInv /\ TidInv
  BY Zenon DEF IInv
<1>1. CoreTypeOK'
  <2>1. inService' \in 0 .. Capacity /\ slot' \in [Threads -> NoSlot .. Capacity - 1]
    BY <1>0, PoolAssumption DEF reserve, hasRoom, CoreTypeOK, NoSlot
  <2>2. pc' \in [Threads -> Labels]
    BY <1>0 DEF reserve, Goto, CoreTypeOK, Labels
  <2> QED
    BY <1>0, <2>1, <2>2 DEF reserve, scanVars, CoreTypeOK
<1>2. WordTypeOK'
  BY <1>0, PoolAssumption DEF reserve, hasRoom, Goto, spawnVars, hostVars, WordTypeOK
<1>3. LocalTypeOK'
  BY <1>0, StateFacts, SlotIsThread
  DEF reserve, hasRoom, Goto, spawnVars, localVars, scanVars, waitVars, CoreTypeOK,
      LocalTypeOK, NotStarted
<1>4. HostTypeOK'
  BY <1>0 DEF reserve, hasRoom, Goto, hostVars, historyVars, HostTypeOK
<1>5. ServiceInv'
  BY <1>0, <1>00, SlotIsThread, OwnerIsThread
  DEF reserve, hasRoom, Goto, spawnVars, localVars, scanVars, CoreTypeOK, ServiceInv,
      OwnInv, Owning, Holding
<1>6. PhaseInv'
  BY <1>0, <1>00, SlotIsThread, OwnerIsThread
  DEF reserve, hasRoom, Goto, spawnVars, CoreTypeOK, PhaseInv, OwnerLabels
<1>7. OwnInv'
  <2>1. CASE hasRoom
    <3>1. inService \in Slots /\ inService < inService'
      BY <1>0, <2>1, PoolAssumption DEF reserve, hasRoom, CoreTypeOK, Slots
    <3>2. slot'[t] = inService /\ state[inService] = PENDING /\ pc'[t] = "mark"
      BY <1>0, <1>00, <2>1, <3>1, SlotIsThread DEF reserve, Goto, CoreTypeOK, ServiceInv
    <3>3. \A u \in Threads \ {t} : pc'[u] = pc[u] /\ slot'[u] = slot[u]
      BY <1>0, <2>1 DEF reserve, Goto, CoreTypeOK
    <3>4. state' = state
      BY DEF reserve
    <3>5. ASSUME NEW u \in Threads \ {t}, pc'[u] \in Owning
          PROVE  /\ slot'[u] \in Slots /\ slot'[u] < inService'
                 /\ pc'[u] = "mark" => state'[slot'[u]] \in {PENDING, RETIRED}
                 /\ pc'[u] # "mark" => state'[slot'[u]] \in {CLAIMED, RETIRED}
      <4>1. slot[u] \in Slots /\ slot[u] < inService
        BY <1>00, <3>3, <3>5 DEF OwnInv
      <4>2. slot[u] < inService'
        BY <1>0, <3>1, <4>1, SlotIsThread DEF CoreTypeOK, reserve
      <4> QED
        BY <1>00, <3>3, <3>4, <3>5, <4>1, <4>2 DEF OwnInv
    <3> QED
      BY <3>1, <3>2, <3>4, <3>5 DEF OwnInv
  <2>2. CASE ~hasRoom
    BY <1>0, <1>00, <2>2 DEF reserve, Goto, CoreTypeOK, OwnInv, Owning, Holding
  <2> QED
    BY <2>1, <2>2
<1>8. ExclusiveInv'
  BY <1>0, <1>00, SlotIsThread, OwnerIsThread, StateFacts
  DEF reserve, hasRoom, Goto, localVars, claimVars, CoreTypeOK, OwnInv, ExclusiveInv,
      Owning, Holding
<1>9. TidInv'
  BY <1>0, <1>00, OwnerIsThread
  DEF reserve, hasRoom, Goto, localVars, claimVars, CoreTypeOK, WordTypeOK, TidInv,
      Assigned, OwnInv, Owning, Holding
<1> QED
  BY <1>1, <1>2, <1>3, <1>4, <1>5, <1>6, <1>7, <1>8, <1>9, Zenon DEF IInv, TypeOK

\* Marking the reserved slot claims it for its owner.
LEMMA MarkReservedStep ==
  ASSUME IInv, NEW t \in Threads, MarkReserved(t)
  PROVE  IInv'
<1>0. CoreTypeOK /\ WordTypeOK /\ LocalTypeOK /\ HostTypeOK
  BY Zenon DEF IInv, TypeOK
<1>00. ServiceInv /\ PhaseInv /\ OwnInv /\ ExclusiveInv /\ TidInv
  BY Zenon DEF IInv
<1>1. CoreTypeOK'
  BY <1>0, StateFacts, OwnerIsThread, SlotIsThread, Zenon
  DEF MarkReserved, Goto, spawnVars, localVars, scanVars, claimVars, CoreTypeOK,
      Labels, BumpLabels, NoSlot
<1>2. WordTypeOK'
  BY <1>0, PoolAssumption DEF MarkReserved, Goto, spawnVars, hostVars, WordTypeOK
<1>3. LocalTypeOK'
  BY <1>0, StateFacts, SlotIsThread
  DEF MarkReserved, Goto, spawnVars, localVars, scanVars, waitVars, CoreTypeOK,
      LocalTypeOK, NotStarted
<1>4. HostTypeOK'
  BY <1>0 DEF MarkReserved, Goto, hostVars, historyVars, HostTypeOK
<1>5. ServiceInv'
  BY <1>0, <1>00, SlotIsThread, OwnerIsThread
  DEF MarkReserved, Goto, spawnVars, localVars, scanVars, CoreTypeOK, ServiceInv,
      OwnInv, Owning, Holding
<1>6. PhaseInv'
  BY <1>0, <1>00, SlotIsThread, OwnerIsThread
  DEF MarkReserved, Goto, spawnVars, CoreTypeOK, PhaseInv, OwnerLabels
<1>7. OwnInv'
  BY <1>0, <1>00, SlotIsThread, OwnerIsThread, StateFacts
  DEF MarkReserved, Goto, spawnVars, localVars, claimVars, CoreTypeOK, OwnInv, Owning,
      Holding, ExclusiveInv, PhaseInv
<1>8. ExclusiveInv'
  BY <1>0, <1>00, SlotIsThread, OwnerIsThread, StateFacts
  DEF MarkReserved, Goto, localVars, claimVars, CoreTypeOK, OwnInv, ExclusiveInv,
      Owning, Holding
<1>9. TidInv'
  BY <1>0, <1>00, OwnerIsThread
  DEF MarkReserved, Goto, localVars, claimVars, CoreTypeOK, WordTypeOK, TidInv,
      Assigned, OwnInv, Owning, Holding
<1> QED
  BY <1>1, <1>2, <1>3, <1>4, <1>5, <1>6, <1>7, <1>8, <1>9, Zenon DEF IInv, TypeOK

\* Starting the worker keeps the slot, a failure retires it.
LEMMA GrowStep ==
  ASSUME IInv, NEW t \in Threads, grow(t)
  PROVE  IInv'
<1>0. CoreTypeOK /\ WordTypeOK /\ LocalTypeOK /\ HostTypeOK
  BY Zenon DEF IInv, TypeOK
<1>00. ServiceInv /\ PhaseInv /\ OwnInv /\ ExclusiveInv /\ TidInv
  BY Zenon DEF IInv
<1>1. CoreTypeOK'
  BY <1>0, StateFacts, OwnerIsThread, SlotIsThread
  DEF grow, StoreAndNotify, NotifySlot, spawnVars, localVars, scanVars, claimVars,
      CoreTypeOK, Labels, BumpLabels, NoSlot
<1>2. WordTypeOK'
  BY <1>0, PoolAssumption
  DEF grow, StoreAndNotify, NotifySlot, spawnVars, hostVars, WordTypeOK
<1>3. LocalTypeOK'
  BY <1>0, StateFacts, SlotIsThread
  DEF grow, StoreAndNotify, NotifySlot, spawnVars, localVars, scanVars, waitVars,
      CoreTypeOK, LocalTypeOK, NotStarted
<1>4. HostTypeOK'
  BY <1>0, <1>00 DEF grow, historyVars, HostTypeOK, OwnInv, Owning, Holding
<1>5. ServiceInv'
  BY <1>0, <1>00, SlotIsThread, OwnerIsThread
  DEF grow, StoreAndNotify, NotifySlot, spawnVars, localVars, scanVars, CoreTypeOK,
      ServiceInv, OwnInv, Owning, Holding
<1>6. PhaseInv'
  BY <1>0, <1>00, SlotIsThread, OwnerIsThread
  DEF grow, StoreAndNotify, NotifySlot, spawnVars, CoreTypeOK, PhaseInv, OwnerLabels
<1>7. OwnInv'
  BY <1>0, <1>00, SlotIsThread, OwnerIsThread, StateFacts
  DEF grow, StoreAndNotify, NotifySlot, spawnVars, localVars, claimVars, CoreTypeOK,
      OwnInv, Owning, Holding, ExclusiveInv, PhaseInv
<1>8. ExclusiveInv'
  BY <1>0, <1>00, SlotIsThread, OwnerIsThread, StateFacts
  DEF grow, StoreAndNotify, NotifySlot, localVars, claimVars, CoreTypeOK, OwnInv,
      ExclusiveInv, Owning, Holding
<1>9. TidInv'
  BY <1>0, <1>00, OwnerIsThread
  DEF grow, StoreAndNotify, NotifySlot, localVars, claimVars, CoreTypeOK, WordTypeOK,
      TidInv, Assigned, OwnInv, Owning, Holding
<1> QED
  BY <1>1, <1>2, <1>3, <1>4, <1>5, <1>6, <1>7, <1>8, <1>9, Zenon DEF IInv, TypeOK

\* An id that passes the MAX_TID test is in range.
LEMMA TakeTidStep ==
  ASSUME IInv, NEW t \in Threads, TakeTid(t)
  PROVE  IInv'
<1>0. CoreTypeOK /\ WordTypeOK /\ LocalTypeOK /\ HostTypeOK
  BY Zenon DEF IInv, TypeOK
<1>00. ServiceInv /\ PhaseInv /\ OwnInv /\ ExclusiveInv /\ TidInv
  BY Zenon DEF IInv
<1>1. CoreTypeOK'
  BY <1>0
  DEF TakeTid, Goto, spawnVars, localVars, scanVars, claimVars, CoreTypeOK, WordTypeOK,
      Labels
<1>2. WordTypeOK'
  BY <1>0, PoolAssumption DEF TakeTid, Goto, spawnVars, hostVars, WordTypeOK
<1>3. LocalTypeOK'
  BY <1>0, StateFacts, SlotIsThread
  DEF TakeTid, Goto, spawnVars, localVars, scanVars, waitVars, CoreTypeOK, LocalTypeOK,
      NotStarted
<1>4. HostTypeOK'
  BY <1>0 DEF TakeTid, Goto, hostVars, historyVars, HostTypeOK
<1>5. ServiceInv'
  BY <1>0, <1>00, SlotIsThread, OwnerIsThread
  DEF TakeTid, Goto, spawnVars, localVars, scanVars, CoreTypeOK, ServiceInv, OwnInv,
      Owning, Holding
<1>6. PhaseInv'
  BY <1>0, <1>00, SlotIsThread, OwnerIsThread
  DEF TakeTid, Goto, spawnVars, CoreTypeOK, PhaseInv, OwnerLabels
<1>7. OwnInv'
  BY <1>0, <1>00, SlotIsThread, OwnerIsThread, StateFacts
  DEF TakeTid, Goto, spawnVars, localVars, claimVars, CoreTypeOK, OwnInv, Owning,
      Holding, ExclusiveInv, PhaseInv
<1>8. ExclusiveInv'
  BY <1>0, <1>00, SlotIsThread, OwnerIsThread, StateFacts
  DEF TakeTid, Goto, localVars, claimVars, CoreTypeOK, OwnInv, ExclusiveInv, Owning,
      Holding
<1>9. TidInv'
  <2>1. \A u \in Threads \ {t} : pc'[u] = pc[u] /\ myTid'[u] = myTid[u] /\ slot'[u] = slot[u]
    BY <1>0 DEF TakeTid, Goto, CoreTypeOK
  <2>2. pc'[t] = "put" => myTid'[t] \in 1 .. MaxTid
    BY <1>0, PoolAssumption DEF TakeTid, Goto, CoreTypeOK, WordTypeOK
  <2>3. pc'[t] \in {"put", "undo"} /\ slot'[t] \in Slots
    BY <1>0, <1>00 DEF TakeTid, Goto, CoreTypeOK, OwnInv, Owning, Holding
  <2> QED
    BY <1>00, <2>1, <2>2, <2>3 DEF TidInv, Assigned
<1> QED
  BY <1>1, <1>2, <1>3, <1>4, <1>5, <1>6, <1>7, <1>8, <1>9, Zenon DEF IInv, TypeOK

\* Undoing the claim gives up the slot it frees.
LEMMA UndoClaimStep ==
  ASSUME IInv, NEW t \in Threads, UndoClaim(t)
  PROVE  IInv'
<1>0. CoreTypeOK /\ WordTypeOK /\ LocalTypeOK /\ HostTypeOK
  BY Zenon DEF IInv, TypeOK
<1>00. ServiceInv /\ PhaseInv /\ OwnInv /\ ExclusiveInv /\ TidInv
  BY Zenon DEF IInv
<1>1. CoreTypeOK'
  BY <1>0, StateFacts, OwnerIsThread, SlotIsThread, Zenon
  DEF UndoClaim, Goto, spawnVars, localVars, scanVars, claimVars, CoreTypeOK, Labels,
      BumpLabels, NoSlot
<1>2. WordTypeOK'
  BY <1>0, PoolAssumption DEF UndoClaim, Goto, spawnVars, hostVars, WordTypeOK
<1>3. LocalTypeOK'
  BY <1>0, StateFacts, SlotIsThread
  DEF UndoClaim, Goto, spawnVars, localVars, scanVars, waitVars, CoreTypeOK,
      LocalTypeOK, NotStarted
<1>4. HostTypeOK'
  BY <1>0 DEF UndoClaim, Goto, hostVars, historyVars, HostTypeOK
<1>5. ServiceInv'
  BY <1>0, <1>00, SlotIsThread, OwnerIsThread
  DEF UndoClaim, Goto, spawnVars, localVars, scanVars, CoreTypeOK, ServiceInv, OwnInv,
      Owning, Holding
<1>6. PhaseInv'
  BY <1>0, <1>00, SlotIsThread, OwnerIsThread
  DEF UndoClaim, Goto, spawnVars, CoreTypeOK, PhaseInv, OwnerLabels
<1>7. OwnInv'
  BY <1>0, <1>00, SlotIsThread, OwnerIsThread, StateFacts
  DEF UndoClaim, Goto, spawnVars, localVars, claimVars, CoreTypeOK, OwnInv, Owning,
      Holding, ExclusiveInv, PhaseInv
<1>8. ExclusiveInv'
  BY <1>0, <1>00, SlotIsThread, OwnerIsThread, StateFacts
  DEF UndoClaim, Goto, localVars, claimVars, CoreTypeOK, OwnInv, ExclusiveInv, Owning,
      Holding
<1>9. TidInv'
  BY <1>0, <1>00, OwnerIsThread
  DEF UndoClaim, Goto, localVars, claimVars, CoreTypeOK, WordTypeOK, TidInv, Assigned,
      OwnInv, Owning, Holding
<1> QED
  BY <1>1, <1>2, <1>3, <1>4, <1>5, <1>6, <1>7, <1>8, <1>9, Zenon DEF IInv, TypeOK

\* The published id is the one that passed the test.
LEMMA PutTidStep ==
  ASSUME IInv, NEW t \in Threads, PutTid(t)
  PROVE  IInv'
<1>0. CoreTypeOK /\ WordTypeOK /\ LocalTypeOK /\ HostTypeOK
  BY Zenon DEF IInv, TypeOK
<1>1. CoreTypeOK'
  BY <1>0, StateFacts, OwnerIsThread, SlotIsThread
  DEF PutTid, Goto, spawnVars, localVars, scanVars, claimVars, CoreTypeOK, Labels,
      BumpLabels, NoSlot
<1>2. WordTypeOK'
  BY <1>0, PoolAssumption
  DEF PutTid, Goto, spawnVars, hostVars, WordTypeOK, IInv, TidInv, Assigned
<1>3. LocalTypeOK'
  BY <1>0, StateFacts, SlotIsThread
  DEF PutTid, Goto, spawnVars, localVars, scanVars, waitVars, CoreTypeOK, WordTypeOK,
      LocalTypeOK, NotStarted
<1>4. HostTypeOK'
  BY <1>0
  DEF PutTid, Goto, hostVars, historyVars, HostTypeOK, WordTypeOK, IInv, TidInv,
      Assigned
<1>5. QuietPc /\ QuietState /\ QuietLocals
  BY <1>0, SlotIsThread, OwnerIsThread, StateFacts
  DEF PutTid, Goto, spawnVars, localVars, scanVars, claimVars, QuietPc, QuietState,
      QuietLocals, CoreTypeOK, Owning, Holding, Assigned, OwnerLabels, BumpLabels,
      IInv, PhaseInv, ServiceInv
<1> QED
  BY <1>1, <1>2, <1>3, <1>4, <1>5, QuietInv, Zenon DEF TypeOK

\* Publishing the assignment ends the ownership.
LEMMA AssignStep ==
  ASSUME IInv, NEW t \in Threads, Assign(t)
  PROVE  IInv'
<1>0. CoreTypeOK /\ WordTypeOK /\ LocalTypeOK /\ HostTypeOK
  BY Zenon DEF IInv, TypeOK
<1>00. ServiceInv /\ PhaseInv /\ OwnInv /\ ExclusiveInv /\ TidInv
  BY Zenon DEF IInv
<1>1. CoreTypeOK'
  BY <1>0, StateFacts, OwnerIsThread, SlotIsThread, Zenon
  DEF Assign, Goto, spawnVars, localVars, scanVars, claimVars, CoreTypeOK, Labels,
      BumpLabels, NoSlot
<1>2. WordTypeOK'
  BY <1>0, PoolAssumption, Zenon DEF Assign, Goto, spawnVars, hostVars, WordTypeOK
<1>3. LocalTypeOK'
  BY <1>0, StateFacts, SlotIsThread
  DEF Assign, Goto, spawnVars, localVars, scanVars, waitVars, CoreTypeOK, LocalTypeOK,
      NotStarted
<1>4. HostTypeOK'
  BY <1>0 DEF Assign, Goto, hostVars, historyVars, HostTypeOK
<1>5. ServiceInv'
  BY <1>0, <1>00, SlotIsThread, OwnerIsThread
  DEF Assign, Goto, spawnVars, localVars, scanVars, CoreTypeOK, ServiceInv, OwnInv,
      Owning, Holding
<1>6. PhaseInv'
  BY <1>0, <1>00, SlotIsThread, OwnerIsThread
  DEF Assign, Goto, spawnVars, CoreTypeOK, PhaseInv, OwnerLabels
<1>7. OwnInv'
  BY <1>0, <1>00, SlotIsThread, OwnerIsThread, StateFacts
  DEF Assign, Goto, spawnVars, localVars, claimVars, CoreTypeOK, OwnInv, Owning,
      Holding, ExclusiveInv, PhaseInv
<1>8. ExclusiveInv'
  BY <1>0, <1>00, SlotIsThread, OwnerIsThread, StateFacts
  DEF Assign, Goto, localVars, claimVars, CoreTypeOK, OwnInv, ExclusiveInv, Owning,
      Holding
<1>9. TidInv'
  BY <1>0, <1>00, OwnerIsThread
  DEF Assign, Goto, localVars, claimVars, CoreTypeOK, WordTypeOK, TidInv, Assigned,
      OwnInv, Owning, Holding
<1> QED
  BY <1>1, <1>2, <1>3, <1>4, <1>5, <1>6, <1>7, <1>8, <1>9, Zenon DEF IInv, TypeOK

\* A failed dispatch frees only a slot that is ASSIGNED or RUNNING.
LEMMA NotifyAssignedStep ==
  ASSUME IInv, NEW t \in Threads, NotifyAssigned(t)
  PROVE  IInv'
<1>0. CoreTypeOK /\ WordTypeOK /\ LocalTypeOK /\ HostTypeOK
  BY Zenon DEF IInv, TypeOK
<1>1. CoreTypeOK'
  BY <1>0, StateFacts, OwnerIsThread, SlotIsThread
  DEF NotifyAssigned, NotifySlot, stillRuns, Goto, Home, spawnVars, localVars,
      scanVars, claimVars, CoreTypeOK, Labels, BumpLabels, NoSlot
<1>2. WordTypeOK'
  BY <1>0, PoolAssumption
  DEF NotifyAssigned, NotifySlot, stillRuns, Goto, Home, spawnVars, hostVars,
      WordTypeOK, IInv, TidInv, Assigned
<1>3. LocalTypeOK'
  BY <1>0, StateFacts, SlotIsThread
  DEF NotifyAssigned, NotifySlot, stillRuns, Goto, Home, spawnVars, localVars,
      scanVars, waitVars, CoreTypeOK, WordTypeOK, LocalTypeOK, NotStarted
<1>4. HostTypeOK'
  BY <1>0
  DEF NotifyAssigned, NotifySlot, stillRuns, Goto, Home, hostVars, historyVars,
      HostTypeOK, WordTypeOK, IInv, TidInv, Assigned
<1>5. QuietPc
  BY <1>0, SlotIsThread, OwnerIsThread
  DEF NotifyAssigned, NotifySlot, stillRuns, Goto, Home, QuietPc, CoreTypeOK, Owning,
      Holding, Assigned, OwnerLabels, BumpLabels, IInv, PhaseInv
<1>6. QuietState
  <2>1. slot[t] \in Slots
    BY DEF NotifyAssigned, IInv, TidInv, Assigned
  <2>2. \A u \in Slots : state[u] \in {PENDING, CLAIMED,
      RETIRED} => state'[u] = state[u]
    BY <1>0, <2>1, StateFacts DEF NotifyAssigned, stillRuns, CoreTypeOK
  <2> QED
    BY <2>2 DEF QuietState, IInv, ServiceInv
<1>7. QuietLocals
  BY <1>0, OwnerIsThread
  DEF NotifyAssigned, NotifySlot, stillRuns, Goto, Home, spawnVars, localVars,
      scanVars, claimVars, QuietLocals, CoreTypeOK, IInv, ServiceInv, Owning, Holding,
      Assigned
<1> QED
  BY <1>1, <1>2, <1>3, <1>4, <1>5, <1>6, <1>7, QuietInv, Zenon DEF TypeOK

\* Counting touches no slot.
LEMMA CountSpawnedStep ==
  ASSUME IInv, NEW t \in Threads, CountSpawned(t)
  PROVE  IInv'
<1>0. CoreTypeOK /\ WordTypeOK /\ LocalTypeOK /\ HostTypeOK
  BY Zenon DEF IInv, TypeOK
<1>1. CoreTypeOK'
  BY <1>0, StateFacts, OwnerIsThread, SlotIsThread
  DEF CountSpawned, Goto, Home, spawnVars, localVars, scanVars, claimVars, CoreTypeOK,
      Labels, BumpLabels, NoSlot
<1>2. WordTypeOK'
  <2>1. counts.waited + waited[t] \in Nat /\ counts.spawned + 1 \in Nat
    BY <1>0 DEF WordTypeOK, LocalTypeOK
  <2>2. counts' \in [spawned : Nat, waited : Nat, declined : Nat]
    BY <1>0, <2>1, CountsUpdate, Zenon DEF CountSpawned, WordTypeOK
  <2> QED
    BY <1>0, <2>2 DEF CountSpawned, hostVars, WordTypeOK
<1>3. LocalTypeOK'
  BY <1>0, StateFacts, SlotIsThread
  DEF CountSpawned, Goto, Home, spawnVars, localVars, scanVars, waitVars, CoreTypeOK,
      WordTypeOK, LocalTypeOK, NotStarted
<1>4. HostTypeOK'
  BY <1>0
  DEF CountSpawned, Goto, Home, hostVars, historyVars, HostTypeOK, WordTypeOK, IInv,
      TidInv, Assigned
<1>5. QuietPc /\ QuietState /\ QuietLocals
  BY <1>0, SlotIsThread, OwnerIsThread, StateFacts
  DEF CountSpawned, Goto, Home, spawnVars, localVars, scanVars, claimVars, QuietPc,
      QuietState, QuietLocals, CoreTypeOK, Owning, Holding, Assigned, OwnerLabels,
      BumpLabels, IInv, PhaseInv, ServiceInv
<1> QED
  BY <1>1, <1>2, <1>3, <1>4, <1>5, QuietInv, Zenon DEF TypeOK

=============================================================================

------------------------ MODULE WasiThreadPoolProofs ------------------------
(***************************************************************************)
(* The steps of the pool's workers and of its owner keep the invariant of  *)
(* WasiThreadPoolInv, and what follows from it.                            *)
(***************************************************************************)
EXTENDS WasiThreadPoolInv

\* A worker that cannot start retires its slot.
LEMMA BootStep ==
  ASSUME IInv, NEW s \in Slots, Boot(s)
  PROVE  IInv'
<1>0. CoreTypeOK /\ WordTypeOK /\ LocalTypeOK /\ HostTypeOK
  BY Zenon DEF IInv, TypeOK
<1>1. CoreTypeOK'
  BY <1>0, StateFacts, OwnerIsThread, SlotIsThread
  DEF Boot, StoreAndNotify, NotifySlot, Goto, spawnVars, localVars, scanVars,
      claimVars, CoreTypeOK, Labels, BumpLabels, NoSlot
<1>2. WordTypeOK' /\ LocalTypeOK' /\ HostTypeOK'
  BY <1>0, PoolAssumption, StateFacts, SlotIsThread, Zenon
  DEF Boot, StoreAndNotify, NotifySlot, Goto, spawnVars, hostVars, localVars, scanVars,
      waitVars, historyVars, CoreTypeOK, WordTypeOK, LocalTypeOK, HostTypeOK, NotStarted
<1>5. QuietPc /\ QuietState /\ QuietLocals
  BY <1>0, SlotIsThread, OwnerIsThread, StateFacts
  DEF Boot, StoreAndNotify, NotifySlot, Goto, spawnVars, localVars, scanVars,
      claimVars, QuietPc, QuietState, QuietLocals, CoreTypeOK, Owning, Holding,
      Assigned, OwnerLabels, BumpLabels, IInv, PhaseInv, ServiceInv
<1> QED
  BY <1>1, <1>2, <1>5, QuietInv, Zenon DEF TypeOK

\* Reading its slot moves only the worker.
LEMMA ServeLoadStep ==
  ASSUME IInv, NEW s \in Slots, ServeLoad(s)
  PROVE  IInv'
<1>0. CoreTypeOK /\ WordTypeOK /\ LocalTypeOK /\ HostTypeOK
  BY Zenon DEF IInv, TypeOK
<1>1. CoreTypeOK'
  BY <1>0, StateFacts, OwnerIsThread, SlotIsThread
  DEF ServeLoad, Goto, spawnVars, localVars, scanVars, claimVars, CoreTypeOK, Labels,
      BumpLabels, NoSlot
<1>2. WordTypeOK' /\ LocalTypeOK' /\ HostTypeOK'
  BY <1>0, PoolAssumption, StateFacts, SlotIsThread, Zenon
  DEF ServeLoad, Goto, spawnVars, hostVars, localVars, scanVars, waitVars, historyVars,
      CoreTypeOK, WordTypeOK, LocalTypeOK, HostTypeOK, NotStarted
<1>5. QuietPc /\ QuietState /\ QuietLocals
  BY <1>0, SlotIsThread, OwnerIsThread, StateFacts
  DEF ServeLoad, Goto, spawnVars, localVars, scanVars, claimVars, QuietPc, QuietState,
      QuietLocals, CoreTypeOK, Owning, Holding, Assigned, OwnerLabels, BumpLabels,
      IInv, PhaseInv, ServiceInv
<1> QED
  BY <1>1, <1>2, <1>5, QuietInv, Zenon DEF TypeOK

\* Waiting on its slot moves only the worker.
LEMMA ServeWaitStep ==
  ASSUME IInv, NEW s \in Slots, ServeWait(s)
  PROVE  IInv'
<1>0. CoreTypeOK /\ WordTypeOK /\ LocalTypeOK /\ HostTypeOK
  BY Zenon DEF IInv, TypeOK
<1>1. CoreTypeOK'
  BY <1>0, StateFacts, OwnerIsThread, SlotIsThread
  DEF ServeWait, Goto, spawnVars, localVars, scanVars, claimVars, CoreTypeOK, Labels,
      BumpLabels, NoSlot
<1>2. WordTypeOK' /\ LocalTypeOK' /\ HostTypeOK'
  BY <1>0, PoolAssumption, StateFacts, SlotIsThread, Zenon
  DEF ServeWait, Goto, spawnVars, hostVars, localVars, scanVars, waitVars, historyVars,
      CoreTypeOK, WordTypeOK, LocalTypeOK, HostTypeOK, NotStarted
<1>5. QuietPc
  BY <1>0, SlotIsThread, OwnerIsThread
  DEF ServeWait, Goto, QuietPc, CoreTypeOK, Owning, Holding, Assigned, OwnerLabels,
      BumpLabels, IInv, PhaseInv
<1>6. QuietState
  BY <1>0, SlotIsThread, StateFacts
  DEF ServeWait, Goto, QuietState, CoreTypeOK, IInv, ServiceInv
<1>7. QuietLocals
  BY <1>0, OwnerIsThread
  DEF ServeWait, Goto, spawnVars, localVars, scanVars, claimVars, QuietLocals,
      CoreTypeOK, IInv, ServiceInv, Owning, Holding, Assigned
<1> QED
  BY <1>1, <1>2, <1>5, <1>6, <1>7, QuietInv, Zenon DEF TypeOK

\* Only an ASSIGNED slot, which nobody owns, starts RUNNING.
LEMMA TakeAssignmentStep ==
  ASSUME IInv, NEW s \in Slots, takeAssignment(s)
  PROVE  IInv'
<1>0. CoreTypeOK /\ WordTypeOK /\ LocalTypeOK /\ HostTypeOK
  BY Zenon DEF IInv, TypeOK
<1>1. CoreTypeOK'
  BY <1>0, StateFacts, OwnerIsThread, SlotIsThread
  DEF takeAssignment, StartRun, Goto, spawnVars, localVars, scanVars, claimVars,
      CoreTypeOK, Labels, BumpLabels, NoSlot
<1>2. WordTypeOK'
  BY <1>0, PoolAssumption
  DEF takeAssignment, StartRun, Goto, spawnVars, hostVars, WordTypeOK, IInv, TidInv,
      Assigned
<1>3. LocalTypeOK'
  BY <1>0, StateFacts, SlotIsThread
  DEF takeAssignment, StartRun, Goto, spawnVars, localVars, scanVars, waitVars,
      CoreTypeOK, WordTypeOK, LocalTypeOK, NotStarted
<1>4. HostTypeOK'
  <2>1. runs' \in [1 .. MaxTid -> Nat]
    BY <1>0 DEF takeAssignment, StartRun, HostTypeOK
  <2> QED
    BY <1>0, <2>1 DEF takeAssignment, hostVars, HostTypeOK
<1>5. QuietPc /\ QuietState /\ QuietLocals
  BY <1>0, SlotIsThread, OwnerIsThread, StateFacts
  DEF takeAssignment, StartRun, Goto, spawnVars, localVars, scanVars, claimVars,
      QuietPc, QuietState, QuietLocals, CoreTypeOK, Owning, Holding, Assigned,
      OwnerLabels, BumpLabels, IInv, PhaseInv, ServiceInv
<1> QED
  BY <1>1, <1>2, <1>3, <1>4, <1>5, QuietInv, Zenon DEF TypeOK

\* Only a RUNNING slot, which nobody owns, is freed.
LEMMA FinishRunStep ==
  ASSUME IInv, NEW s \in Slots, finishRun(s)
  PROVE  IInv'
<1>0. CoreTypeOK /\ WordTypeOK /\ LocalTypeOK /\ HostTypeOK
  BY Zenon DEF IInv, TypeOK
<1>1. CoreTypeOK'
  BY <1>0, StateFacts, OwnerIsThread, SlotIsThread
  DEF finishRun, Goto, spawnVars, localVars, scanVars, claimVars, CoreTypeOK, Labels,
      BumpLabels, NoSlot
<1>2. WordTypeOK' /\ LocalTypeOK' /\ HostTypeOK'
  BY <1>0, PoolAssumption, StateFacts, SlotIsThread, Zenon
  DEF finishRun, Goto, spawnVars, hostVars, localVars, scanVars, waitVars, historyVars,
      CoreTypeOK, WordTypeOK, LocalTypeOK, HostTypeOK, NotStarted
<1>5. QuietPc /\ QuietState /\ QuietLocals
  BY <1>0, SlotIsThread, OwnerIsThread, StateFacts
  DEF finishRun, Goto, spawnVars, localVars, scanVars, claimVars, QuietPc, QuietState,
      QuietLocals, CoreTypeOK, Owning, Holding, Assigned, OwnerLabels, BumpLabels,
      IInv, PhaseInv, ServiceInv
<1> QED
  BY <1>1, <1>2, <1>5, QuietInv, Zenon DEF TypeOK

\* A trap retires the slot.
LEMMA TrapRunStep ==
  ASSUME IInv, NEW s \in Slots, TrapRun(s)
  PROVE  IInv'
<1>0. CoreTypeOK /\ WordTypeOK /\ LocalTypeOK /\ HostTypeOK
  BY Zenon DEF IInv, TypeOK
<1>1. CoreTypeOK'
  BY <1>0, StateFacts, OwnerIsThread, SlotIsThread
  DEF TrapRun, StoreAndNotify, NotifySlot, spawnVars, localVars, scanVars, claimVars,
      CoreTypeOK, Labels, BumpLabels, NoSlot
<1>2. WordTypeOK' /\ LocalTypeOK' /\ HostTypeOK'
  BY <1>0, PoolAssumption, StateFacts, SlotIsThread, Zenon
  DEF TrapRun, StoreAndNotify, NotifySlot, spawnVars, hostVars, localVars, scanVars,
      waitVars, historyVars, CoreTypeOK, WordTypeOK, LocalTypeOK, HostTypeOK, NotStarted
<1>5. QuietPc /\ QuietState /\ QuietLocals
  BY <1>0, SlotIsThread, OwnerIsThread, StateFacts
  DEF TrapRun, StoreAndNotify, NotifySlot, spawnVars, localVars, scanVars, claimVars,
      QuietPc, QuietState, QuietLocals, CoreTypeOK, Owning, Holding, Assigned,
      OwnerLabels, BumpLabels, IInv, PhaseInv, ServiceInv
<1> QED
  BY <1>1, <1>2, <1>5, QuietInv, Zenon DEF TypeOK

\* A message-dispatch run touches no slot.
LEMMA MessageRunStep ==
  ASSUME IInv, NEW s \in Slots, MessageRun(s)
  PROVE  IInv'
<1>0. CoreTypeOK /\ WordTypeOK /\ LocalTypeOK /\ HostTypeOK
  BY Zenon DEF IInv, TypeOK
<1>1. CoreTypeOK'
  BY <1>0, StateFacts, OwnerIsThread, SlotIsThread
  DEF MessageRun, StartRun, Goto, spawnVars, localVars, scanVars, claimVars,
      CoreTypeOK, Labels, BumpLabels, NoSlot
<1>2. WordTypeOK'
  BY <1>0, PoolAssumption
  DEF MessageRun, StartRun, Goto, spawnVars, hostVars, WordTypeOK, IInv, TidInv,
      Assigned
<1>3. LocalTypeOK'
  BY <1>0, StateFacts, SlotIsThread
  DEF MessageRun, StartRun, Goto, spawnVars, localVars, scanVars, waitVars, CoreTypeOK,
      WordTypeOK, LocalTypeOK, NotStarted
<1>4. HostTypeOK'
  BY <1>0
  DEF MessageRun, StartRun, Goto, hostVars, historyVars, HostTypeOK, WordTypeOK, IInv,
      TidInv, Assigned
<1>5. QuietPc
  BY <1>0, SlotIsThread, OwnerIsThread
  DEF MessageRun, StartRun, Goto, QuietPc, CoreTypeOK, Owning, Holding, Assigned,
      OwnerLabels, BumpLabels, IInv, PhaseInv
<1>6. QuietState
  BY <1>0, SlotIsThread, StateFacts
  DEF MessageRun, StartRun, Goto, QuietState, CoreTypeOK, IInv, ServiceInv
<1>7. QuietLocals
  BY <1>0, OwnerIsThread
  DEF MessageRun, StartRun, Goto, spawnVars, localVars, scanVars, claimVars,
      QuietLocals, CoreTypeOK, IInv, ServiceInv, Owning, Holding, Assigned
<1> QED
  BY <1>1, <1>2, <1>3, <1>4, <1>5, <1>6, <1>7, QuietInv, Zenon DEF TypeOK

\* Posting the exit message touches no slot.
LEMMA MessageExitStep ==
  ASSUME IInv, NEW s \in Slots, MessageExit(s)
  PROVE  IInv'
<1>0. CoreTypeOK /\ WordTypeOK /\ LocalTypeOK /\ HostTypeOK
  BY Zenon DEF IInv, TypeOK
<1>1. CoreTypeOK'
  BY <1>0, StateFacts, OwnerIsThread, SlotIsThread
  DEF MessageExit, Goto, spawnVars, localVars, scanVars, claimVars, CoreTypeOK, Labels,
      BumpLabels, NoSlot
<1>2. WordTypeOK'
  BY <1>0, PoolAssumption
  DEF MessageExit, Goto, spawnVars, hostVars, WordTypeOK, IInv, TidInv, Assigned
<1>3. LocalTypeOK'
  BY <1>0, StateFacts, SlotIsThread
  DEF MessageExit, Goto, spawnVars, localVars, scanVars, waitVars, CoreTypeOK,
      WordTypeOK, LocalTypeOK, NotStarted
<1>4. HostTypeOK'
  BY <1>0
  DEF MessageExit, Goto, hostVars, historyVars, HostTypeOK, WordTypeOK, IInv, TidInv,
      Assigned
<1>5. QuietPc /\ QuietState /\ QuietLocals
  BY <1>0, SlotIsThread, OwnerIsThread, StateFacts
  DEF MessageExit, Goto, spawnVars, localVars, scanVars, claimVars, QuietPc,
      QuietState, QuietLocals, CoreTypeOK, Owning, Holding, Assigned, OwnerLabels,
      BumpLabels, IInv, PhaseInv, ServiceInv
<1> QED
  BY <1>1, <1>2, <1>3, <1>4, <1>5, QuietInv, Zenon DEF TypeOK

\* A lost worker touches no slot.
LEMMA DieStep ==
  ASSUME IInv, NEW s \in Slots, Die(s)
  PROVE  IInv'
<1>0. CoreTypeOK /\ WordTypeOK /\ LocalTypeOK /\ HostTypeOK
  BY Zenon DEF IInv, TypeOK
<1>1. CoreTypeOK'
  BY <1>0, StateFacts, OwnerIsThread, SlotIsThread
  DEF Die, Goto, spawnVars, localVars, scanVars, claimVars, CoreTypeOK, Labels,
      BumpLabels, NoSlot
<1>2. WordTypeOK' /\ LocalTypeOK' /\ HostTypeOK'
  BY <1>0, PoolAssumption, StateFacts, SlotIsThread, Zenon
  DEF Die, Goto, spawnVars, hostVars, localVars, scanVars, waitVars, historyVars,
      CoreTypeOK, WordTypeOK, LocalTypeOK, HostTypeOK, NotStarted
<1>5. QuietPc /\ QuietState /\ QuietLocals
  BY <1>0, SlotIsThread, OwnerIsThread, StateFacts
  DEF Die, Goto, spawnVars, localVars, scanVars, claimVars, QuietPc, QuietState,
      QuietLocals, CoreTypeOK, Owning, Holding, Assigned, OwnerLabels, BumpLabels,
      IInv, PhaseInv, ServiceInv
<1> QED
  BY <1>1, <1>2, <1>5, QuietInv, Zenon DEF TypeOK

\* Arming moves a PENDING slot of a fixed pool, which nobody reserves.
LEMMA ArmSlotStep ==
  ASSUME IInv, NEW s \in Slots, ArmSlot(s)
  PROVE  IInv'
<1>0. CoreTypeOK /\ WordTypeOK /\ LocalTypeOK /\ HostTypeOK
  BY Zenon DEF IInv, TypeOK
<1>00. ServiceInv /\ PhaseInv /\ OwnInv /\ ExclusiveInv /\ TidInv
  BY Zenon DEF IInv
<1>1. CoreTypeOK'
  BY <1>0, StateFacts, OwnerIsThread, SlotIsThread
  DEF ArmSlot, StoreAndNotify, NotifySlot, spawnVars, localVars, scanVars, claimVars,
      CoreTypeOK, Labels, BumpLabels, NoSlot
<1>2. WordTypeOK'
  BY <1>0, PoolAssumption
  DEF ArmSlot, StoreAndNotify, NotifySlot, spawnVars, hostVars, WordTypeOK
<1>3. LocalTypeOK'
  BY <1>0, StateFacts, SlotIsThread
  DEF ArmSlot, StoreAndNotify, NotifySlot, spawnVars, localVars, scanVars, waitVars,
      CoreTypeOK, LocalTypeOK, NotStarted
<1>4. HostTypeOK'
  BY <1>0 DEF ArmSlot, StoreAndNotify, NotifySlot, hostVars, historyVars, HostTypeOK
<1>5. ServiceInv'
  <2>1. s < inService /\ inService' = inService /\ upto' = upto
    BY <1>00, PoolAssumption
    DEF ArmSlot, PhaseInv, Slots, spawnVars, localVars, scanVars
  <2>2. \A u \in Slots : u # s => state'[u] = state[u] /\ (pc[u] = "none" => pc'[u] = "none")
    BY <1>0, SlotIsThread DEF ArmSlot, StoreAndNotify, NotifySlot, CoreTypeOK
  <2> QED
    BY <1>0, <1>00, <2>1, <2>2, SlotIsThread DEF CoreTypeOK, ServiceInv
<1>6. PhaseInv'
  BY <1>0, <1>00, SlotIsThread, OwnerIsThread
  DEF ArmSlot, StoreAndNotify, NotifySlot, spawnVars, CoreTypeOK, PhaseInv, OwnerLabels
<1>7. OwnInv'
  BY <1>0, <1>00, SlotIsThread, OwnerIsThread, StateFacts
  DEF ArmSlot, StoreAndNotify, NotifySlot, spawnVars, localVars, claimVars, CoreTypeOK,
      OwnInv, Owning, Holding, ExclusiveInv, PhaseInv
<1>8. ExclusiveInv'
  BY <1>0, <1>00, SlotIsThread, OwnerIsThread, StateFacts
  DEF ArmSlot, StoreAndNotify, NotifySlot, localVars, claimVars, CoreTypeOK, OwnInv,
      ExclusiveInv, Owning, Holding
<1>9. TidInv'
  BY <1>0, <1>00, OwnerIsThread
  DEF ArmSlot, StoreAndNotify, NotifySlot, localVars, claimVars, CoreTypeOK,
      WordTypeOK, TidInv, Assigned, OwnInv, Owning, Holding
<1> QED
  BY <1>1, <1>2, <1>3, <1>4, <1>5, <1>6, <1>7, <1>8, <1>9, Zenon DEF IInv, TypeOK

\* The end of arming touches no slot.
LEMMA ArmDoneStep ==
  ASSUME IInv, ArmDone
  PROVE  IInv'
<1>0. CoreTypeOK /\ WordTypeOK /\ LocalTypeOK /\ HostTypeOK
  BY Zenon DEF IInv, TypeOK
<1>1. CoreTypeOK'
  BY <1>0, StateFacts, OwnerIsThread, SlotIsThread
  DEF ArmDone, Goto, spawnVars, localVars, scanVars, claimVars, CoreTypeOK, Labels,
      BumpLabels, NoSlot
<1>2. WordTypeOK' /\ LocalTypeOK' /\ HostTypeOK'
  BY <1>0, PoolAssumption, StateFacts, SlotIsThread, Zenon
  DEF ArmDone, Goto, spawnVars, hostVars, localVars, scanVars, waitVars, historyVars,
      CoreTypeOK, WordTypeOK, LocalTypeOK, HostTypeOK, NotStarted
<1>5. QuietPc /\ QuietState /\ QuietLocals
  BY <1>0, SlotIsThread, OwnerIsThread, StateFacts
  DEF ArmDone, Goto, spawnVars, localVars, scanVars, claimVars, QuietPc, QuietState,
      QuietLocals, CoreTypeOK, Owning, Holding, Assigned, OwnerLabels, BumpLabels,
      IInv, PhaseInv, ServiceInv
<1> QED
  BY <1>1, <1>2, <1>5, QuietInv, Zenon DEF TypeOK

\* An exit message frees only a slot that is ASSIGNED or RUNNING.
LEMMA ReturnWorkerStep ==
  ASSUME IInv, NEW s \in Slots, NEW k, returnWorkerToIdle(s, k)
  PROVE  IInv'
<1>0. CoreTypeOK /\ WordTypeOK /\ LocalTypeOK /\ HostTypeOK
  BY Zenon DEF IInv, TypeOK
<1>1. CoreTypeOK'
  BY <1>0, StateFacts, OwnerIsThread, SlotIsThread
  DEF returnWorkerToIdle, stillRuns, Goto, spawnVars, localVars, scanVars, claimVars,
      CoreTypeOK, Labels, BumpLabels, NoSlot
<1>2. WordTypeOK'
  BY <1>0, PoolAssumption
  DEF returnWorkerToIdle, stillRuns, Goto, spawnVars, hostVars, WordTypeOK, IInv,
      TidInv, Assigned
<1>3. LocalTypeOK'
  BY <1>0, StateFacts, SlotIsThread
  DEF returnWorkerToIdle, stillRuns, Goto, spawnVars, localVars, scanVars, waitVars,
      CoreTypeOK, WordTypeOK, LocalTypeOK, NotStarted
<1>4. HostTypeOK'
  BY <1>0
  DEF returnWorkerToIdle, stillRuns, Goto, hostVars, historyVars, HostTypeOK,
      WordTypeOK, IInv, TidInv, Assigned
<1>5. QuietPc /\ QuietState /\ QuietLocals
  BY <1>0, SlotIsThread, OwnerIsThread, StateFacts
  DEF returnWorkerToIdle, stillRuns, Goto, spawnVars, localVars, scanVars, claimVars,
      QuietPc, QuietState, QuietLocals, CoreTypeOK, Owning, Holding, Assigned,
      OwnerLabels, BumpLabels, IInv, PhaseInv, ServiceInv
<1> QED
  BY <1>1, <1>2, <1>3, <1>4, <1>5, QuietInv, Zenon DEF TypeOK

\* A worker's exit retires its slot.
LEMMA RetireWorkerStep ==
  ASSUME IInv, NEW s \in Slots, retireWorker(s)
  PROVE  IInv'
<1>0. CoreTypeOK /\ WordTypeOK /\ LocalTypeOK /\ HostTypeOK
  BY Zenon DEF IInv, TypeOK
<1>1. CoreTypeOK'
  BY <1>0, StateFacts, OwnerIsThread, SlotIsThread
  DEF retireWorker, Goto, spawnVars, localVars, scanVars, claimVars, CoreTypeOK,
      Labels, BumpLabels, NoSlot
<1>2. WordTypeOK' /\ LocalTypeOK' /\ HostTypeOK'
  BY <1>0, PoolAssumption, StateFacts, SlotIsThread, Zenon
  DEF retireWorker, Goto, spawnVars, hostVars, localVars, scanVars, waitVars,
      historyVars, CoreTypeOK, WordTypeOK, LocalTypeOK, HostTypeOK, NotStarted
<1>5. QuietPc /\ QuietState /\ QuietLocals
  BY <1>0, SlotIsThread, OwnerIsThread, StateFacts
  DEF retireWorker, Goto, spawnVars, localVars, scanVars, claimVars, QuietPc,
      QuietState, QuietLocals, CoreTypeOK, Owning, Holding, Assigned, OwnerLabels,
      BumpLabels, IInv, PhaseInv, ServiceInv
<1> QED
  BY <1>1, <1>2, <1>5, QuietInv, Zenon DEF TypeOK

\* terminateAll visits at most the slots in service.
LEMMA TerminateAllStep ==
  ASSUME IInv, terminateAll
  PROVE  IInv'
<1>0. CoreTypeOK /\ WordTypeOK /\ LocalTypeOK /\ HostTypeOK
  BY Zenon DEF IInv, TypeOK
<1>1. CoreTypeOK'
  BY <1>0, StateFacts, OwnerIsThread, SlotIsThread
  DEF terminateAll, Goto, spawnVars, localVars, scanVars, claimVars, CoreTypeOK,
      Labels, BumpLabels, NoSlot
<1>2. WordTypeOK' /\ LocalTypeOK' /\ HostTypeOK'
  BY <1>0, PoolAssumption, StateFacts, SlotIsThread, Zenon
  DEF terminateAll, Goto, spawnVars, hostVars, localVars, scanVars, waitVars,
      historyVars, CoreTypeOK, WordTypeOK, LocalTypeOK, HostTypeOK, NotStarted
<1>5. QuietPc /\ QuietState /\ QuietLocals
  BY <1>0, SlotIsThread, OwnerIsThread, StateFacts
  DEF terminateAll, Goto, spawnVars, localVars, scanVars, claimVars, QuietPc,
      QuietState, QuietLocals, CoreTypeOK, Owning, Holding, Assigned, OwnerLabels,
      BumpLabels, IInv, PhaseInv, ServiceInv
<1> QED
  BY <1>1, <1>2, <1>5, QuietInv, Zenon DEF TypeOK

\* terminateAll retires a slot in service.
LEMMA TerminateSlotStep ==
  ASSUME IInv, TerminateSlot
  PROVE  IInv'
<1>0. CoreTypeOK /\ WordTypeOK /\ LocalTypeOK /\ HostTypeOK
  BY Zenon DEF IInv, TypeOK
<1>1. CoreTypeOK'
  <2>1. state' \in [Slots -> SlotStates]
    BY <1>0, StateFacts, Zenon DEF TerminateSlot, StoreAndNotify, CoreTypeOK
  <2>2. pc' \in [Threads -> Labels]
    BY <1>0, OwnerIsThread, Zenon
    DEF TerminateSlot, StoreAndNotify, NotifySlot, CoreTypeOK, Labels, BumpLabels
  <2>3. at' \in [Threads -> Nat]
    BY <1>0, OwnerIsThread DEF TerminateSlot, CoreTypeOK
  <2> QED
    BY <1>0, <2>1, <2>2, <2>3 DEF TerminateSlot, spawnVars, claimVars, CoreTypeOK
<1>2. WordTypeOK' /\ LocalTypeOK' /\ HostTypeOK'
  BY <1>0, PoolAssumption, StateFacts, SlotIsThread, Zenon
  DEF TerminateSlot, StoreAndNotify, NotifySlot, spawnVars, hostVars, localVars,
      scanVars, waitVars, historyVars, CoreTypeOK, WordTypeOK, LocalTypeOK, HostTypeOK,
      NotStarted
<1>5. QuietPc
  BY <1>0, SlotIsThread, OwnerIsThread
  DEF TerminateSlot, StoreAndNotify, NotifySlot, QuietPc, CoreTypeOK, Owning, Holding,
      Assigned, OwnerLabels, BumpLabels, IInv, PhaseInv
<1>6. QuietState
  <2>1. at[Owner] < inService
    BY <1>0, OwnerIsThread DEF TerminateSlot, IInv, ServiceInv, CoreTypeOK
  <2>2. \A u \in Slots : state'[u] \in {state[u], RETIRED}
    BY <1>0 DEF TerminateSlot, StoreAndNotify, CoreTypeOK
  <2>3. \A u \in Slots : u # at[Owner] => state'[u] = state[u]
    BY <1>0 DEF TerminateSlot, StoreAndNotify, CoreTypeOK
  <2>4. \A u \in Slots : u >= inService => u # at[Owner]
    BY <1>0, <2>1, SlotIsThread, OwnerIsThread DEF CoreTypeOK
  <2> QED
    BY <2>2, <2>3, <2>4 DEF QuietState
<1>7. QuietLocals
  BY <1>0, OwnerIsThread
  DEF TerminateSlot, StoreAndNotify, NotifySlot, spawnVars, localVars, scanVars,
      claimVars, QuietLocals, CoreTypeOK, IInv, ServiceInv, Owning, Holding, Assigned
<1> QED
  BY <1>1, <1>2, <1>5, <1>6, <1>7, QuietInv, Zenon DEF TypeOK

\* Stopping the workers only takes threads out of their spawns.
LEMMA TerminateWorkersStep ==
  ASSUME IInv, TerminateWorkers
  PROVE  IInv'
<1>0. CoreTypeOK /\ WordTypeOK /\ LocalTypeOK /\ HostTypeOK
  BY Zenon DEF IInv, TypeOK
<1>1. CoreTypeOK'
  BY <1>0, StateFacts, OwnerIsThread, SlotIsThread
  DEF TerminateWorkers, spawnVars, localVars, scanVars, claimVars, CoreTypeOK, Labels,
      BumpLabels, NoSlot
<1>2. WordTypeOK' /\ LocalTypeOK' /\ HostTypeOK'
  BY <1>0, PoolAssumption, StateFacts, SlotIsThread, Zenon
  DEF TerminateWorkers, spawnVars, hostVars, localVars, scanVars, waitVars,
      historyVars, CoreTypeOK, WordTypeOK, LocalTypeOK, HostTypeOK, NotStarted
<1>5. QuietPc /\ QuietState /\ QuietLocals
  BY <1>0, SlotIsThread, OwnerIsThread, StateFacts
  DEF TerminateWorkers, spawnVars, localVars, scanVars, claimVars, QuietPc, QuietState,
      QuietLocals, CoreTypeOK, Owning, Holding, Assigned, OwnerLabels, BumpLabels,
      IInv, PhaseInv, ServiceInv
<1> QED
  BY <1>1, <1>2, <1>5, QuietInv, Zenon DEF TypeOK

\* A step that changes nothing keeps the invariant.
LEMMA StutterStep == ASSUME IInv, UNCHANGED vars PROVE IInv'
<1>1. TypeOK'
  BY Zenon DEF IInv, vars, TypeOK, CoreTypeOK, WordTypeOK, LocalTypeOK, HostTypeOK
<1>2. QuietPc /\ QuietState /\ QuietLocals
  BY DEF IInv, ServiceInv, vars, QuietPc, QuietState, QuietLocals
<1> QED
  BY <1>1, <1>2, QuietInv, Zenon

\* Every step of the owner, a spawner or a worker keeps the invariant.
LEMMA NextStep == ASSUME IInv, [Next]_vars PROVE IInv'
<1>1. ASSUME NEW t \in Threads, bumpGeneration(t) PROVE IInv'
  BY <1>1, BumpGenerationStep
<1>2. ASSUME NEW t \in Threads, Spawn(t) PROVE IInv'
  BY <1>2, SpawnStep
<1>3. ASSUME NEW t \in Threads, ScanBegin(t) PROVE IInv'
  BY <1>3, ScanBeginStep
<1>4. ASSUME NEW t \in Threads, ScanCas(t) PROVE IInv'
  BY <1>4, ScanCasStep
<1>5. ASSUME NEW t \in Threads, ScanLive(t) PROVE IInv'
  BY <1>5, ScanLiveStep
<1>6. ASSUME NEW t \in Threads, ScanEnd(t) PROVE IInv'
  BY <1>6, ScanEndStep
<1>7. ASSUME NEW t \in Threads, LoadGeneration(t) PROVE IInv'
  BY <1>7, LoadGenerationStep
<1>8. ASSUME NEW t \in Threads, Tick(t) PROVE IInv'
  BY <1>8, TickStep
<1>9. ASSUME NEW t \in Threads, Decide(t) PROVE IInv'
  BY <1>9, DecideStep
<1>10. ASSUME NEW t \in Threads, WaitGeneration(t) PROVE IInv'
  BY <1>10, WaitGenerationStep
<1>11. ASSUME NEW t \in Threads, WaitTimedOut(t) PROVE IInv'
  BY <1>11, WaitTimedOutStep
<1>12. ASSUME NEW t \in Threads, reserve(t) PROVE IInv'
  BY <1>12, ReserveStep
<1>13. ASSUME NEW t \in Threads, MarkReserved(t) PROVE IInv'
  BY <1>13, MarkReservedStep
<1>14. ASSUME NEW t \in Threads, grow(t) PROVE IInv'
  BY <1>14, GrowStep
<1>15. ASSUME NEW t \in Threads, TakeTid(t) PROVE IInv'
  BY <1>15, TakeTidStep
<1>16. ASSUME NEW t \in Threads, UndoClaim(t) PROVE IInv'
  BY <1>16, UndoClaimStep
<1>17. ASSUME NEW t \in Threads, PutTid(t) PROVE IInv'
  BY <1>17, PutTidStep
<1>18. ASSUME NEW t \in Threads, Assign(t) PROVE IInv'
  BY <1>18, AssignStep
<1>19. ASSUME NEW t \in Threads, NotifyAssigned(t) PROVE IInv'
  BY <1>19, NotifyAssignedStep
<1>20. ASSUME NEW t \in Threads, CountSpawned(t) PROVE IInv'
  BY <1>20, CountSpawnedStep
<1>21. ASSUME NEW s \in Slots, Boot(s) PROVE IInv'
  BY <1>21, BootStep
<1>22. ASSUME NEW s \in Slots, ServeLoad(s) PROVE IInv'
  BY <1>22, ServeLoadStep
<1>23. ASSUME NEW s \in Slots, ServeWait(s) PROVE IInv'
  BY <1>23, ServeWaitStep
<1>24. ASSUME NEW s \in Slots, takeAssignment(s) PROVE IInv'
  BY <1>24, TakeAssignmentStep
<1>25. ASSUME NEW s \in Slots, finishRun(s) PROVE IInv'
  BY <1>25, FinishRunStep
<1>26. ASSUME NEW s \in Slots, TrapRun(s) PROVE IInv'
  BY <1>26, TrapRunStep
<1>27. ASSUME NEW s \in Slots, MessageRun(s) PROVE IInv'
  BY <1>27, MessageRunStep
<1>28. ASSUME NEW s \in Slots, MessageExit(s) PROVE IInv'
  BY <1>28, MessageExitStep
<1>29. ASSUME NEW s \in Slots, Die(s) PROVE IInv'
  BY <1>29, DieStep
<1>30. ASSUME NEW s \in Slots, ArmSlot(s) PROVE IInv'
  BY <1>30, ArmSlotStep
<1>31. ASSUME ArmDone PROVE IInv'
  BY <1>31, ArmDoneStep
<1>32. ASSUME NEW s \in Slots, NEW k, returnWorkerToIdle(s, k) PROVE IInv'
  BY <1>32, ReturnWorkerStep
<1>33. ASSUME NEW s \in Slots, retireWorker(s) PROVE IInv'
  BY <1>33, RetireWorkerStep
<1>34. ASSUME terminateAll PROVE IInv'
  BY <1>34, TerminateAllStep
<1>35. ASSUME TerminateSlot PROVE IInv'
  BY <1>35, TerminateSlotStep
<1>36. ASSUME TerminateWorkers PROVE IInv'
  BY <1>36, TerminateWorkersStep
<1>37. ASSUME NEW m \in exits, returnWorkerToIdle(m[1], m[2]) PROVE IInv'
  <2>1. m[1] \in Slots
    BY DEF IInv, TypeOK, HostTypeOK
  <2> QED
    BY <1>37, <2>1, ReturnWorkerStep
<1> QED
  BY StutterStep, Zenon, <1>1, <1>2, <1>3, <1>4, <1>5, <1>6, <1>7, <1>8, <1>9, <1>10,
      <1>11, <1>12,
     <1>13, <1>14, <1>15, <1>16, <1>17, <1>18, <1>19, <1>20, <1>21, <1>22,
     <1>23, <1>24, <1>25, <1>26, <1>27, <1>28, <1>29, <1>30, <1>31, <1>32,
     <1>33, <1>34, <1>35, <1>36, <1>37
  DEF Next, Claiming, Assigning, Serving, EventLoop

\* Type correctness for every capacity: H_SLOTS never passes H_CAPACITY, a
\* published thread id is in 1 .. MAX_TID, and no local leaves its range.
THEOREM PoolTyping == Spec => []TypeOK
<1>1. Init => IInv
  BY InitInv
<1>2. IInv /\ [Next]_vars => IInv'
  BY NextStep
<1>3. IInv => TypeOK
  BY DEF IInv
<1> QED
  BY <1>1, <1>2, <1>3, PTL DEF Spec

\* Claims are exclusive for every capacity and any number of spawning threads:
\* the compare-exchange of scan, the reservation of reserve and the states the
\* other steps leave alone keep a held slot with the spawner that holds it.
THEOREM PoolClaims == Spec => []ClaimIsExclusive
<1>1. Init => IInv
  BY InitInv
<1>2. IInv /\ [Next]_vars => IInv'
  BY NextStep
<1>3. IInv => ClaimIsExclusive
  BY DEF IInv, OwnInv, ExclusiveInv, ClaimIsExclusive, Owning, Holding
<1> QED
  BY <1>1, <1>2, <1>3, PTL DEF Spec
=============================================================================

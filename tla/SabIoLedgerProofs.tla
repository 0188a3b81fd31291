------------------------- MODULE SabIoLedgerProofs --------------------------
(***************************************************************************)
(* The ring implements the ledger of requests, for any number of clients,  *)
(* slots, requests and deaths, as long as no slot is reclaimed: a request  *)
(* runs at most once and only while its client waits for it, and a client  *)
(* is told "served" only of a request that ran.                            *)
(***************************************************************************)
EXTENDS SabIoChannelProofs

\* c has submitted the request in slot i and has not read an answer; its
\* thread may be gone.
Waits(c, i) ==
  slot[c] = i /\ pc[c] \in {"poll", "gone"} /\ told[c] < sent[c] /\ body[i] = Own(c)

\* Between writing its request and reading the status a client is one behind.
CountInv(c) ==
  /\ told[c] <= sent[c]
  /\ pc[c] \in {"idle", "scan", "full", "fill", "release"} => told[c] = sent[c]
  /\ pc[c] \in {"seq", "submit", "poll", "check", "read"} => told[c] + 1 = sent[c]
  /\ pc[c] \in {"seq", "submit"} => executed[Own(c)] = 0
  /\ pc[c] \in {"poll", "check", "read"} /\ state[slot[c]] = DONE /\ status[slot[c]] = Own(c) => executed[Own(c)] = 1
  /\ \A n \in 1 .. MaxRequests : n > sent[c] => executed[<<c, n>>] = 0

\* An open slot has a client that waits, and what is not taken up, or taken up
\* and not finished, has not run.
OpenInv(i) ==
  /\ state[i] \in {PENDING, SERVICING} => \E c \in Clients : Waits(c, i)
  /\ state[i] = PENDING \/ i \in claimed => executed[body[i]] = 0

LedgerInv ==
  /\ executed \in [Requests -> Nat] /\ told \in [Clients -> Nat]
  /\ \A c \in Clients : CountInv(c)
  /\ \A i \in Slots : OpenInv(i)
  /\ cpc[Server] \in Writing => executed[cstatus[Server]] = 1

\* The ledger's view of the ring.
Told == [c \in Clients |-> Outcome(c)]
Ran == {r \in Requests : executed[r] = 1}

-----------------------------------------------------------------------------
\* A request is not the supervisor's status.
LEMMA OwnIsNotDead == ASSUME NEW c \in Clients PROVE Own(c) # Dead
  BY Zenon DEF Own, Dead

\* Two requests of different clients differ.
LEMMA OwnDiffers == ASSUME NEW c \in Clients, NEW d \in Clients, c # d PROVE Own(c) # Own(d)
  BY Zenon DEF Own

\* A step that sends, runs and tells nothing is a stutter of the ledger.
LEMMA Stutters ==
  ASSUME UNCHANGED <<sent, told, answer, executed>>
  PROVE UNCHANGED Ledger!ledger
  BY DEF Ledger!ledger, Outcome

\* A client that moves on without touching a slot keeps the counts, unless it
\* leaves an open slot behind.
LEMMA CountsKept ==
  ASSUME RingInv, LedgerInv, UNCHANGED <<slot, sent, told, executed, body, status>>,
         UNCHANGED <<claimed, cpc, cstatus>>, state' = state,
         NEW c \in Clients, pc' = [pc EXCEPT ![c] = pc'[c]], CountInv(c)',
         pc[c] \in {"poll", "gone"} => pc'[c] \in {"gone"} \/ state[slot[c]] \notin {PENDING, SERVICING}
  PROVE LedgerInv'
<1>1. \A d \in Clients : d # c => pc'[d] = pc[d]
  BY Zenon DEF RingInv, RingType
<1>2. \A d \in Clients : CountInv(d)'
  BY Zenon, <1>1 DEF LedgerInv, CountInv, Own
<1>3. ASSUME NEW i \in Slots PROVE OpenInv(i)'
  BY <1>1 DEF LedgerInv, OpenInv, Waits, Own
<1> QED BY Zenon, <1>2, <1>3 DEF LedgerInv

-----------------------------------------------------------------------------
(* Clients.                                                                *)

\* Looking for a slot, waiting and dying.
LEMMA LookSteps ==
  ASSUME RingInv, LedgerInv, NEW c \in Clients,
         BeginScan(c) \/ PollState(c) \/ PollSeq(c) \/ ClientDies(c)
  PROVE LedgerInv' /\ UNCHANGED Ledger!ledger
<1>1. UNCHANGED <<sent, told, answer, executed, slot, state, body, status, claimed, cpc, cstatus>>
  BY Zenon DEF BeginScan, PollState, PollSeq, ClientDies, words, serverVars, completeVars
<1>2. pc' = [pc EXCEPT ![c] = pc'[c]]
  BY Zenon DEF RingInv, RingType, BeginScan, PollState, PollSeq, ClientDies, Goto
<1>3. pc[c] \in {"poll", "gone"} => pc'[c] \in {"gone"} \/ state[slot[c]] \notin {PENDING, SERVICING}
  BY DEF RingInv, RingType, BeginScan, PollState, PollSeq, ClientDies, Goto, PENDING, SERVICING, DONE
<1>4. CountInv(c)'
  BY <1>1 DEF RingInv, RingType, LedgerInv, CountInv, Own, BeginScan, PollState, PollSeq, ClientDies, Goto
<1>5. LedgerInv'
  BY Zenon, <1>1, <1>2, <1>3, <1>4, CountsKept
<1> QED BY Zenon, <1>1, <1>5, Stutters

\* Reading the status: the client is told, and "served" only if it was.
LEMMA TellStep ==
  ASSUME RingInv, LedgerInv, NEW c \in Clients, ReadStatus(c)
  PROVE LedgerInv' /\ (Ledger!Tell(c, "served") \/ Ledger!Tell(c, "lost"))
<1>1. UNCHANGED <<sent, executed, slot, state, body, status, claimed, cpc, cstatus>>
  BY Zenon DEF ReadStatus, words, serverVars, completeVars
<1>2. /\ pc[c] = "read" /\ pc' = [pc EXCEPT ![c] = "release"] /\ told' = [told EXCEPT ![c] = @ + 1]
      /\ answer' = [answer EXCEPT ![c] = status[slot[c]]]
  BY Zenon DEF ReadStatus, Goto
<1>3. told[c] \in Nat /\ sent[c] \in 0 .. MaxRequests /\ told[c] + 1 = sent[c]
  BY Zenon, <1>2 DEF RingInv, RingType, LedgerInv, CountInv
<1>4. state[slot[c]] = DONE /\ status[slot[c]] \in {Own(c), Dead} /\ (status[slot[c]] = Own(c) => executed[Own(c)] = 1)
  BY Zenon, <1>2 DEF RingInv, ClientInv, LedgerInv, CountInv
<1>5. \A d \in Clients : d # c => pc'[d] = pc[d] /\ told'[d] = told[d] /\ answer'[d] = answer[d]
  BY Zenon, <1>2 DEF RingInv, RingType, LedgerInv
<1>6. pc'[c] = "release" /\ told'[c] = sent[c] /\ answer'[c] = status[slot[c]] /\ told' \in [Clients -> Nat]
  BY <1>2, <1>3 DEF RingInv, RingType, LedgerInv
<1>7. LedgerInv'
  <2>1. ASSUME NEW d \in Clients PROVE CountInv(d)'
    BY SMTT(30), <1>1, <1>3, <1>5, <1>6 DEF LedgerInv, CountInv, Own
  <2>2. ASSUME NEW i \in Slots PROVE OpenInv(i)'
    <3>1. \A d \in Clients : Waits(d, i) => Waits(d, i)'
      BY Zenon, <1>1, <1>2, <1>5 DEF Waits, Own
    <3> QED BY Zenon, <1>1, <3>1 DEF LedgerInv, OpenInv
  <2> QED BY Zenon, <1>1, <1>6, <2>1, <2>2 DEF LedgerInv
<1>8. Own(c) \in Requests
  BY <1>3, RingAssumption DEF Own, Requests
<1>9. \A d \in Clients : d # c => Outcome(d)' = Outcome(d)
  BY Zenon, <1>5 DEF Outcome
<1>10. CASE status[slot[c]] = Dead
  <2>1. Outcome(c)' = "lost"
    BY <1>3, <1>6, <1>10 DEF Outcome
  <2>2. Told' = [Told EXCEPT ![c] = "lost"]
    BY Zenon, <1>9, <2>1 DEF Told
  <2> QED BY <1>1, <1>2, <1>3, <1>7, <2>2 DEF Ledger!Tell, Told
<1>11. CASE status[slot[c]] = Own(c)
  <2>1. Outcome(c)' = "served"
    BY <1>3, <1>6, <1>11, OwnIsNotDead DEF Outcome
  <2>2. Told' = [Told EXCEPT ![c] = "served"]
    BY Zenon, <1>9, <2>1 DEF Told
  <2>3. Own(c) \in Ran
    BY Zenon, <1>4, <1>8, <1>11 DEF Ran
  <2> QED BY <1>1, <1>2, <1>3, <1>7, <2>2, <2>3 DEF Ledger!Tell, Told, Ran, Own
<1> QED BY Zenon, <1>4, <1>10, <1>11

\* Claiming a slot opens nothing: c was not waiting.
LEMMA ClaimsNothing ==
  ASSUME RingInv, LedgerInv, NEW c \in Clients, TryClaim(c)
  PROVE LedgerInv' /\ UNCHANGED Ledger!ledger
<1>1. UNCHANGED <<sent, told, answer, executed, body, status, claimed, cpc, cstatus>> /\ pc[c] = "scan"
  BY Zenon DEF TryClaim, serverVars, completeVars
<1>2. \A d \in Clients : d # c => pc'[d] = pc[d] /\ slot'[d] = slot[d]
  BY Zenon DEF RingInv, RingType, TryClaim, Goto
<1>3. pc'[c] \in {"scan", "full", "fill"}
  BY Zenon DEF RingInv, RingType, TryClaim, Goto
<1>4. \A j \in Slots : state'[j] = state[j] \/ (state[j] = FREE /\ state'[j] = IDLE)
  BY Zenon DEF RingInv, RingType, TryClaim, claimable
<1>5. ASSUME NEW d \in Clients PROVE CountInv(d)'
  <2>1. CASE d = c
    BY Zenon, <1>1, <1>3, <2>1 DEF LedgerInv, CountInv, Own
  <2>2. CASE d # c
    <3>1. slot[d] \in Slots /\ (state'[slot[d]] = DONE => state[slot[d]] = DONE)
      BY <1>4 DEF RingInv, RingType, IDLE, DONE
    <3> QED BY Zenon, <1>1, <1>2, <2>2, <3>1 DEF LedgerInv, CountInv, Own
  <2> QED BY Zenon, <2>1, <2>2
<1>6. ASSUME NEW i \in Slots PROVE OpenInv(i)'
  <2>1. \A d \in Clients : Waits(d, i) => Waits(d, i)'
    BY Zenon, <1>1, <1>2 DEF Waits, Own
  <2>2. state'[i] \in {PENDING, SERVICING} => state'[i] = state[i]
    BY <1>4 DEF IDLE, PENDING, SERVICING
  <2> QED BY Zenon, <1>1, <2>1, <2>2 DEF LedgerInv, OpenInv
<1>7. LedgerInv'
  BY Zenon, <1>1, <1>5, <1>6 DEF LedgerInv
<1> QED BY Zenon, <1>1, <1>7, Stutters

\* A step of the holder c on its own slot, which is not open, leaves every other
\* client's count and every other slot as they are.
LEMMA OthersKept ==
  ASSUME RingInv, LedgerInv, NEW c \in Clients, pc[c] \in Holding \ {"poll"},
         UNCHANGED <<slot, told, executed, claimed, cpc, cstatus>>,
         \A d \in Clients : d # c => pc'[d] = pc[d] /\ sent'[d] = sent[d],
         \A j \in Slots : j # slot[c] => state'[j] = state[j] /\ body'[j] = body[j] /\ status'[j] = status[j],
         CountInv(c)', OpenInv(slot[c])'
  PROVE LedgerInv'
<1>1. ASSUME NEW d \in Clients, d # c PROVE CountInv(d)'
  <2>1. pc[d] \in Holding => slot[d] # slot[c] /\ slot[d] \in Slots
    BY Zenon, <1>1 DEF RingInv, RingType, SlotIsOwned
  <2>2. {"poll", "check", "read"} \subseteq Holding
    BY Zenon DEF Holding
  <2>3. pc[d] \in {"poll", "check", "read"} => state'[slot[d]] = state[slot[d]] /\ status'[slot[d]] = status[slot[d]]
    BY Zenon, <2>1, <2>2
  <2>4. pc'[d] = pc[d] /\ sent'[d] = sent[d] /\ told'[d] = told[d] /\ slot'[d] = slot[d] /\ Own(d)' = Own(d)
    BY Zenon, <1>1 DEF Own
  <2> QED BY <2>3, <2>4 DEF LedgerInv, CountInv
<1>2. ASSUME NEW i \in Slots, i # slot[c] PROVE OpenInv(i)'
  <2>1. pc[c] \notin {"poll", "gone"}
    BY Zenon DEF Holding
  <2>2. \A d \in Clients : Waits(d, i) => Waits(d, i)'
    BY Zenon, <1>2, <2>1 DEF Waits, Own
  <2> QED BY <1>2, <2>2 DEF LedgerInv, OpenInv
<1> QED BY Zenon, <1>1, <1>2 DEF LedgerInv

\* writeRequest sends the next request of the client.
LEMMA SendStep ==
  ASSUME RingInv, LedgerInv, NEW c \in Clients, WriteRequest(c)
  PROVE LedgerInv' /\ Ledger!Send(c)
<1>1. /\ pc[c] = "fill" /\ pc'[c] = "seq" /\ sent' = [sent EXCEPT ![c] = @ + 1] /\ sent'[c] = sent[c] + 1
      /\ UNCHANGED <<state, slot, told, answer, executed, claimed, cpc, cstatus>>
  BY Zenon DEF RingInv, RingType, WriteRequest, Goto, serverVars, completeVars
<1>2. /\ \A d \in Clients : d # c => pc'[d] = pc[d] /\ sent'[d] = sent[d]
      /\ \A j \in Slots : j # slot[c] => state'[j] = state[j] /\ body'[j] = body[j] /\ status'[j] = status[j]
  BY Zenon DEF RingInv, RingType, WriteRequest, Goto
<1>3. told[c] = sent[c] /\ sent[c] \in Nat /\ sent[c] < MaxRequests /\ slot[c] \in Slots
  BY Zenon, <1>1 DEF RingInv, RingType, LedgerInv, CountInv
<1>4. sent[c] + 1 \in 1 .. MaxRequests /\ executed[<<c, sent[c] + 1>>] = 0
  BY <1>3, RingAssumption DEF LedgerInv, CountInv
<1>5. CountInv(c)'
  <2>1. \A n \in 1 .. MaxRequests : n > sent'[c] => executed'[<<c, n>>] = 0
    <3>1. \A n \in 1 .. MaxRequests : n > sent[c] => executed[<<c, n>>] = 0
      BY Zenon DEF LedgerInv, CountInv
    <3> QED BY <1>1, <1>3, <3>1, RingAssumption
  <2>2. Own(c)' = <<c, sent[c] + 1>> /\ executed' = executed /\ told' = told
    BY Zenon, <1>1 DEF Own
  <2>3. told'[c] <= sent'[c] /\ told'[c] + 1 = sent'[c]
    BY SMTT(30), <1>1, <1>3, <2>2
  <2> QED BY Zenon, <1>1, <1>4, <2>1, <2>2, <2>3 DEF CountInv
<1>6. state[slot[c]] = IDLE /\ slot[c] \notin claimed
  BY <1>1 DEF RingInv, ClientInv, ServeInv, IDLE, SERVICING
<1>7. OpenInv(slot[c])'
  BY <1>1, <1>6 DEF OpenInv, IDLE, PENDING, SERVICING
<1>8. pc[c] \in Holding \ {"poll"}
  BY Zenon, <1>1 DEF Holding
<1>9. LedgerInv'
  BY Zenon, <1>1, <1>2, <1>5, <1>7, <1>8, OthersKept
<1>10. Ledger!Send(c)
  BY <1>1, <1>3 DEF Ledger!Send, Outcome
<1> QED BY Zenon, <1>9, <1>10

\* The sequence word, the submission, which opens the slot, and the release.
LEMMA SubmitSteps ==
  ASSUME RingInv, LedgerInv, NEW c \in Clients, StoreSeq(c) \/ Submit(c) \/ releaseSlot(c)
  PROVE LedgerInv' /\ UNCHANGED Ledger!ledger
<1>1. UNCHANGED <<slot, sent, told, answer, executed, body, status, claimed, cpc, cstatus>>
  BY Zenon DEF StoreSeq, Submit, releaseSlot, serverVars, completeVars
<1>2. /\ \A d \in Clients : d # c => pc'[d] = pc[d]
      /\ \A j \in Slots : j # slot[c] => state'[j] = state[j]
      /\ pc[c] \in Holding \ {"poll"} /\ slot[c] \in Slots
  BY Zenon DEF RingInv, RingType, StoreSeq, Submit, releaseSlot, Goto, Holding
<1>3. slot[c] \notin claimed
  BY DEF RingInv, ClientInv, ServeInv, StoreSeq, Submit, releaseSlot, IDLE, SERVICING, DONE
<1>4. CountInv(c)' /\ OpenInv(slot[c])'
  <2>1. CASE StoreSeq(c)
    <3>1. pc[c] = "seq" /\ pc'[c] = "submit" /\ state' = state /\ state[slot[c]] = IDLE
      BY Zenon, <2>1 DEF RingInv, RingType, ClientInv, StoreSeq, Goto
    <3> QED BY <1>1, <1>3, <3>1 DEF LedgerInv, CountInv, OpenInv, Own, IDLE, PENDING, SERVICING
  <2>2. CASE Submit(c)
    <3>1. pc[c] = "submit" /\ pc'[c] = "poll" /\ state'[slot[c]] = PENDING /\ body[slot[c]] = Own(c)
      BY Zenon, <1>2, <2>2 DEF RingInv, RingType, ClientInv, Submit, Goto
    <3>2. told[c] < sent[c] /\ executed[Own(c)] = 0
      BY <3>1 DEF RingInv, RingType, LedgerInv, CountInv
    <3>3. Waits(c, slot[c])'
      BY Zenon, <1>1, <3>1, <3>2 DEF Waits, Own
    <3>4. CountInv(c)'
      <4>1. state'[slot[c]] # DONE /\ slot' = slot /\ Own(c)' = Own(c)
        BY <1>1, <3>1 DEF PENDING, DONE, Own
      <4>2. CountInv(c)
        BY Zenon DEF LedgerInv
      <4> QED BY Zenon, <1>1, <3>1, <4>1, <4>2 DEF CountInv
    <3>5. OpenInv(slot[c])'
      BY Zenon, <1>1, <3>1, <3>2, <3>3 DEF OpenInv
    <3> QED BY Zenon, <3>4, <3>5
  <2>3. CASE releaseSlot(c)
    <3>1. pc[c] = "release" /\ pc'[c] = "idle" /\ state'[slot[c]] = FREE
      BY <1>2, <2>3 DEF RingInv, RingType, releaseSlot, Goto
    <3>2. CountInv(c)'
      <4>1. CountInv(c)
        BY DEF LedgerInv
      <4> QED BY Zenon, <1>1, <3>1, <4>1 DEF CountInv
    <3>3. OpenInv(slot[c])'
      BY <1>1, <1>3, <3>1 DEF OpenInv, FREE, PENDING, SERVICING
    <3> QED BY <3>2, <3>3
  <2> QED BY Zenon, <2>1, <2>2, <2>3
<1>5. LedgerInv'
  BY Zenon, <1>1, <1>2, <1>4, OthersKept
<1> QED BY Zenon, <1>1, <1>5, Stutters

-----------------------------------------------------------------------------
(* The server and the supervisor.                                          *)

\* Steps that touch no client: the slots that stay open keep their clients, and
\* a status that becomes visible as served is of a request that ran.
LEMMA QuietStep ==
  ASSUME RingInv, LedgerInv, UNCHANGED <<pc, slot, sent, told, answer, executed, body>>,
         \A j \in Slots : state'[j] \in {PENDING, SERVICING} => state[j] \in {PENDING, SERVICING},
         \A j \in Slots : state'[j] = PENDING \/ j \in claimed' => state[j] = PENDING \/ j \in claimed,
         \A j \in Slots : state'[j] = DONE => \/ state[j] = DONE /\ status'[j] = status[j]
                                            \/ status'[j] = Dead \/ executed[status'[j]] = 1,
         cpc'[Server] \in Writing => executed[cstatus'[Server]] = 1
  PROVE LedgerInv' /\ UNCHANGED Ledger!ledger
<1>1. ASSUME NEW c \in Clients PROVE CountInv(c)'
  <2>1. slot[c] \in Slots
    BY Zenon DEF RingInv, RingType
  <2>2. Own(c)' = Own(c) /\ Own(c) # Dead
    BY Zenon, OwnIsNotDead DEF Own
  <2> QED BY <2>1, <2>2 DEF LedgerInv, CountInv
<1>2. ASSUME NEW i \in Slots PROVE OpenInv(i)'
  <2>1. \A c \in Clients : Waits(c, i)' <=> Waits(c, i)
    BY Zenon DEF Waits, Own
  <2> QED BY Zenon, <2>1 DEF LedgerInv, OpenInv
<1>3. LedgerInv'
  BY Zenon, <1>1, <1>2 DEF LedgerInv
<1> QED BY Zenon, <1>3, Stutters

\* completeSabIoSlot.
LEMMA CompleteSteps ==
  ASSUME RingInv, LedgerInv, NEW a \in Completers, Complete(a)
  PROVE LedgerInv' /\ UNCHANGED Ledger!ledger
<1>0. cpc[a] \in Writing /\ Server \in Completers /\ Completers = {Server, Supervisor}
  BY Zenon DEF Complete, PutStatus, LoadSeq, PutDoneSeq, PutDone, Writing, Completers
<1>1. UNCHANGED <<pc, slot, sent, told, answer, executed, body, claimed, cslot, cstatus>>
  BY Zenon DEF Complete, PutStatus, LoadSeq, PutDoneSeq, PutDone, clientVars, serverVars, words
<1>2. cslot[a] \in Slots /\ state[cslot[a]] \in {PENDING, SERVICING}
  BY Zenon, <1>0, OneWriter
<1>3. cpc'[Server] \in Writing => cpc[Server] \in Writing
  BY Zenon, <1>0 DEF RingInv, RingType, Complete, PutStatus, LoadSeq, PutDoneSeq, PutDone, Writing
<1>4. \A j \in Slots : state'[j] = state[j] \/ (j = cslot[a] /\ state'[j] = DONE)
  BY Zenon DEF RingInv, RingType, Complete, PutStatus, LoadSeq, PutDoneSeq, PutDone, words
<1>5. \A j \in Slots : j # cslot[a] => status'[j] = status[j]
  BY Zenon DEF RingInv, RingType, Complete, PutStatus, LoadSeq, PutDoneSeq, PutDone, words
<1>6. state'[cslot[a]] = DONE => status'[cslot[a]] = cstatus[a]
  <2>1. CASE PutDone(a)
    <3>1. cpc[a] \in Writing \ {"status"} /\ status' = status
      BY Zenon, <2>1 DEF PutDone, Writing
    <3> QED BY Zenon, <3>1 DEF RingInv, ServeInv
  <2>2. CASE ~PutDone(a)
    BY <1>2, <2>2 DEF Complete, PutStatus, LoadSeq, PutDoneSeq, words, PENDING, SERVICING, DONE
  <2> QED BY Zenon, <2>1, <2>2
<1>7. cstatus[a] = Dead \/ executed[cstatus[a]] = 1
  BY Zenon, <1>0 DEF RingInv, ServeInv, LedgerInv
<1>8. cpc'[Server] \in Writing => executed[cstatus'[Server]] = 1
  BY Zenon, <1>1, <1>3 DEF LedgerInv
<1>9. \A j \in Slots : state'[j] \in {PENDING, SERVICING} => state[j] = state'[j]
  BY <1>4 DEF PENDING, SERVICING, DONE
<1>10. \A j \in Slots : state'[j] = DONE => \/ state[j] = DONE /\ status'[j] = status[j]
                                         \/ status'[j] = Dead \/ executed[status'[j]] = 1
  BY Zenon, <1>4, <1>5, <1>6, <1>7
<1> QED BY Zenon, <1>1, <1>8, <1>9, <1>10, QuietStep

\* scanSlots and makeJob, deaths, and the supervisor's steps: nothing runs.
LEMMA IdleSteps ==
  ASSUME RingInv, LedgerInv,
         makeJob \/ ServerDies \/ Kill \/ Supervise \/ \E i \in Slots : ScanSlot(i)
  PROVE LedgerInv' /\ UNCHANGED Ledger!ledger
<1>0. Server \in Completers /\ Supervisor \in Completers /\ Server # Supervisor
  BY Zenon DEF Completers, Server, Supervisor
<1>1. CASE \E i \in Slots : ScanSlot(i)
  <2>1. PICK i \in Slots : ScanSlot(i)
    BY Zenon, <1>1
  <2>2. /\ UNCHANGED <<pc, slot, sent, told, answer, executed, body, status>>
        /\ claimed' = claimed \cup {i} /\ state[i] = PENDING
        /\ \A j \in Slots : state'[j] = IF j = i THEN SERVICING ELSE state[j]
        /\ cpc'[Server] \notin Writing
    BY <1>0, <2>1 DEF RingInv, RingType, ScanSlot, clientVars, Writing
  <2>3. \A j \in Slots : state'[j] = PENDING \/ j \in claimed' => state[j] = PENDING \/ j \in claimed
    BY Zenon, <2>2 DEF PENDING, SERVICING
  <2>4. \A j \in Slots : state'[j] = DONE => state[j] = DONE /\ status'[j] = status[j]
    BY <2>2 DEF SERVICING, DONE
  <2>5. \A j \in Slots : state'[j] \in {PENDING, SERVICING} => state[j] \in {PENDING, SERVICING}
    BY Zenon, <2>2
  <2> QED BY Zenon, <2>2, <2>3, <2>4, <2>5, QuietStep
<1>2. CASE makeJob \/ ServerDies \/ Kill \/ Supervise
  <2>1. UNCHANGED <<pc, slot, sent, told, answer, executed, body, status, state>>
    BY Zenon, <1>2
       DEF makeJob, ServerDies, Kill, Supervise, HandleDeath, SweepSlot, SweepEnd, ServerRestarts, words, clientVars
  <2>2. claimed' \subseteq claimed
    BY Zenon, <1>2
       DEF makeJob, ServerDies, Kill, Forget, Supervise, HandleDeath, SweepSlot, SweepEnd, ServerRestarts, serverVars
  <2>3. cpc'[Server] \in Writing => cpc[Server] \in Writing /\ cstatus'[Server] = cstatus[Server]
    <3>1. CASE makeJob \/ ServerDies \/ Kill
      BY Zenon, <1>0, <3>1 DEF RingInv, RingType, makeJob, ServerDies, Kill, Forget, Writing
    <3>2. CASE Supervise
      BY Zenon, <1>0, <3>2
         DEF RingInv, RingType, Supervise, HandleDeath, SweepSlot, StartComplete, SweepEnd, ServerRestarts,
                        completeVars
    <3> QED BY Zenon, <1>2, <3>1, <3>2
  <2>4. cpc'[Server] \in Writing => executed[cstatus'[Server]] = 1
    BY Zenon, <2>3 DEF LedgerInv
  <2> QED BY Zenon, <2>1, <2>2, <2>4, QuietStep
<1> QED BY Zenon, <1>1, <1>2

\* A job ends: the request of a client that waits takes effect, the first time.
LEMMA RunStep ==
  ASSUME RingInv, LedgerInv, NEW i \in Slots, Execute(i)
  PROVE LedgerInv' /\ \E c \in Clients : Ledger!Run(c)
<1>0. Server \in Completers
  BY Zenon DEF Completers
<1>1. /\ i \in claimed /\ state[i] = SERVICING /\ job[i] = body[i]
      /\ UNCHANGED <<pc, slot, sent, told, answer, body, status, state>>
      /\ claimed' = claimed \ {i} /\ cstatus'[Server] = body[i]
      /\ executed' = [executed EXCEPT ![body[i]] = @ + 1]
  BY Zenon, <1>0 DEF RingInv, RingType, ServeInv, Execute, StartComplete, serverUp, words, clientVars
<1>2. PICK c \in Clients : Waits(c, i)
  BY Zenon, <1>1 DEF LedgerInv, OpenInv
<1>3. body[i] = Own(c) /\ slot[c] = i /\ pc[c] \in {"poll", "gone"} /\ told[c] < sent[c] /\ executed[Own(c)] = 0
  BY Zenon, <1>1, <1>2 DEF Waits, LedgerInv, OpenInv
<1>4. Own(c) \in Requests
  BY <1>3, RingAssumption DEF RingInv, RingType, LedgerInv, Own, Requests
<1>5. executed' \in [Requests -> Nat] /\ executed'[Own(c)] = 1
      /\ \A r \in Requests : r # Own(c) => executed'[r] = executed[r]
  BY <1>1, <1>3, <1>4 DEF LedgerInv
<1>6. ASSUME NEW d \in Clients PROVE CountInv(d)'
  <2>0. CountInv(d) /\ Own(d)' = Own(d)
    BY Zenon, <1>1 DEF LedgerInv, Own
  <2>1. \A n \in 1 .. MaxRequests : n > sent[d] => executed'[<<d, n>>] = 0
    <3> SUFFICES ASSUME NEW n \in 1 .. MaxRequests, n > sent[d] PROVE executed'[<<d, n>>] = 0
      OBVIOUS
    <3>1. <<d, n>> \in Requests /\ <<d, n>> # Own(c)
      BY DEF Requests, Own, RingInv, RingType
    <3> QED BY Zenon, <1>5, <2>0, <3>1 DEF CountInv
  <2>2. CASE d = c
    <3>1. (pc[c] = "poll" /\ state[slot[c]] # DONE) \/ pc[c] = "gone"
      BY <1>1, <1>3 DEF SERVICING, DONE
    <3> QED BY Zenon, <1>1, <1>5, <2>0, <2>1, <2>2, <3>1 DEF CountInv
  <2>3. CASE d # c
    <3>1. Own(d) # Own(c)
      BY Zenon, <2>3, OwnDiffers
    <3>2. sent[d] \in 1 .. MaxRequests => Own(d) \in Requests
      BY Zenon DEF Own, Requests
    <3>3. told[d] + 1 = sent[d] => sent[d] \in 1 .. MaxRequests
      BY RingAssumption DEF RingInv, RingType, LedgerInv
    <3>4. told[d] + 1 = sent[d] => executed'[Own(d)] = executed[Own(d)]
      BY Zenon, <1>5, <3>1, <3>2, <3>3
    <3> QED BY Zenon, <1>1, <2>0, <2>1, <3>4 DEF CountInv
  <2> QED BY Zenon, <2>2, <2>3
<1>7. ASSUME NEW j \in Slots PROVE OpenInv(j)'
  <2>1. \A d \in Clients : Waits(d, j)' <=> Waits(d, j)
    BY Zenon, <1>1 DEF Waits, Own
  <2>2. state[j] = PENDING \/ j \in claimed' => executed'[body[j]] = 0
    <3> SUFFICES ASSUME state[j] = PENDING \/ j \in claimed' PROVE executed'[body[j]] = 0
      OBVIOUS
    <3>1. j # i /\ executed[body[j]] = 0 /\ state[j] \in {PENDING, SERVICING}
      BY <1>1 DEF RingInv, ServeInv, LedgerInv, OpenInv, PENDING, SERVICING
    <3>2. PICK d \in Clients : Waits(d, j)
      BY Zenon, <3>1 DEF LedgerInv, OpenInv
    <3>3. d # c /\ body[j] = Own(d) /\ told[d] < sent[d]
      BY Zenon, <1>3, <3>1, <3>2 DEF Waits
    <3>4. Own(d) \in Requests /\ Own(d) # Own(c)
      BY <3>3, OwnDiffers, RingAssumption DEF RingInv, RingType, LedgerInv, Own, Requests
    <3> QED BY Zenon, <1>5, <3>1, <3>3, <3>4
  <2> QED BY Zenon, <1>1, <2>1, <2>2 DEF LedgerInv, OpenInv
<1>8. LedgerInv'
  BY Zenon, <1>1, <1>3, <1>5, <1>6, <1>7, <1>0 DEF LedgerInv
<1>9. Own(c) \notin Ran /\ Ran' = Ran \cup {Own(c)}
  BY <1>3, <1>4, <1>5 DEF Ran
<1>10. Ledger!Run(c)
  BY <1>1, <1>3, <1>9 DEF Ledger!Run, Ran, Own, Outcome
<1> QED BY Zenon, <1>8, <1>10

-----------------------------------------------------------------------------
\* Every step of the ring is a step of the ledger or none.
LEMMA LedgerStep ==
  ASSUME ~MayReclaim, RingInv, LedgerInv, [Next]_vars
  PROVE LedgerInv' /\ [Ledger!Next]_(Ledger!ledger)
<1>1. CASE UNCHANGED vars
  <2>1. /\ UNCHANGED <<pc, slot, sent, told, answer, executed, body>>
        /\ UNCHANGED <<state, status, claimed, cpc, cstatus>>
    BY Zenon, <1>1 DEF vars, words, clientVars, serverVars, completeVars
  <2>2. cpc'[Server] \in Writing => executed[cstatus'[Server]] = 1
    BY Zenon, <2>1 DEF LedgerInv
  <2> QED BY Zenon, <2>1, <2>2, QuietStep
<1>2. ASSUME NEW c \in Clients, Client(c) \/ ClientDies(c) PROVE LedgerInv' /\ [Ledger!Next]_(Ledger!ledger)
  BY Zenon, <1>2, LookSteps, TellStep, ClaimsNothing, SendStep, SubmitSteps DEF Client, Ledger!Next
<1>3. ASSUME NEW a \in Completers, Complete(a) PROVE LedgerInv' /\ [Ledger!Next]_(Ledger!ledger)
  BY Zenon, <1>3, CompleteSteps
<1>4. CASE makeJob \/ ServerDies \/ Supervise \/ Kill \/ \E i \in Slots : ScanSlot(i)
  BY Zenon, <1>4, IdleSteps
<1>5. ASSUME NEW i \in Slots, Execute(i) PROVE LedgerInv' /\ [Ledger!Next]_(Ledger!ledger)
  BY Zenon, <1>5, RunStep DEF Ledger!Next
<1>6. ~reclaimSabIoSlots /\ \A n : ~ReclaimBegin(n)
  BY Zenon DEF RingInv, RingType, reclaimSabIoSlots, ReclaimInstance, ReclaimCas, ReclaimBegin
<1> QED BY Zenon, <1>1, <1>2, <1>3, <1>4, <1>5, <1>6 DEF Next, Serve

\* The zeroed ring is the empty ledger.
LEMMA LedgerInit == Init => LedgerInv /\ Ledger!Init
<1> SUFFICES ASSUME Init PROVE LedgerInv /\ Ledger!Init
  OBVIOUS
<1>1. \A r \in Requests : executed[r] = 0
  BY Zenon DEF Init
<1>2. \A c \in Clients, n \in 1 .. MaxRequests : executed[<<c, n>>] = 0
  BY Zenon, <1>1 DEF Requests
<1>3. \A c \in Clients : CountInv(c)
  BY <1>2 DEF Init, CountInv
<1>4. \A i \in Slots : OpenInv(i)
  BY DEF Init, OpenInv, FREE, PENDING, SERVICING
<1>5. LedgerInv
  BY Zenon, <1>1, <1>3, <1>4 DEF Init, LedgerInv, Writing, Completers
<1>6. Ledger!Init
  BY <1>1 DEF Init, Ledger!Init, Outcome
<1> QED BY Zenon, <1>5, <1>6

(* The ring keeps the ledger: a request runs at most once, only while its  *)
(* client waits for it, and the client is told "served" only if it ran,    *)
(* whatever dies where (createSabIoClient, runIoServerLoop, handleDeath).  *)
THEOREM RingKeepsLedger == ASSUME ~MayReclaim PROVE Spec => KeepsLedger
<1>1. Init => RingInv /\ LedgerInv /\ Ledger!Init
  BY Zenon, RingInit, LedgerInit
<1>2. RingInv /\ LedgerInv /\ [Next]_vars => RingInv' /\ LedgerInv' /\ [Ledger!Next]_(Ledger!ledger)
  BY Zenon, RingStep, LedgerStep
<1> QED BY <1>1, <1>2, PTL DEF Spec, KeepsLedger, Ledger!Spec
=============================================================================

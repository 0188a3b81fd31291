------------------------- MODULE SabIoChannelProofs -------------------------
(***************************************************************************)
(* The ring gives each request one slot and its own answer, for any number *)
(* of clients, slots, requests and deaths, as long as no slot is           *)
(* reclaimed.  The sequence words are not needed for it: who may write a   *)
(* slot follows from its STATE word alone.                                 *)
(***************************************************************************)
EXTENDS SabIoChannel, TLAPS

Places == Holding \cup {"idle", "scan", "full", "gone"}
Statuses == Requests \cup {NoRequest, Dead}

RingType ==
  /\ state \in [Slots -> {FREE, IDLE, PENDING, SERVICING, DONE}]
  /\ body \in [Slots -> Statuses] /\ job \in [Slots -> Statuses] /\ status \in [Slots -> Statuses]
  /\ pc \in [Clients -> Places] /\ slot \in [Clients -> Slots]
  /\ hint \in Nat /\ start \in [Clients -> Nat] /\ at \in [Clients -> Nat]
  /\ sent \in [Clients -> 0 .. MaxRequests] /\ answer \in [Clients -> Statuses]
  /\ claimed \subseteq Slots
  /\ cpc \in [Completers -> {"none", "make", "status", "seq", "doneSeq", "done"}]
  /\ cslot \in [Completers -> Slots] /\ cstatus \in [Completers -> Statuses]
  /\ srv \in {"run", "down"} /\ sup \in {"watch", "sweep", "restart", "off"} /\ sat \in Nat
  /\ rpc = "idle"
  /\ \A c \in Clients : pc[c] \in {"scan", "full", "fill"} => sent[c] < MaxRequests

\* What a client may rely on: the state of its slot, that the slot holds its
\* request, and whose status is there once it is DONE.
Own(c) == <<c, sent[c]>>
ClientInv(c) ==
  /\ pc[c] \in {"fill", "seq", "submit"} => state[slot[c]] = IDLE
  /\ pc[c] = "poll" => state[slot[c]] \in {PENDING, SERVICING, DONE}
  /\ pc[c] \in {"check", "read", "release"} => state[slot[c]] = DONE
  /\ pc[c] \in {"seq", "submit", "poll", "check", "read", "release"} => body[slot[c]] = Own(c)
  /\ pc[c] \in {"poll", "check", "read"} /\ state[slot[c]] = DONE => status[slot[c]] \in {Own(c), Dead}
  /\ pc[c] = "release" => answer[c] \in {Own(c), Dead}

\* The server and the supervisor never write at the same time, and each writes
\* only to a slot whose client waits.
Writing == {"status", "seq", "doneSeq", "done"}
ServeInv ==
  /\ srv = "down" => claimed = {} /\ cpc[Server] = "none"
  /\ sup # "watch" => srv = "down"
  /\ cpc[Supervisor] # "make" /\ (cpc[Supervisor] # "none" => sup = "sweep")
  /\ cpc[Server] = "make" => cslot[Server] \in claimed
  /\ \A i \in claimed : /\ state[i] = SERVICING
                        /\ job[i] = body[i] \/ (cpc[Server] = "make" /\ cslot[Server] = i)
  /\ cpc[Server] \in Writing => /\ cslot[Server] \notin claimed
                                /\ state[cslot[Server]] = SERVICING
                                /\ cstatus[Server] = body[cslot[Server]]
  /\ cpc[Supervisor] \in Writing => /\ state[cslot[Supervisor]] \in {PENDING, SERVICING}
                                    /\ cstatus[Supervisor] = Dead /\ cslot[Supervisor] = sat
  /\ \A a \in Completers : cpc[a] \in Writing \ {"status"} => status[cslot[a]] = cstatus[a]

RingInv == RingType /\ SlotIsOwned /\ (\A c \in Clients : ClientInv(c)) /\ ServeInv

-----------------------------------------------------------------------------
\* A scan stays in the ring.
LEMMA ScanInRing == \A n \in Nat : n % SlotCount \in Slots /\ n % SlotCount \in Nat
  BY RingAssumption DEF Slots

\* The next request of a client that may send one.
LEMMA OwnIsRequest ==
  ASSUME RingType, NEW c \in Clients, sent[c] < MaxRequests
  PROVE sent[c] + 1 \in 1 .. MaxRequests /\ <<c, sent[c] + 1>> \in Statuses
  BY RingAssumption DEF RingType, Statuses, Requests

-----------------------------------------------------------------------------
(* Clients.  A step of one client that changes no word of a slot concerns  *)
(* that client alone.                                                      *)

\* Looking for a slot, waiting, reading and dying.
LEMMA ClientLooks ==
  ASSUME RingInv, NEW c \in Clients,
         BeginScan(c) \/ PollState(c) \/ PollSeq(c) \/ ReadStatus(c) \/ ClientDies(c)
  PROVE RingInv'
<1>1. RingType'
  <2>1. CASE BeginScan(c)
    BY <2>1, ScanInRing, RingAssumption
       DEF RingInv, RingType, BeginScan, Goto, Places, words, serverVars, completeVars, supVars, reclaimVars
  <2>2. CASE ReadStatus(c)
    BY Zenon, <2>2 DEF RingInv, RingType, ReadStatus, Goto, Places, Holding, words, serverVars, completeVars, supVars,
                reclaimVars
  <2>3. CASE PollState(c) \/ PollSeq(c) \/ ClientDies(c)
    BY <2>3 DEF RingInv, RingType, PollState, PollSeq, ClientDies, Goto, Places, Holding, words, serverVars,
                completeVars, supVars, reclaimVars
  <2> QED BY Zenon, <2>1, <2>2, <2>3
<1>2. \A d \in Clients : d # c => pc'[d] = pc[d] /\ answer'[d] = answer[d]
  BY Zenon DEF RingInv, RingType, BeginScan, PollState, PollSeq, ReadStatus, ClientDies, Goto
<1>3. words' = words /\ slot' = slot /\ sent' = sent
      /\ UNCHANGED <<serverVars, completeVars, supVars>>
  BY Zenon DEF BeginScan, PollState, PollSeq, ReadStatus, ClientDies, words
<1>4. pc'[c] \in Holding => pc[c] \in Holding
  BY Zenon DEF RingInv, RingType, BeginScan, PollState, PollSeq, ReadStatus, ClientDies, Goto, Holding
<1>5. SlotIsOwned'
  BY Zenon, <1>2, <1>3, <1>4 DEF RingInv, SlotIsOwned
<1>6. ClientInv(c)'
  BY <1>3 DEF RingInv, RingType, ClientInv, Own, BeginScan, PollState, PollSeq, ReadStatus, ClientDies, Goto, words
<1>7. \A d \in Clients : d # c => ClientInv(d)'
  BY <1>2, <1>3 DEF RingInv, ClientInv, Own, words
<1>8. ServeInv'
  BY <1>3 DEF RingInv, ServeInv, words, serverVars, completeVars, supVars
<1> QED BY Zenon, <1>1, <1>5, <1>6, <1>7, <1>8 DEF RingInv

\* The compare-exchange: a FREE slot has no holder and nobody writes to it.
LEMMA ClaimStep == ASSUME RingInv, NEW c \in Clients, TryClaim(c) PROVE RingInv'
<1> DEFINE i == (start[c] + at[c]) % SlotCount
<1>0. i \in Slots /\ pc[c] = "scan"
  BY ScanInRing DEF RingInv, RingType, TryClaim
<1>a. /\ UNCHANGED <<hint, start, sent, answer, body, status, serverVars, completeVars, supVars, reclaimVars>>
  BY Zenon DEF TryClaim
<1>1. CASE state[i] # FREE
  <2>0. UNCHANGED <<state, slot>> /\ at' = [at EXCEPT ![c] = @ + 1]
        /\ Goto(c, IF at[c] + 1 = SlotCount THEN "full" ELSE "scan")
    BY Zenon, <1>1 DEF TryClaim, claimable
  <2>1. RingType'
    BY <1>0, <1>a, <2>0
       DEF RingInv, RingType, Goto, Places, serverVars, completeVars, supVars, reclaimVars
  <2>2. (\A d \in Clients : d # c => pc'[d] = pc[d]) /\ pc'[c] \in {"full", "scan"}
    BY Zenon, <2>0 DEF RingInv, RingType, Goto
  <2>3. SlotIsOwned' /\ \A d \in Clients : ClientInv(d)'
    BY <1>a, <2>0, <2>2 DEF RingInv, SlotIsOwned, ClientInv, Own, Holding
  <2> QED BY Zenon, <1>a, <2>0, <2>1, <2>3 DEF RingInv, ServeInv, serverVars, completeVars, supVars
<1>2. CASE state[i] = FREE
  <2>0. /\ state' = [state EXCEPT ![i] = IDLE] /\ slot' = [slot EXCEPT ![c] = i]
        /\ Goto(c, "fill") /\ UNCHANGED at
    BY Zenon, <1>2 DEF TryClaim, claimable
  <2> HIDE DEF i
  <2>1. RingType'
    BY Zenon, <1>0, <1>a, <2>0
       DEF RingInv, RingType, Goto, Places, Holding, serverVars, completeVars, supVars, reclaimVars
  <2>2. \A d \in Clients : d # c => pc'[d] = pc[d] /\ slot'[d] = slot[d]
    BY Zenon, <2>0 DEF RingInv, RingType, Goto
  <2>3. pc'[c] = "fill" /\ slot'[c] = i /\ state'[i] = IDLE
    BY Zenon, <1>0, <2>0 DEF RingInv, RingType, Goto
  <2>4. \A d \in Clients : pc[d] \in Holding => slot[d] # i
    BY <1>2 DEF RingInv, ClientInv, Holding, FREE, IDLE, PENDING, SERVICING, DONE
  <2>5. \A j \in Slots : j # i => state'[j] = state[j]
    BY Zenon, <2>0 DEF RingInv, RingType
  <2>6. SlotIsOwned'
    BY Zenon, <2>2, <2>3, <2>4 DEF RingInv, SlotIsOwned
  <2>7. ClientInv(c)'
    BY Zenon, <2>3 DEF ClientInv
  <2>8. ASSUME NEW d \in Clients, d # c PROVE ClientInv(d)'
    <3>1. CASE pc[d] \in Holding
      <4>1. slot[d] \in Slots /\ state'[slot[d]] = state[slot[d]] /\ pc'[d] = pc[d] /\ slot'[d] = slot[d]
        BY Zenon, <2>2, <2>4, <2>5, <2>8, <3>1 DEF RingInv, RingType
      <4> QED BY Zenon, <1>a, <2>8, <4>1 DEF RingInv, ClientInv, Own
    <3>2. CASE pc[d] \notin Holding
      BY Zenon, <2>2, <2>8, <3>2 DEF ClientInv, Holding
    <3> QED BY Zenon, <3>1, <3>2
  <2>9. ServeInv'
    <3>1. i \notin claimed /\ (cpc[Server] \in Writing => cslot[Server] # i)
          /\ (cpc[Supervisor] \in Writing => cslot[Supervisor] # i)
      BY <1>2 DEF RingInv, ServeInv, FREE, PENDING, SERVICING
    <3>2. claimed \subseteq Slots /\ cslot[Server] \in Slots /\ cslot[Supervisor] \in Slots
      BY Zenon DEF RingInv, RingType, Completers
    <3> QED BY Zenon, <1>a, <2>5, <3>1, <3>2 DEF RingInv, ServeInv, serverVars, completeVars, supVars
  <2> QED BY Zenon, <2>1, <2>6, <2>7, <2>8, <2>9 DEF RingInv
<1> QED BY Zenon, <1>1, <1>2

\* A step of the holder c on its own slot: nobody else looks at the slot.
LEMMA HolderStep ==
  ASSUME RingInv, RingType', NEW c \in Clients, pc[c] \in Holding, pc'[c] \in Holding \cup {"idle"},
         slot' = slot, answer' = answer,
         \A d \in Clients : d # c => pc'[d] = pc[d] /\ sent'[d] = sent[d],
         \A j \in Slots : j # slot[c] => state'[j] = state[j] /\ body'[j] = body[j] /\ status'[j] = status[j],
         UNCHANGED <<serverVars, completeVars, supVars>>,
         state[slot[c]] \notin {PENDING, SERVICING},
         ClientInv(c)'
  PROVE RingInv'
<1>1. SlotIsOwned'
  BY DEF RingInv, SlotIsOwned, Holding
<1>2. ASSUME NEW d \in Clients, d # c PROVE ClientInv(d)'
  <2>1. CASE pc[d] \in Holding
    <3>1. slot[d] # slot[c] /\ slot[d] \in Slots
      BY <1>2, <2>1 DEF RingInv, RingType, SlotIsOwned
    <3> QED BY <1>2, <3>1 DEF RingInv, ClientInv, Own
  <2>2. CASE pc[d] \notin Holding
    BY Zenon, <1>2, <2>2 DEF ClientInv, Holding
  <2> QED BY Zenon, <2>1, <2>2
<1>3. ServeInv'
  <2>1. slot[c] \notin claimed /\ (cpc[Server] \in Writing => cslot[Server] # slot[c])
        /\ (cpc[Supervisor] \in Writing => cslot[Supervisor] # slot[c])
    BY Zenon DEF RingInv, ServeInv
  <2>2. claimed \subseteq Slots /\ cslot[Server] \in Slots /\ cslot[Supervisor] \in Slots
    BY Zenon DEF RingInv, RingType, Completers
  <2>3. \A a \in Completers : cpc[a] \in Writing => cslot[a] # slot[c] /\ cslot[a] \in Slots
    BY Zenon, <2>1, <2>2 DEF Completers
  <2>4. UNCHANGED <<srv, claimed, job, cpc, cslot, cstatus, sup, sat>>
    BY Zenon DEF serverVars, completeVars, supVars
  <2> QED BY <2>1, <2>2, <2>3, <2>4 DEF RingInv, ServeInv
<1> QED BY Zenon, <1>1, <1>2, <1>3 DEF RingInv

\* writeRequest, the sequence word, the submission and the release.
LEMMA HolderSteps ==
  ASSUME RingInv, NEW c \in Clients, WriteRequest(c) \/ StoreSeq(c) \/ Submit(c) \/ releaseSlot(c)
  PROVE RingInv'
<1>0. pc[c] \in Holding /\ slot[c] \in Slots /\ state[slot[c]] \in {IDLE, DONE}
  BY Zenon DEF RingInv, RingType, ClientInv, WriteRequest, StoreSeq, Submit, releaseSlot, Holding
<1>1. state[slot[c]] \notin {PENDING, SERVICING}
  BY <1>0 DEF IDLE, DONE, PENDING, SERVICING
<1>2. UNCHANGED <<slot, answer, serverVars, completeVars, supVars, reclaimVars>>
  BY Zenon DEF WriteRequest, StoreSeq, Submit, releaseSlot
<1>3. \A d \in Clients : d # c => pc'[d] = pc[d] /\ sent'[d] = sent[d]
  BY DEF RingInv, RingType, WriteRequest, StoreSeq, Submit, releaseSlot, Goto
<1>4. \A j \in Slots : j # slot[c] => state'[j] = state[j] /\ body'[j] = body[j] /\ status'[j] = status[j]
  BY Zenon DEF RingInv, RingType, WriteRequest, StoreSeq, Submit, releaseSlot
<1>5. pc'[c] \in Holding \cup {"idle"}
  BY DEF RingInv, RingType, WriteRequest, StoreSeq, Submit, releaseSlot, Goto, Holding
<1>6. RingType'
  <2>1. CASE WriteRequest(c)
    <3>1. sent[c] + 1 \in 1 .. MaxRequests /\ <<c, sent[c] + 1>> \in Statuses /\ NoRequest \in Statuses
      BY Zenon, <2>1, OwnIsRequest DEF RingInv, RingType, WriteRequest, Statuses
    <3> QED BY <1>0, <1>2, <2>1, <3>1, RingAssumption
            DEF RingInv, RingType, WriteRequest, Goto, Places, Holding, serverVars, completeVars, supVars, reclaimVars
  <2>2. CASE StoreSeq(c) \/ Submit(c) \/ releaseSlot(c)
    BY <1>0, <1>2, <2>2
       DEF RingInv, RingType, StoreSeq, Submit, releaseSlot, Goto, Places, Holding, serverVars, completeVars,
           supVars, reclaimVars
  <2> QED BY Zenon, <2>1, <2>2
<1>7. ClientInv(c)'
  <2>1. CASE WriteRequest(c)
    BY Zenon, <1>0, <1>2, <2>1 DEF RingInv, RingType, ClientInv, WriteRequest, Goto, Own
  <2>2. CASE StoreSeq(c)
    BY Zenon, <1>0, <1>2, <2>2 DEF RingInv, RingType, ClientInv, StoreSeq, Goto, Own
  <2>3. CASE Submit(c)
    BY <1>0, <1>2, <2>3 DEF RingInv, RingType, ClientInv, Submit, Goto, Own, PENDING, DONE
  <2>4. CASE releaseSlot(c)
    BY Zenon, <1>0, <1>2, <2>4 DEF RingInv, RingType, ClientInv, releaseSlot, Goto
  <2> QED BY Zenon, <2>1, <2>2, <2>3, <2>4
<1> QED BY Zenon, <1>0, <1>1, <1>2, <1>3, <1>4, <1>5, <1>6, <1>7, HolderStep

-----------------------------------------------------------------------------
(* completeSabIoSlot.                                                      *)

\* While one completer writes the other does nothing to any slot.
LEMMA OneWriter ==
  ASSUME RingInv, NEW a \in Completers, cpc[a] \in Writing
  PROVE /\ \A b \in Completers : b # a => cpc[b] \in {"none"}
        /\ cslot[a] \in Slots /\ cslot[a] \notin claimed
        /\ state[cslot[a]] \in {PENDING, SERVICING}
        /\ cstatus[a] \in {body[cslot[a]], Dead}
<1>1. Server # Supervisor /\ Completers = {Server, Supervisor}
  BY Zenon DEF Server, Supervisor, Completers
<1>2. "none" \notin Writing /\ "make" \notin Writing
  BY Zenon DEF Writing
<1>3. cpc[Server] # "none" => srv = "run" /\ sup = "watch" /\ cpc[Supervisor] = "none"
  BY Zenon DEF RingInv, RingType, ServeInv
<1>4. CASE a = Server
  BY Zenon, <1>1, <1>2, <1>3, <1>4 DEF RingInv, RingType, ServeInv
<1>5. CASE a = Supervisor
  BY Zenon, <1>1, <1>2, <1>3, <1>5 DEF RingInv, RingType, ServeInv
<1> QED BY Zenon, <1>1, <1>4, <1>5

\* STATUS, the sequence and DONE_SEQ: the client does not look before DONE.
LEMMA WriteSteps ==
  ASSUME RingInv, NEW a \in Completers, PutStatus(a) \/ LoadSeq(a) \/ PutDoneSeq(a)
  PROVE RingInv'
<1>0. cpc[a] \in Writing
  BY Zenon DEF PutStatus, LoadSeq, PutDoneSeq, Writing
<1>1. /\ UNCHANGED <<state, body, clientVars, serverVars, cslot, cstatus, supVars, reclaimVars>>
      /\ \E l \in {"seq", "doneSeq", "done"} : cpc' = [cpc EXCEPT ![a] = l]
      /\ status' \in {status, [status EXCEPT ![cslot[a]] = cstatus[a]]}
  BY Zenon DEF PutStatus, LoadSeq, PutDoneSeq, words
<1>2. \A j \in Slots : j # cslot[a] => status'[j] = status[j]
  BY Zenon, <1>1 DEF RingInv, RingType
<1>3. status'[cslot[a]] = cstatus[a]
  BY Zenon, <1>0, OneWriter DEF RingInv, RingType, ServeInv, PutStatus, LoadSeq, PutDoneSeq, words, Writing
<1>4. RingType'
  BY <1>0, <1>1, OneWriter DEF RingInv, RingType, clientVars, serverVars, supVars, reclaimVars
<1>5. UNCHANGED <<pc, slot, sent, answer>> /\ UNCHANGED <<srv, claimed, job, sup, sat>>
  BY Zenon, <1>1 DEF clientVars, serverVars, supVars
<1>6. SlotIsOwned'
  BY Zenon, <1>5 DEF RingInv, SlotIsOwned
<1>7. \A c \in Clients : ClientInv(c)'
  <2> SUFFICES ASSUME NEW c \in Clients PROVE ClientInv(c)'
    OBVIOUS
  <2>1. state[slot[c]] = DONE => status'[slot[c]] = status[slot[c]]
    BY <1>0, <1>2, OneWriter DEF RingInv, RingType, PENDING, SERVICING, DONE
  <2> QED BY Zenon, <1>1, <1>5, <2>1 DEF RingInv, ClientInv, Own
<1>8. (\A b \in Completers : b # a => cpc'[b] = "none") /\ cpc'[a] \in Writing /\ cpc[a] \in Writing
  BY <1>0, <1>1, OneWriter DEF RingInv, RingType, Writing
<1>9. ServeInv'
  <2>1. "none" \notin Writing /\ "make" \notin Writing
    BY Zenon DEF Writing
  <2>2. Server # Supervisor /\ Completers = {Server, Supervisor}
    BY Zenon DEF Server, Supervisor, Completers
  <2>3. CASE a = Server
    BY SMTT(30), <1>1, <1>3, <1>5, <1>8, <2>1, <2>2, <2>3 DEF RingInv, RingType, ServeInv
  <2>4. CASE a = Supervisor
    BY <1>1, <1>3, <1>5, <1>8, <2>1, <2>2, <2>4, OneWriter DEF RingInv, RingType, ServeInv
  <2> QED BY Zenon, <2>2, <2>3, <2>4
<1> QED BY Zenon, <1>4, <1>6, <1>7, <1>9 DEF RingInv

\* STATE <- DONE: the status that the client now sees is its own.
LEMMA DoneStep == ASSUME RingInv, NEW a \in Completers, PutDone(a) PROVE RingInv'
<1>0. cpc[a] = "done" /\ cpc[a] \in Writing /\ cpc[a] \in Writing \ {"status"}
  BY Zenon DEF PutDone, Writing
<1>1. /\ state' = [state EXCEPT ![cslot[a]] = DONE] /\ cpc' = [cpc EXCEPT ![a] = "none"]
      /\ UNCHANGED <<body, status, clientVars, serverVars, cslot, cstatus, sup, deaths, reclaimVars>>
      /\ sat' \in {sat, sat + 1}
  BY Zenon DEF PutDone
<1>2. cslot[a] \in Slots /\ cslot[a] \notin claimed /\ state[cslot[a]] \in {PENDING, SERVICING}
      /\ status[cslot[a]] \in {body[cslot[a]], Dead}
  BY Zenon, <1>0, OneWriter DEF RingInv, ServeInv
<1>3. \A b \in Completers : cpc'[b] = "none"
  BY Zenon, <1>0, <1>1, OneWriter DEF RingInv, RingType
<1>4. UNCHANGED <<pc, slot, sent, answer>> /\ UNCHANGED <<srv, claimed, job>>
  BY Zenon, <1>1 DEF clientVars, serverVars
<1>5. RingType'
  BY <1>1, <1>2 DEF RingInv, RingType, clientVars, serverVars, reclaimVars
<1>6. SlotIsOwned'
  BY Zenon, <1>4 DEF RingInv, SlotIsOwned
<1>7. \A j \in Slots : state'[j] = IF j = cslot[a] THEN DONE ELSE state[j]
  BY Zenon, <1>1 DEF RingInv, RingType
<1>8. \A c \in Clients : ClientInv(c)'
  <2> SUFFICES ASSUME NEW c \in Clients PROVE ClientInv(c)'
    OBVIOUS
  <2>1. CASE slot[c] # cslot[a]
    <3>1. state'[slot[c]] = state[slot[c]]
      BY Zenon, <1>7, <2>1 DEF RingInv, RingType
    <3> QED BY SMTT(30), <1>1, <1>4, <3>1 DEF RingInv, ClientInv, Own
  <2>2. CASE slot[c] = cslot[a]
    <3>1. pc[c] \in {"poll"} \cup (Places \ Holding)
      BY <1>2, <2>2 DEF RingInv, RingType, ClientInv, Places, Holding, IDLE, PENDING, SERVICING, DONE
    <3>2. state'[slot[c]] = DONE
      BY Zenon, <1>2, <1>7, <2>2
    <3>3. pc[c] = "poll" => body[slot[c]] = Own(c) /\ status[slot[c]] \in {Own(c), Dead}
      BY Zenon, <1>2, <2>2 DEF RingInv, ClientInv
    <3> QED BY Zenon, <1>1, <1>4, <3>1, <3>2, <3>3 DEF ClientInv, Own, Places, Holding
  <2> QED BY Zenon, <2>1, <2>2
<1>9. ServeInv'
  <2>1. "none" \notin Writing /\ cpc'[Server] = "none" /\ cpc'[Supervisor] = "none"
    BY Zenon, <1>3 DEF Writing, Completers
  <2>2. \A i \in claimed : state'[i] = state[i] /\ job[i] = body[i]
    <3>1. cpc[Server] # "make"
      BY Zenon, <1>0, OneWriter DEF Completers, Writing
    <3> QED BY Zenon, <1>2, <1>7, <3>1 DEF RingInv, RingType, ServeInv
  <2> QED BY <1>1, <1>3, <1>4, <2>1, <2>2 DEF RingInv, ServeInv
<1> QED BY Zenon, <1>5, <1>6, <1>8, <1>9 DEF RingInv

-----------------------------------------------------------------------------
(* The server.                                                             *)

\* A client does not notice its slot going from PENDING to SERVICING, nor
\* anything that leaves the slots alone.
LEMMA ClientsUnaware ==
  ASSUME RingInv, UNCHANGED <<pc, slot, sent, answer, body, status>>,
         \A j \in Slots : state'[j] = state[j] \/ (state[j] = PENDING /\ state'[j] = SERVICING)
  PROVE SlotIsOwned' /\ \A c \in Clients : ClientInv(c)'
<1>1. SlotIsOwned'
  BY Zenon DEF RingInv, SlotIsOwned
<1>2. ASSUME NEW c \in Clients PROVE ClientInv(c)'
  <2>1. slot[c] \in Slots
    BY Zenon DEF RingInv, RingType
  <2>2. CASE state'[slot[c]] = state[slot[c]]
    BY Zenon, <2>2 DEF RingInv, ClientInv, Own
  <2>3. CASE state[slot[c]] = PENDING /\ state'[slot[c]] = SERVICING
    BY <2>3 DEF RingInv, ClientInv, Own, IDLE, PENDING, SERVICING, DONE
  <2> QED BY Zenon, <2>1, <2>2, <2>3
<1> QED BY Zenon, <1>1, <1>2

\* scanSlots takes a PENDING slot, makeJob reads what is in it.
LEMMA TakeUpSteps ==
  ASSUME RingInv, makeJob \/ \E i \in Slots : ScanSlot(i)
  PROVE RingInv'
<1>0. Server \in Completers /\ Supervisor \in Completers /\ Server # Supervisor
  BY Zenon DEF Completers, Server, Supervisor
<1>1. CASE makeJob
  <2>1. UNCHANGED <<state, body, status, pc, slot, sent, answer>>
    BY Zenon, <1>1 DEF makeJob, words, clientVars
  <2>2. cslot[Server] \in claimed /\ cslot[Server] \in Slots
    BY Zenon, <1>0, <1>1 DEF RingInv, RingType, ServeInv, makeJob
  <2>3. RingType'
    BY Zenon, <1>1, <2>2 DEF RingInv, RingType, makeJob, words, clientVars, supVars, reclaimVars
  <2>4. cpc'[Server] = "none" /\ cpc'[Supervisor] = cpc[Supervisor] /\ cpc[Server] = "make"
    BY Zenon, <1>0, <1>1 DEF RingInv, RingType, makeJob
  <2>5. \A i \in claimed : job'[i] = body[i]
    BY Zenon, <1>1, <2>2 DEF RingInv, RingType, ServeInv, makeJob
  <2>6. ServeInv'
    BY <1>0, <1>1, <2>1, <2>4, <2>5 DEF RingInv, ServeInv, makeJob, supVars, Writing, Completers
  <2> QED BY Zenon, <2>1, <2>3, <2>6, ClientsUnaware DEF RingInv
<1>2. ASSUME NEW i \in Slots, ScanSlot(i) PROVE RingInv'
  <2>1. UNCHANGED <<body, status, pc, slot, sent, answer>>
    BY Zenon, <1>2 DEF ScanSlot, clientVars
  <2>2. \A j \in Slots : state'[j] = IF j = i THEN SERVICING ELSE state[j]
    BY Zenon, <1>2 DEF RingInv, RingType, ScanSlot
  <2>3. state[i] = PENDING /\ cpc[Server] = "none" /\ srv # "down"
    BY Zenon, <1>2 DEF ScanSlot, serverUp
  <2>4. RingType'
    BY Zenon, <1>2, <2>3 DEF RingInv, RingType, ScanSlot, clientVars, supVars, reclaimVars
  <2>5. cpc'[Server] = "make" /\ cpc'[Supervisor] = cpc[Supervisor] /\ cslot'[Server] = i
        /\ claimed' = claimed \cup {i} /\ job' = job /\ srv' = srv /\ sup' = sup /\ cstatus' = cstatus
    BY <1>0, <1>2 DEF RingInv, RingType, ScanSlot, supVars
  <2>6. cpc[Supervisor] = "none"
    BY Zenon, <2>3 DEF RingInv, RingType, ServeInv
  <2>7. \A a \in Completers : cpc'[a] \notin Writing
    BY Zenon, <2>5, <2>6 DEF Completers, Writing
  <2>8. \A j \in claimed' : state'[j] = SERVICING /\ (job'[j] = body'[j] \/ j = i)
    BY Zenon, <1>2, <2>1, <2>2, <2>3, <2>5 DEF RingInv, RingType, ServeInv
  <2>9. ServeInv'
    BY Zenon, <1>0, <2>3, <2>5, <2>6, <2>7, <2>8 DEF RingInv, ServeInv
  <2> QED BY Zenon, <2>1, <2>2, <2>3, <2>4, <2>9, ClientsUnaware DEF RingInv
<1> QED BY Zenon, <1>1, <1>2

\* A job ends: its status is the one of the request in the slot.
LEMMA ExecuteStep == ASSUME RingInv, NEW i \in Slots, Execute(i) PROVE RingInv'
<1>0. Server \in Completers /\ Supervisor \in Completers /\ Server # Supervisor
  BY Zenon DEF Completers, Server, Supervisor
<1>1. UNCHANGED <<state, body, status, pc, slot, sent, answer>>
  BY Zenon DEF Execute, words, clientVars
<1>2. i \in claimed /\ cpc[Server] = "none" /\ srv # "down" /\ state[i] = SERVICING /\ job[i] = body[i]
  BY Zenon DEF RingInv, ServeInv, Execute, serverUp
<1>3. RingType'
  BY Zenon, <1>0, <1>2 DEF RingInv, RingType, Execute, StartComplete, words, clientVars, supVars, reclaimVars
<1>4. /\ cpc'[Server] = "status" /\ cpc'[Supervisor] = cpc[Supervisor]
      /\ cslot'[Server] = i /\ cstatus'[Server] = job[i]
      /\ claimed' = claimed \ {i} /\ job' = job /\ srv' = srv /\ sup' = sup
  BY Zenon, <1>0 DEF RingInv, RingType, Execute, StartComplete, supVars
<1>5. cpc[Supervisor] = "none"
  BY Zenon, <1>2 DEF RingInv, RingType, ServeInv
<1>6. ServeInv'
  BY Zenon, <1>0, <1>1, <1>2, <1>4, <1>5 DEF RingInv, ServeInv, Writing, Completers
<1> QED BY Zenon, <1>1, <1>3, <1>6, ClientsUnaware DEF RingInv

-----------------------------------------------------------------------------
(* Deaths and the supervisor.                                              *)

\* The worker dies with its jobs; the supervisor is not sweeping then.
LEMMA DeathSteps == ASSUME RingInv, ServerDies \/ Kill PROVE RingInv'
<1>0. Server \in Completers /\ Supervisor \in Completers /\ Server # Supervisor
  BY Zenon DEF Completers, Server, Supervisor
<1>1. UNCHANGED <<state, body, status, pc, slot, sent, answer, cslot, cstatus>>
  BY Zenon DEF ServerDies, Kill, words, clientVars
<1>2. RingType'
  BY <1>0 DEF RingInv, RingType, ServerDies, Kill, Forget, Statuses, words, clientVars, reclaimVars
<1>3. srv' = "down" /\ claimed' = {} /\ cpc'[Server] = "none" /\ cpc'[Supervisor] = cpc[Supervisor]
      /\ sup' \in {sup, "sweep"}
  BY Zenon, <1>0 DEF RingInv, RingType, ServerDies, Kill, Forget
<1>4. cpc[Supervisor] = "none"
  BY Zenon DEF RingInv, RingType, ServeInv, ServerDies, Kill
<1>5. ServeInv'
  BY Zenon, <1>1, <1>3, <1>4 DEF ServeInv, Writing, Completers
<1> QED BY Zenon, <1>1, <1>2, <1>5, ClientsUnaware DEF RingInv

\* handleDeath, its sweep and the restart.
LEMMA SuperviseSteps == ASSUME RingInv, Supervise PROVE RingInv'
<1>0. Server \in Completers /\ Supervisor \in Completers /\ Server # Supervisor
  BY Zenon DEF Completers, Server, Supervisor
<1>1. UNCHANGED <<state, body, status, pc, slot, sent, answer, claimed, job>>
  BY Zenon DEF Supervise, HandleDeath, SweepSlot, SweepEnd, ServerRestarts, words, clientVars, serverVars
<1>2. CASE HandleDeath \/ SweepEnd \/ ServerRestarts
  <2>1. RingType'
    BY <1>2 DEF RingInv, RingType, HandleDeath, SweepEnd, ServerRestarts, words, clientVars, serverVars,
                completeVars, reclaimVars
  <2>2. ServeInv'
    <3>1. cpc[Supervisor] = "none"
      <4>1. cpc[Supervisor] \in Writing => sat \in Slots
        BY <1>0 DEF RingInv, RingType, ServeInv
      <4>2. cpc[Supervisor] \in Writing \/ cpc[Supervisor] = "none"
        BY Zenon, <1>0 DEF RingInv, RingType, ServeInv, Writing
      <4>3. SlotCount \notin Slots
        BY RingAssumption DEF Slots
      <4> QED BY Zenon, <1>2, <4>1, <4>2, <4>3 DEF RingInv, ServeInv, HandleDeath, SweepEnd, ServerRestarts
    <3> QED BY Zenon, <1>1, <1>2, <3>1
       DEF RingInv, ServeInv, HandleDeath, SweepEnd, ServerRestarts, completeVars, serverVars,
                                   Writing
  <2> QED BY Zenon, <1>1, <2>1, <2>2, ClientsUnaware DEF RingInv
<1>3. CASE SweepSlot
  <2>1. CASE ~unanswered(sat)
    <3>1. UNCHANGED <<completeVars, serverVars, clientVars, reclaimVars, sup>> /\ sat' = sat + 1
          /\ cpc[Supervisor] = "none"
      BY Zenon, <1>3, <2>1 DEF SweepSlot
    <3>2. RingType'
      BY <1>1, <3>1 DEF RingInv, RingType, clientVars, serverVars, completeVars, reclaimVars
    <3>3. ServeInv'
      BY Zenon, <1>1, <3>1 DEF RingInv, ServeInv, serverVars, completeVars, Writing
    <3> QED BY <1>1, <3>2, <3>3, ClientsUnaware DEF RingInv
  <2>2. CASE unanswered(sat)
    <3>1. sat \in Slots /\ sup = "sweep" /\ srv = "down" /\ state[sat] \in {PENDING, SERVICING}
      BY SMTT(30), <1>3, <2>2, RingAssumption DEF RingInv, RingType, ServeInv, SweepSlot, unanswered, Slots
    <3>2. RingType'
      BY <1>0, <1>1, <1>3, <2>2, <3>1
         DEF RingInv, RingType, SweepSlot, StartComplete, Statuses, words, clientVars, serverVars, reclaimVars
    <3>3. /\ cpc'[Supervisor] = "status" /\ cpc'[Server] = cpc[Server]
          /\ cslot'[Supervisor] = sat /\ cstatus'[Supervisor] = Dead
          /\ UNCHANGED <<sup, srv, sat>>
      BY Zenon, <1>0, <1>3, <2>2 DEF RingInv, RingType, SweepSlot, StartComplete, serverVars
    <3>4. ServeInv'
      BY Zenon, <1>0, <1>1, <3>1, <3>3 DEF RingInv, ServeInv, Writing, Completers
    <3> QED BY <1>1, <3>2, <3>4, ClientsUnaware DEF RingInv
  <2> QED BY Zenon, <2>1, <2>2
<1> QED BY Zenon, <1>2, <1>3 DEF Supervise

-----------------------------------------------------------------------------
\* The zeroed ring.
LEMMA RingInit == Init => RingInv
<1> SUFFICES ASSUME Init PROVE RingInv
  OBVIOUS
<1>1. 0 \in Slots
  BY RingAssumption DEF Slots
<1>2. RingType
  BY <1>1, RingAssumption DEF Init, RingType, Places, Statuses
<1>3. ServeInv
  BY Zenon DEF Init, ServeInv, Writing, Completers
<1> QED BY Zenon, <1>2, <1>3 DEF Init, RingInv, SlotIsOwned, ClientInv, Holding

\* Without reclaimSabIoSlots every step keeps the invariant.
LEMMA RingStep == ASSUME ~MayReclaim, RingInv, [Next]_vars PROVE RingInv'
<1>1. CASE UNCHANGED vars
  <2>1. UNCHANGED <<words, clientVars, serverVars, completeVars, supVars, reclaimVars>>
    BY Zenon, <1>1 DEF vars
  <2>2. RingType'
    BY Zenon, <2>1 DEF RingInv, RingType, words, clientVars, serverVars, completeVars, supVars, reclaimVars
  <2>3. ServeInv'
    BY Zenon, <2>1 DEF RingInv, ServeInv, words, serverVars, completeVars, supVars
  <2> QED BY Zenon, <2>1, <2>2, <2>3, ClientsUnaware DEF RingInv, words, clientVars
<1>2. ASSUME NEW c \in Clients, Client(c) \/ ClientDies(c) PROVE RingInv'
  BY Zenon, <1>2, ClientLooks, ClaimStep, HolderSteps DEF Client
<1>3. ASSUME NEW a \in Completers, Complete(a) PROVE RingInv'
  BY Zenon, <1>3, WriteSteps, DoneStep DEF Complete
<1>4. CASE makeJob \/ ServerDies \/ Supervise \/ Kill \/ \E i \in Slots : Serve(i)
  BY Zenon, <1>4, TakeUpSteps, ExecuteStep, DeathSteps, SuperviseSteps DEF Serve
<1>5. ~reclaimSabIoSlots /\ \A n : ~ReclaimBegin(n)
  BY Zenon DEF RingInv, RingType, reclaimSabIoSlots, ReclaimInstance, ReclaimCas, ReclaimBegin
<1> QED BY Zenon, <1>1, <1>2, <1>3, <1>4, <1>5 DEF Next

(* "Each request owns its slot until its result is read": for any number  *)
(* of clients, slots and deaths of the worker, whichever thread stops      *)
(* where, no two clients hold one slot (tryClaimSlot, releaseSlot,         *)
(* completeSabIoSlot).                                                     *)
THEOREM SlotsAreOwned == ASSUME ~MayReclaim PROVE Spec => []SlotIsOwned
<1>1. Init => RingInv
  BY RingInit
<1>2. RingInv /\ [Next]_vars => RingInv'
  BY RingStep
<1>3. RingInv => SlotIsOwned
  BY DEF RingInv
<1> QED BY <1>1, <1>2, <1>3, PTL DEF Spec

(* The status a client returns is that of its own request or the           *)
(* supervisor's (roundTrip, completeSabIoSlot, failPendingSabIoRequests).  *)
THEOREM AnswersAreOwn == ASSUME ~MayReclaim PROVE Spec => []AnswerIsOwn
<1>1. Init => RingInv
  BY RingInit
<1>2. RingInv /\ [Next]_vars => RingInv'
  BY RingStep
<1>3. RingInv => AnswerIsOwn
  BY DEF RingInv, ClientInv, Own, AnswerIsOwn
<1> QED BY <1>1, <1>2, <1>3, PTL DEF Spec
=============================================================================

---------------------------- MODULE SabIoChannel ----------------------------
(***************************************************************************)
(* The SharedArrayBuffer I/O ring of src/host/sabIoChannel.js: guest       *)
(* threads and async callers (clients), the I/O worker that serves them,   *)
(* the supervisor of flatsqlIoWorkers.js that fails requests when the      *)
(* worker dies, and reclaimSabIoSlots.  One action per shared memory       *)
(* access.                                                                 *)
(*                                                                         *)
(* Every wait of the code runs in slices of 250 ms and looks again, so a   *)
(* lost doorbell or notify costs time and nothing else: a wait is a step   *)
(* that looks again, and the doorbell and release counters are left out.   *)
(* The OWNER word is written and never read; it is left out too.           *)
(***************************************************************************)
EXTENDS Integers, FiniteSets

CONSTANTS
  Clients,        \* blocking and async clients
  AsyncClients,   \* the ones made by createSabIoAsyncClient
  InstanceOf,     \* the instance id of each client
  SlotCount,      \* H_SLOT_COUNT
  MaxRequests,    \* bound: requests per client
  MaxDeaths,      \* bound: deaths of the I/O worker
  Restart,        \* options.restart of the controller
  MortalClients,  \* the clients whose thread may be terminated
  MayReclaim      \* reclaimSabIoSlots is called for a dead instance

ASSUME RingAssumption ==
  /\ AsyncClients \subseteq Clients /\ MortalClients \subseteq Clients
  /\ InstanceOf \in [Clients -> Nat]
  /\ SlotCount \in Nat \ {0} /\ MaxRequests \in Nat /\ MaxDeaths \in Nat
  /\ Restart \in BOOLEAN /\ MayReclaim \in BOOLEAN

Slots == 0 .. SlotCount - 1

FREE == 0
IDLE == 1
PENDING == 2
SERVICING == 3
DONE == 4

\* A request is its client and the client's count; NoRequest is zeroed memory.
Requests == Clients \X (1 .. MaxRequests)
NoRequest == <<>>

\* S_STATUS: what the server answers a request with is tagged by the request
\* it was computed for; Dead is FLATSQL_IO_ERR_IO of the supervisor.
Dead == <<"dead">>

\* The two callers of completeSabIoSlot.
Server == "server"
Supervisor == "supervisor"
Completers == {Server, Supervisor}

VARIABLES
  hint,       \* H_CLAIM_HINT, modulo the slot count
  state, seq, doneSeq, inst, body, status,   \* the words of each slot
  pc,         \* where each client is
  start, at,  \* a client's scan of the ring
  slot,       \* the slot a client holds
  mySeq,      \* the sequence number of its request
  sent,       \* requests a client has written
  answer,     \* the status it read last
  told,       \* history: requests it has read the status of
  srv,        \* the I/O worker: run, down, or dying (see SabIoLinger)
  claimed,    \* claimedSlots of the server
  job,        \* its job for each claimed slot
  cpc, cslot, cstatus, cseq,   \* completeSabIoSlot, for each of its callers
  sup, sat,   \* the supervisor and the slot its sweep is at
  deaths,
  rpc, rinst, rat,             \* reclaimSabIoSlots
  executed    \* history: how often the server ran each request

words == <<state, seq, doneSeq, inst, body, status>>
clientVars == <<hint, pc, start, at, slot, mySeq, sent, answer, told>>
serverVars == <<srv, claimed, job>>
completeVars == <<cpc, cslot, cstatus, cseq>>
supVars == <<sup, sat, deaths>>
reclaimVars == <<rpc, rinst, rat>>
vars == <<words, clientVars, serverVars, completeVars, supVars, reclaimVars,
          executed>>

-----------------------------------------------------------------------------
(* createSabIoChannelBuffer zeroes every word of every slot.               *)

Init ==
  /\ hint = 0
  /\ state = [i \in Slots |-> FREE]
  /\ seq = [i \in Slots |-> 0]
  /\ doneSeq = [i \in Slots |-> 0]
  /\ inst = [i \in Slots |-> 0]
  /\ body = [i \in Slots |-> NoRequest]
  /\ status = [i \in Slots |-> NoRequest]
  /\ pc = [c \in Clients |-> "idle"]
  /\ start = [c \in Clients |-> 0]
  /\ at = [c \in Clients |-> 0]
  /\ slot = [c \in Clients |-> 0]
  /\ mySeq = [c \in Clients |-> 0]
  /\ sent = [c \in Clients |-> 0]
  /\ answer = [c \in Clients |-> NoRequest]
  /\ told = [c \in Clients |-> 0]
  /\ srv = "run"
  /\ claimed = {}
  /\ job = [i \in Slots |-> NoRequest]
  /\ cpc = [a \in Completers |-> "none"]
  /\ cslot = [a \in Completers |-> 0]
  /\ cstatus = [a \in Completers |-> NoRequest]
  /\ cseq = [a \in Completers |-> 0]
  /\ sup = "watch" /\ sat = 0 /\ deaths = 0
  /\ rpc = "idle" /\ rinst = 0 /\ rat = 0
  /\ executed = [r \in Requests |-> 0]

-----------------------------------------------------------------------------
(* The client: claim, roundTrip, releaseSlot.                              *)

Goto(c, l) == pc' = [pc EXCEPT ![c] = l]

\* claim: a fresh scan starts at the slot the claim hint names.  A client that
\* found every slot busy comes back here after a slice of waiting.
BeginScan(c) ==
  /\ \/ pc[c] = "idle" /\ sent[c] < MaxRequests
     \/ pc[c] = "full"
  /\ start' = [start EXCEPT ![c] = hint]
  /\ hint' = (hint + 1) % SlotCount
  /\ at' = [at EXCEPT ![c] = 0]
  /\ Goto(c, "scan")
  /\ UNCHANGED <<words, slot, mySeq, sent, answer, told, serverVars, completeVars,
                 supVars, reclaimVars, executed>>

\* Mutant: the scan takes a slot that another client has claimed and not yet
\* submitted, as a plain store in place of the compare-exchange would.
claimableIdle(i) == state[i] \in {FREE, IDLE}

claimable(i) == state[i] = FREE

\* tryClaimSlot, one compare-exchange.
TryClaim(c) ==
  LET i == (start[c] + at[c]) % SlotCount IN
  /\ pc[c] = "scan"
  /\ \/ /\ claimable(i)
        /\ state' = [state EXCEPT ![i] = IDLE]
        /\ slot' = [slot EXCEPT ![c] = i]
        /\ Goto(c, "fill")
        /\ UNCHANGED at
     \/ /\ ~claimable(i)
        /\ at' = [at EXCEPT ![c] = @ + 1]
        /\ Goto(c, IF at[c] + 1 = SlotCount THEN "full" ELSE "scan")
        /\ UNCHANGED <<state, slot>>
  /\ UNCHANGED <<hint, start, mySeq, sent, answer, told, seq, doneSeq, inst, body, status,
                 serverVars, completeVars, supVars, reclaimVars, executed>>

\* A blocking client continues the slot's sequence, an async one its own.
NextSeq(c) == IF c \in AsyncClients THEN sent[c] + 1 ELSE seq[slot[c]] + 1

\* writeRequest.
WriteRequest(c) ==
  /\ pc[c] = "fill"
  /\ mySeq' = [mySeq EXCEPT ![c] = NextSeq(c)]
  /\ sent' = [sent EXCEPT ![c] = @ + 1]
  /\ inst' = [inst EXCEPT ![slot[c]] = InstanceOf[c]]
  /\ body' = [body EXCEPT ![slot[c]] = <<c, sent[c] + 1>>]
  /\ status' = [status EXCEPT ![slot[c]] = NoRequest]
  /\ Goto(c, "seq")
  /\ UNCHANGED <<hint, start, at, slot, answer, told, state, seq, doneSeq, serverVars,
                 completeVars, supVars, reclaimVars, executed>>

StoreSeq(c) ==
  /\ pc[c] = "seq"
  /\ seq' = [seq EXCEPT ![slot[c]] = mySeq[c]]
  /\ Goto(c, "submit")
  /\ UNCHANGED <<hint, start, at, slot, mySeq, sent, answer, told, state, doneSeq, inst,
                 body, status, serverVars, completeVars, supVars, reclaimVars,
                 executed>>

Submit(c) ==
  /\ pc[c] = "submit"
  /\ state' = [state EXCEPT ![slot[c]] = PENDING]
  /\ Goto(c, "poll")
  /\ UNCHANGED <<hint, start, at, slot, mySeq, sent, answer, told, seq, doneSeq, inst,
                 body, status, serverVars, completeVars, supVars, reclaimVars,
                 executed>>

\* Mutant: DONE_SEQ alone is taken for an answer.
PollNothing(c) ==
  /\ pc[c] = "poll"
  /\ Goto(c, "check")
  /\ UNCHANGED <<hint, start, at, slot, mySeq, sent, answer, told, words, serverVars,
                 completeVars, supVars, reclaimVars, executed>>

\* The wait loop looks at STATE, then at DONE_SEQ.
PollState(c) ==
  /\ pc[c] = "poll"
  /\ state[slot[c]] = DONE
  /\ Goto(c, "check")
  /\ UNCHANGED <<hint, start, at, slot, mySeq, sent, answer, told, words, serverVars,
                 completeVars, supVars, reclaimVars, executed>>

PollSeq(c) ==
  /\ pc[c] = "check"
  /\ Goto(c, IF doneSeq[slot[c]] = mySeq[c] THEN "read" ELSE "poll")
  /\ UNCHANGED <<hint, start, at, slot, mySeq, sent, answer, told, words, serverVars,
                 completeVars, supVars, reclaimVars, executed>>

ReadStatus(c) ==
  /\ pc[c] = "read"
  /\ answer' = [answer EXCEPT ![c] = status[slot[c]]]
  /\ told' = [told EXCEPT ![c] = @ + 1]
  /\ Goto(c, "release")
  /\ UNCHANGED <<hint, start, at, slot, mySeq, sent, words, serverVars,
                 completeVars, supVars, reclaimVars, executed>>

releaseSlot(c) ==
  /\ pc[c] = "release"
  /\ state' = [state EXCEPT ![slot[c]] = FREE]
  /\ Goto(c, "idle")
  /\ UNCHANGED <<hint, start, at, slot, mySeq, sent, answer, told, seq, doneSeq, inst,
                 body, status, serverVars, completeVars, supVars, reclaimVars,
                 executed>>

\* The thread is terminated, between any two of its steps.
ClientDies(c) ==
  /\ c \in MortalClients
  /\ pc[c] # "gone"
  /\ Goto(c, "gone")
  /\ UNCHANGED <<hint, start, at, slot, mySeq, sent, answer, told, words, serverVars,
                 completeVars, supVars, reclaimVars, executed>>

-----------------------------------------------------------------------------
(* completeSabIoSlot, run by the server for a job and by the supervisor    *)
(* for every request it fails: STATUS, then DONE_SEQ from SEQ, then STATE. *)

PutStatus(a) ==
  /\ cpc[a] = "status"
  /\ status' = [status EXCEPT ![cslot[a]] = cstatus[a]]
  /\ cpc' = [cpc EXCEPT ![a] = "seq"]
  /\ UNCHANGED <<state, seq, doneSeq, inst, body, clientVars, serverVars, cslot,
                 cstatus, cseq, supVars, reclaimVars, executed>>

LoadSeq(a) ==
  /\ cpc[a] = "seq"
  /\ cseq' = [cseq EXCEPT ![a] = seq[cslot[a]]]
  /\ cpc' = [cpc EXCEPT ![a] = "doneSeq"]
  /\ UNCHANGED <<words, clientVars, serverVars, cslot, cstatus, supVars,
                 reclaimVars, executed>>

PutDoneSeq(a) ==
  /\ cpc[a] = "doneSeq"
  /\ doneSeq' = [doneSeq EXCEPT ![cslot[a]] = cseq[a]]
  /\ cpc' = [cpc EXCEPT ![a] = "done"]
  /\ UNCHANGED <<state, seq, inst, body, status, clientVars, serverVars, cslot,
                 cstatus, cseq, supVars, reclaimVars, executed>>

PutDone(a) ==
  /\ cpc[a] = "done"
  /\ state' = [state EXCEPT ![cslot[a]] = DONE]
  /\ cpc' = [cpc EXCEPT ![a] = "none"]
  /\ sat' = IF a = Supervisor THEN sat + 1 ELSE sat
  /\ UNCHANGED <<seq, doneSeq, inst, body, status, clientVars, serverVars, cslot,
                 cstatus, cseq, sup, deaths, reclaimVars, executed>>

StartComplete(a, i, v) ==
  /\ cpc' = [cpc EXCEPT ![a] = "status"]
  /\ cslot' = [cslot EXCEPT ![a] = i]
  /\ cstatus' = [cstatus EXCEPT ![a] = v]
  /\ UNCHANGED cseq

-----------------------------------------------------------------------------
(* The server.  Jobs finish in any order: an open waits for its promise,   *)
(* reads and writes run in chunks.  FlatsqlIoServer models what they do.   *)

serverUp == srv \in {"run", "dying"} /\ cpc[Server] = "none"

\* scanSlots, the compare-exchange of one slot.
ScanSlot(i) ==
  /\ serverUp
  /\ i \notin claimed
  /\ state[i] = PENDING
  /\ state' = [state EXCEPT ![i] = SERVICING]
  /\ claimed' = claimed \cup {i}
  /\ cpc' = [cpc EXCEPT ![Server] = "make"]
  /\ cslot' = [cslot EXCEPT ![Server] = i]
  /\ UNCHANGED <<seq, doneSeq, inst, body, status, clientVars, srv, job, cstatus,
                 cseq, supVars, reclaimVars, executed>>

\* makeJob reads the request's fields once the slot is SERVICING.
makeJob ==
  /\ srv \in {"run", "dying"}
  /\ cpc[Server] = "make"
  /\ job' = [job EXCEPT ![cslot[Server]] = body[cslot[Server]]]
  /\ cpc' = [cpc EXCEPT ![Server] = "none"]
  /\ UNCHANGED <<words, clientVars, srv, claimed, cslot, cstatus, cseq, supVars,
                 reclaimVars, executed>>

\* Mutant: complete keeps the job of the slot.
ExecuteAgain(i) ==
  /\ serverUp
  /\ i \in claimed
  /\ executed' = [executed EXCEPT ![job[i]] = @ + 1]
  /\ StartComplete(Server, i, job[i])
  /\ UNCHANGED <<words, clientVars, srv, claimed, job, supVars, reclaimVars>>

\* A job's last step: its effect, then complete.
Execute(i) ==
  /\ serverUp
  /\ i \in claimed
  /\ executed' = [executed EXCEPT ![job[i]] = @ + 1]
  /\ claimed' = claimed \ {i}
  /\ StartComplete(Server, i, job[i])
  /\ UNCHANGED <<words, clientVars, srv, job, supVars, reclaimVars>>

\* The worker ends between any two of its steps; a new one starts over.
Forget ==
  /\ claimed' = {}
  /\ job' = [i \in Slots |-> NoRequest]
  /\ cpc' = [cpc EXCEPT ![Server] = "none"]

ServerDies ==
  /\ srv = "run" /\ deaths < MaxDeaths
  /\ srv' = "down" /\ deaths' = deaths + 1
  /\ Forget
  /\ UNCHANGED <<words, clientVars, cslot, cstatus, cseq, sup, sat, reclaimVars,
                 executed>>

-----------------------------------------------------------------------------
(* The supervisor: handleDeath of flatsqlIoWorkers.js, whose               *)
(* failPendingSabIoRequests sweeps the ring slot by slot.                  *)

\* The worker's exit or error event arrives.
HandleDeath ==
  /\ sup = "watch" /\ srv = "down"
  /\ sup' = "sweep" /\ sat' = 0
  /\ UNCHANGED <<words, clientVars, serverVars, completeVars, deaths, reclaimVars,
                 executed>>

\* kill(), or an error event of a worker that goes on running: handleDeath
\* terminates it first.  Here the thread stops at once; SabIoLinger has the
\* case that it does not.
Kill ==
  /\ sup = "watch" /\ srv = "run" /\ deaths < MaxDeaths
  /\ sup' = "sweep" /\ sat' = 0 /\ deaths' = deaths + 1
  /\ srv' = "down" /\ Forget
  /\ UNCHANGED <<words, clientVars, cslot, cstatus, cseq, reclaimVars, executed>>

\* Mutant: the sweep leaves out the requests the dead worker had taken up.
onlyPending(i) == state[i] = PENDING

unanswered(i) == state[i] \in {PENDING, SERVICING}

SweepSlot ==
  /\ sup = "sweep" /\ sat < SlotCount /\ cpc[Supervisor] = "none"
  /\ \/ unanswered(sat) /\ StartComplete(Supervisor, sat, Dead) /\ UNCHANGED sat
     \/ ~unanswered(sat) /\ sat' = sat + 1 /\ UNCHANGED completeVars
  /\ UNCHANGED <<words, clientVars, serverVars, sup, deaths, reclaimVars, executed>>

SweepEnd ==
  /\ sup = "sweep" /\ sat = SlotCount
  /\ sup' = IF Restart THEN "restart" ELSE "off"
  /\ UNCHANGED <<words, clientVars, serverVars, completeVars, sat, deaths,
                 reclaimVars, executed>>

\* start(): the replacement's loop runs over the same channel.
ServerRestarts ==
  /\ sup = "restart" /\ srv = "down"
  /\ sup' = "watch" /\ srv' = "run"
  /\ UNCHANGED <<words, clientVars, claimed, job, completeVars, sat, deaths,
                 reclaimVars, executed>>

-----------------------------------------------------------------------------
(* reclaimSabIoSlots(buffer, instanceId): "Call only after every thread of *)
(* the instance is gone".  It may be called again.                         *)

ReclaimBegin(n) ==
  /\ MayReclaim
  /\ rpc = "idle"
  /\ \A c \in Clients : InstanceOf[c] = n => pc[c] = "gone"
  /\ rpc' = "inst" /\ rinst' = n /\ rat' = 0
  /\ UNCHANGED <<words, clientVars, serverVars, completeVars, supVars, executed>>

ReclaimNext ==
  /\ rat' = IF rat + 1 = SlotCount THEN 0 ELSE rat + 1
  /\ rpc' = IF rat + 1 = SlotCount THEN "idle" ELSE "inst"

ReclaimInstance ==
  /\ rpc = "inst"
  /\ \/ inst[rat] # rinst /\ ReclaimNext
     \/ inst[rat] = rinst /\ rpc' = "done" /\ UNCHANGED rat
  /\ UNCHANGED <<words, clientVars, serverVars, completeVars, supVars, rinst,
                 executed>>

\* Mutant: only the slots never submitted are freed.
ReclaimIdleOnly(l, from) ==
  /\ rpc = l
  /\ \/ /\ state[rat] = from /\ from = IDLE
        /\ state' = [state EXCEPT ![rat] = FREE]
        /\ ReclaimNext
     \/ /\ state[rat] # from \/ from = DONE
        /\ IF l = "done" THEN rpc' = "idleCas" /\ UNCHANGED rat ELSE ReclaimNext
        /\ UNCHANGED state
  /\ UNCHANGED <<seq, doneSeq, inst, body, status, clientVars, serverVars,
                 completeVars, supVars, rinst, executed>>

\* The two compare-exchanges, DONE before IDLE.
ReclaimCas(l, from) ==
  /\ rpc = l
  /\ \/ /\ state[rat] = from
        /\ state' = [state EXCEPT ![rat] = FREE]
        /\ ReclaimNext
     \/ /\ state[rat] # from
        /\ IF l = "done" THEN rpc' = "idleCas" /\ UNCHANGED rat ELSE ReclaimNext
        /\ UNCHANGED state
  /\ UNCHANGED <<seq, doneSeq, inst, body, status, clientVars, serverVars,
                 completeVars, supVars, rinst, executed>>

reclaimSabIoSlots == ReclaimInstance \/ ReclaimCas("done", DONE)
                       \/ ReclaimCas("idleCas", IDLE)

-----------------------------------------------------------------------------
Client(c) ==
  \/ BeginScan(c) \/ TryClaim(c) \/ WriteRequest(c) \/ StoreSeq(c) \/ Submit(c)
  \/ PollState(c) \/ PollSeq(c) \/ ReadStatus(c) \/ releaseSlot(c)

Complete(a) == PutStatus(a) \/ LoadSeq(a) \/ PutDoneSeq(a) \/ PutDone(a)

Serve(i) == ScanSlot(i) \/ Execute(i)

Supervise == HandleDeath \/ SweepSlot \/ SweepEnd \/ ServerRestarts

Next ==
  \/ \E c \in Clients : Client(c) \/ ClientDies(c)
  \/ \E a \in Completers : Complete(a)
  \/ \E i \in Slots : Serve(i)
  \/ makeJob \/ ServerDies
  \/ Supervise \/ Kill
  \/ \E c \in Clients : ReclaimBegin(InstanceOf[c])
  \/ reclaimSabIoSlots

Spec == Init /\ [][Next]_vars

\* Threads are scheduled: a client that is not terminated goes on, the server
\* finishes what it started (its loop serves every PENDING slot and every job
\* settles), and the supervisor's event loop runs.
\* A pool's owner that reclaims "call[s] again afterwards".
Fairness ==
  /\ \A c \in Clients : WF_vars(Client(c))
  /\ \A a \in Completers : WF_vars(Complete(a))
  /\ \A i \in Slots : WF_vars(ScanSlot(i)) /\ WF_vars(Execute(i))
  /\ WF_vars(makeJob)
  /\ WF_vars(Supervise)
  /\ WF_vars(\E c \in Clients : ReclaimBegin(InstanceOf[c]))
  /\ WF_vars(reclaimSabIoSlots)

FairSpec == Spec /\ Fairness

-----------------------------------------------------------------------------
(* Properties.                                                             *)

\* A client holds its slot from the compare-exchange to the release.
Holding == {"fill", "seq", "submit", "poll", "check", "read", "release"}

\* "Each request owns its slot until its result is read": no two clients hold
\* one slot, whatever the server, its supervisor and reclaimSabIoSlots do.
SlotIsOwned ==
  \A c, d \in Clients : c # d /\ pc[c] \in Holding /\ pc[d] \in Holding
                         => slot[c] # slot[d]

\* The status a client returns was computed for its own request, or is the
\* supervisor's: a slot used by many clients, failed and served by two servers
\* never answers one request with the result of another.
AnswerIsOwn ==
  \A c \in Clients : pc[c] = "release" => answer[c] \in {<<c, sent[c]>>, Dead}

\* What a client was last told.
Outcome(c) == CASE told[c] = 0 -> "none"
                [] told[c] > 0 /\ answer[c] = Dead -> "lost"
                [] OTHER -> "served"

Ledger == INSTANCE RequestLedger
            WITH ran <- {r \in Requests : executed[r] = 1},
                 last <- [c \in Clients |-> Outcome(c)]

\* The ring keeps the ledger an I/O channel promises: over all interleavings
\* of clients, servers and supervisor a request runs only while its client
\* waits for it, at most once, and a client that reads a served status reads it
\* of a request that ran.
KeepsLedger == Ledger!Spec

\* Every request returns, "so no guest thread stays blocked", even when the
\* worker dies while its client waits for a slot or an answer; unless a thread
\* was terminated, whose slot only comes back with its whole instance.
RequestReturns ==
  \A c \in Clients :
    (pc[c] = "scan") ~> (pc[c] = "idle" \/ \E d \in Clients : pc[d] = "gone")

\* The slots that a dead instance has filled come back to the ring: "Only DONE
\* (completed, never read) and IDLE (claimed, never submitted) slots are freed",
\* and the server completes the others.  A slot that one of its threads claimed
\* and never filled still carries the id of its last user and is passed over.
SlotsComeBack ==
  \A c \in Clients :
    (\A d \in Clients : InstanceOf[d] = InstanceOf[c] => pc[d] = "gone") ~>
      (\A i \in Slots : \/ state[i] = FREE
                         \/ inst[i] # InstanceOf[c]
                         \/ \E d \in Clients : pc[d] \in Holding /\ slot[d] = i)
=============================================================================

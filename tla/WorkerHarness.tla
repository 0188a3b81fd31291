--------------------------- MODULE WorkerHarness ---------------------------
(* A guest module in a worker and the thread that controls it.              *)
(*                                                                          *)
(* Commands go to the worker by messages and come back as results            *)
(* (workerModuleHarness.js, workerModuleHarnessWorker.js).  While a command  *)
(* runs, the guest may call the host: the worker blocks on one shared word   *)
(* while the controlling thread awaits the operation and writes the answer   *)
(* (sabHostcallChannel.js).  One action is one access to the shared words or *)
(* one turn of an event loop.  The status, length and data words hold the    *)
(* number of the call whose answer was stored there, so an answer put        *)
(* together from two calls can be told from a whole one.                     *)
EXTENDS Naturals, Sequences, FiniteSets

CONSTANTS
  MaxCommands,   \* commands the host sends
  MaxHostcalls,  \* host calls the guest makes, over all commands
  MaxTimeouts,   \* calls that may time out
  MayDestroy     \* TRUE when the host may destroy the harness

VARIABLES
  words,      \* the SharedArrayBuffer: state, and whose status, length, data
  guest,      \* the worker's thread: pc, command, call and its loaded words
  replies,    \* what each host call returned to the guest
  earlyWake,  \* a call was woken while its state word was still PENDING
  unposted,   \* commands whose asynchronous result is not posted yet
  toHost,     \* messages from the worker
  toWorker,   \* messages to the worker
  phase,      \* what createWorkerModuleHarness waits for
  pending,    \* the pending table: ids of commands without a result
  settled,    \* what each command's promise came to
  destroyed,
  serving,    \* calls whose dispatch is being awaited
  completing  \* complete() under way on the controlling thread

harnessVars == <<words, guest, replies, earlyWake, unposted, toHost, toWorker,
                 phase, pending, settled, destroyed, serving, completing>>
workerVars == <<guest, replies, earlyWake, unposted>>
controllerVars == <<phase, pending, settled, destroyed, serving>>

Commands == 1..MaxCommands
Hostcalls == 1..MaxHostcalls
INIT == 0   \* the init message; commands are numbered from 1
Idle == [pc |-> "idle", cmd |-> 0, call |-> 0, status |-> 0, length |-> 0]
Nobody == [pc |-> "none", call |-> 0]

asked == Cardinality({c \in Hostcalls : replies[c] # <<"unasked">>})
timedOut == {c \in Hostcalls : replies[c] = <<"timeout">>}

----------------------------------------------------------------------------
(* The worker.                                                              *)

GuestAt(pc) == guest.pc = pc
GuestGoes(pc) == guest' = [guest EXCEPT !.pc = pc]

\* handleInit succeeds or fails; its answer tells the host.
InitWorker ==
  /\ GuestAt("idle") /\ toWorker # <<>> /\ Head(toWorker) = INIT
  /\ toWorker' = Tail(toWorker)
  /\ \E answer \in {"ready", "init-error"} : toHost' = Append(toHost, <<answer>>)
  /\ UNCHANGED <<words, workerVars, controllerVars, completing>>

\* The next command message starts; the guest runs until it has finished.
handleCommand ==
  /\ GuestAt("idle") /\ toWorker # <<>> /\ Head(toWorker) \in Commands
  /\ toWorker' = Tail(toWorker)
  /\ guest' = [Idle EXCEPT !.pc = "run", !.cmd = Head(toWorker)]
  /\ UNCHANGED <<words, replies, earlyWake, unposted, toHost, controllerVars, completing>>

\* The guest returns; the result is posted when the handler's promise settles.
ReturnFromGuest ==
  /\ GuestAt("run")
  /\ guest' = Idle
  /\ unposted' = unposted \union {guest.cmd}
  /\ UNCHANGED <<words, replies, earlyWake, toHost, toWorker, controllerVars, completing>>

PostResult(k) ==
  /\ GuestAt("idle") /\ k \in unposted
  /\ unposted' = unposted \ {k}
  /\ toHost' = Append(toHost, <<"result", k>>)
  /\ UNCHANGED <<words, guest, replies, earlyWake, toWorker, controllerVars, completing>>

\* sabHostcallDispatch: state <- PENDING, then the request, then the wait.
StorePending ==
  /\ GuestAt("run") /\ asked < MaxHostcalls
  /\ words' = [words EXCEPT !.state = "PENDING"]
  /\ guest' = [guest EXCEPT !.pc = "post", !.call = asked + 1]
  /\ replies' = [replies EXCEPT ![asked + 1] = <<"waiting">>]
  /\ UNCHANGED <<earlyWake, unposted, toHost, toWorker, controllerVars, completing>>

postRequest ==
  /\ GuestAt("post") /\ GuestGoes("wait")
  /\ toHost' = Append(toHost, <<"hostcall", guest.call>>)
  /\ UNCHANGED <<words, replies, earlyWake, unposted, toWorker, controllerVars, completing>>

\* Atomics.wait blocks only while the word is PENDING.
AtomicsWait ==
  /\ GuestAt("wait")
  /\ GuestGoes(IF words.state = "PENDING" THEN "blocked" ELSE "status")
  /\ UNCHANGED <<words, replies, earlyWake, unposted, toHost, toWorker, controllerVars, completing>>

WaitAgain ==
  /\ GuestAt("blocked") /\ Cardinality(timedOut) < MaxTimeouts
  /\ GuestGoes("wait")
  /\ UNCHANGED <<words, replies, earlyWake, unposted, toHost, toWorker, controllerVars, completing>>

WaitTimesOut ==
  /\ GuestAt("blocked") /\ Cardinality(timedOut) < MaxTimeouts
  /\ GuestGoes("expired")
  /\ UNCHANGED <<words, replies, earlyWake, unposted, toHost, toWorker, controllerVars, completing>>

ThrowTimeout ==
  /\ GuestAt("expired") /\ GuestGoes("run")
  /\ words' = [words EXCEPT !.state = "IDLE"]
  /\ replies' = [replies EXCEPT ![guest.call] = <<"timeout">>]
  /\ UNCHANGED <<earlyWake, unposted, toHost, toWorker, controllerVars, completing>>

LoadStatus ==
  /\ GuestAt("status")
  /\ guest' = [guest EXCEPT !.pc = "length", !.status = words.status]
  /\ UNCHANGED <<words, replies, earlyWake, unposted, toHost, toWorker, controllerVars, completing>>

LoadLength ==
  /\ GuestAt("length")
  /\ guest' = [guest EXCEPT !.pc = "copy", !.length = words.length]
  /\ UNCHANGED <<words, replies, earlyWake, unposted, toHost, toWorker, controllerVars, completing>>

CopyBytes ==
  /\ GuestAt("copy") /\ GuestGoes("release")
  /\ replies' = [replies EXCEPT ![guest.call] = <<"answer", guest.status, guest.length, words.data>>]
  /\ UNCHANGED <<words, earlyWake, unposted, toHost, toWorker, controllerVars, completing>>

StoreIdle ==
  /\ GuestAt("release") /\ GuestGoes("run")
  /\ words' = [words EXCEPT !.state = "IDLE"]
  /\ UNCHANGED <<replies, earlyWake, unposted, toHost, toWorker, controllerVars, completing>>

\* terminate() takes effect at some later moment.
WorkerStops ==
  /\ destroyed /\ guest.pc # "gone"
  /\ guest' = [Idle EXCEPT !.pc = "gone"]
  /\ unposted' = {}
  /\ UNCHANGED <<words, replies, earlyWake, toHost, toWorker, controllerVars, completing>>

----------------------------------------------------------------------------
(* The controlling thread.  It takes messages only between completions.     *)

Receive(kind) == completing = Nobody /\ toHost # <<>> /\ Head(toHost)[1] = kind
Received == toHost' = Tail(toHost)

WorkerOnline ==
  /\ Receive("worker-online") /\ Received
  /\ toWorker' = Append(toWorker, INIT)
  /\ UNCHANGED <<words, workerVars, controllerVars, completing>>

InitAnswered ==
  /\ Receive("ready") \/ Receive("init-error")
  /\ Received
  /\ phase' = Head(toHost)[1]
  /\ UNCHANGED <<words, workerVars, toWorker, pending, settled, destroyed, serving, completing>>

\* server.handleRequest(message), not awaited: dispatch is under way.
handleRequest ==
  /\ Receive("hostcall") /\ Received
  /\ serving' = serving \union {Head(toHost)[2]}
  /\ UNCHANGED <<words, workerVars, toWorker, phase, pending, settled, destroyed, completing>>

\* The entry a result belongs to.
entryOf(id) == id

handleResult ==
  /\ Receive("result") /\ Received
  /\ LET id == Head(toHost)[2] IN
     IF id \in pending
     THEN /\ pending' = pending \ {entryOf(id)}
          /\ settled' = [settled EXCEPT ![entryOf(id)] = <<"result", id>>]
     ELSE UNCHANGED <<pending, settled>>
  /\ UNCHANGED <<words, workerVars, toWorker, phase, destroyed, serving, completing>>

\* A dispatch settles.  An answer, or the error that replaces one that cannot
\* be encoded or does not fit, is completed; an error envelope that itself
\* does not fit makes data.set throw before anything is stored.
DispatchSettles(c) ==
  /\ completing = Nobody /\ c \in serving
  /\ serving' = serving \ {c}
  /\ \/ completing' = [pc |-> "data", call |-> c]
     \/ UNCHANGED completing
  /\ UNCHANGED <<words, workerVars, toHost, toWorker, phase, pending, settled, destroyed>>

Completes(pc, next, stored) ==
  /\ completing.pc = pc
  /\ completing' = [completing EXCEPT !.pc = next]
  /\ words' = stored
  /\ UNCHANGED <<workerVars, toHost, toWorker, controllerVars>>

CompleteData == Completes("data", "status", [words EXCEPT !.data = completing.call])
CompleteDoneEarly == Completes("status", "length", [words EXCEPT !.status = completing.call, !.state = "DONE"])
CompleteStatus == Completes("status", "length", [words EXCEPT !.status = completing.call])
CompleteLength == Completes("length", "done", [words EXCEPT !.length = completing.call])
CompleteDone == Completes("done", "notify", [words EXCEPT !.state = "DONE"])

\* Atomics.notify wakes the worker if it is blocked, whatever the word holds.
CompleteNotify ==
  /\ completing.pc = "notify"
  /\ completing' = Nobody
  /\ IF GuestAt("blocked")
     THEN /\ GuestGoes("status")
          /\ earlyWake' = (earlyWake \/ words.state = "PENDING")
     ELSE UNCHANGED <<guest, earlyWake>>
  /\ UNCHANGED <<words, replies, unposted, toHost, toWorker, controllerVars>>

\* send(command): refused once the harness is destroyed.
send(k) ==
  /\ completing = Nobody /\ phase = "ready" /\ settled[k] = <<"unsent">>
  /\ \A j \in 1..(k - 1) : settled[j] # <<"unsent">>
  /\ IF destroyed
     THEN /\ settled' = [settled EXCEPT ![k] = <<"rejected">>]
          /\ UNCHANGED <<pending, toWorker>>
     ELSE /\ pending' = pending \union {k}
          /\ settled' = [settled EXCEPT ![k] = <<"open">>]
          /\ toWorker' = Append(toWorker, k)
  /\ UNCHANGED <<words, workerVars, toHost, phase, destroyed, serving, completing>>

destroy ==
  /\ MayDestroy /\ completing = Nobody /\ phase = "ready" /\ ~destroyed
  /\ destroyed' = TRUE
  /\ settled' = [k \in Commands |-> IF k \in pending THEN <<"rejected">> ELSE settled[k]]
  /\ pending' = {}
  /\ UNCHANGED <<words, workerVars, toHost, toWorker, phase, serving, completing>>

----------------------------------------------------------------------------
HarnessInit ==
  /\ words = [state |-> "IDLE", status |-> 0, length |-> 0, data |-> 0]
  /\ guest = Idle
  /\ replies = [c \in Hostcalls |-> <<"unasked">>]
  /\ earlyWake = FALSE
  /\ unposted = {}
  /\ toHost = <<<<"worker-online">>>>
  /\ toWorker = <<>>
  /\ phase = "starting"
  /\ pending = {}
  /\ settled = [k \in Commands |-> <<"unsent">>]
  /\ destroyed = FALSE
  /\ serving = {}
  /\ completing = Nobody

WorkerStep ==
  \/ InitWorker \/ handleCommand \/ ReturnFromGuest \/ StorePending \/ postRequest
  \/ AtomicsWait \/ WaitTimesOut \/ ThrowTimeout \/ LoadStatus \/ LoadLength
  \/ CopyBytes \/ StoreIdle \/ WorkerStops
  \/ \E k \in Commands : PostResult(k)

HostStep ==
  \/ WorkerOnline \/ InitAnswered \/ handleRequest \/ handleResult
  \/ CompleteData \/ CompleteStatus \/ CompleteLength \/ CompleteDone \/ CompleteNotify

HarnessNext ==
  \/ WorkerStep \/ HostStep \/ destroy
  \/ \E c \in Hostcalls : DispatchSettles(c)
  \/ \E k \in Commands : send(k)

HarnessSpec == HarnessInit /\ [][HarnessNext]_harnessVars

----------------------------------------------------------------------------
(* What a host call returned to the guest is its own answer: status, length  *)
(* and bytes are all those the controlling thread stored for this call       *)
(* (sabHostcallDispatch, "read + decode value envelope").                     *)
AnswerOfItsCall ==
  \A c \in Hostcalls : replies[c][1] = "answer" => replies[c] = <<"answer", c, c, c>>

(* As long as no call has timed out and no notification has woken a call     *)
(* before its answer was stored, the answers of complete() are whole and are  *)
(* those of the call that reads them: the order of its stores is enough.      *)
CleanAnswerIsOwn == timedOut = {} /\ ~earlyWake => AnswerOfItsCall

(* Every command the host has sent is answered, even if the host operation   *)
(* its guest waits for never settles: the wait in the worker times out.       *)
CommandSettles ==
  \A k \in Commands : (settled[k] = <<"open">>) ~> (settled[k] # <<"open">>)
=============================================================================

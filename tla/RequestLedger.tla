---------------------------- MODULE RequestLedger ----------------------------
(***************************************************************************)
(* What an I/O channel promises its clients: a request is sent once, run   *)
(* at most once, and only while its client waits; the client is told once. *)
(***************************************************************************)
EXTENDS Naturals

CONSTANTS Clients, MaxRequests

VARIABLES
  sent,   \* requests each client has sent
  told,   \* requests each client has been told the outcome of
  last,   \* the outcome each client was told last: none, served or lost
  ran     \* the requests that took effect

ledger == <<sent, told, last, ran>>

Init ==
  /\ sent = [c \in Clients |-> 0]
  /\ told = [c \in Clients |-> 0]
  /\ last = [c \in Clients |-> "none"]
  /\ ran = {}

\* A client sends its next request when it knows the outcome of the last one.
Send(c) ==
  /\ sent[c] < MaxRequests
  /\ told[c] = sent[c]
  /\ sent' = [sent EXCEPT ![c] = @ + 1]
  /\ UNCHANGED <<told, last, ran>>

\* An outstanding request takes effect, once.
Run(c) ==
  /\ told[c] < sent[c]
  /\ <<c, sent[c]>> \notin ran
  /\ ran' = ran \cup {<<c, sent[c]>>}
  /\ UNCHANGED <<sent, told, last>>

\* The client learns that its request was served, which it then was, or that
\* the server is gone.
Tell(c, outcome) ==
  /\ told[c] < sent[c]
  /\ outcome = "served" => <<c, sent[c]>> \in ran
  /\ last' = [last EXCEPT ![c] = outcome]
  /\ told' = [told EXCEPT ![c] = @ + 1]
  /\ UNCHANGED <<sent, ran>>

Next ==
  \E c \in Clients :
    Send(c) \/ Run(c) \/ Tell(c, "served") \/ Tell(c, "lost")

Spec == Init /\ [][Next]_ledger
=============================================================================

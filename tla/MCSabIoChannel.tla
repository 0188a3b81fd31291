--------------------------- MODULE MCSabIoChannel ---------------------------
(* Instances of SabIoChannel for TLC.                                      *)
EXTENDS SabIoLinger

CONSTANTS c1, c2, c3

\* Clients of one instance and of two; the instance words are 0 at the start.
OneInstance == [c \in Clients |-> 1]
TwoInstances == [c \in Clients |-> IF c = c1 THEN 0 ELSE 1]

NoClients == {}
=============================================================================

------------------------- MODULE MCFlatsqlIoServer --------------------------
(* Instances of FlatsqlIoServer for TLC.                                   *)
EXTENDS FlatsqlIoServer

CONSTANTS c1, c3

\* Client c3 belongs to no instance, the other to instance 1.
OneOfEach == [c \in Clients |-> IF c = c3 THEN Scratch ELSE 1]

\* Truncating opens, a bad path, a probe and a removal by instance 1; a deferred,
\* self-deleting open, an exclusive open and a removal by the other.
MixedMenu ==
  [c \in Clients |->
     IF c = c3
     THEN {<<"f", {"DEFERRED", "DELETE_ON_CLOSE"}>>, <<"f", {"EXCL"}>>, <<"f", {"UNLINK"}>>}
     ELSE {<<"f", {"TRUNC"}>>, <<"bad", {}>>, <<"f", {"PROBE"}>>, <<"f", {"UNLINK"}>>}]

TwoRequests == [c \in Clients |-> IF c = c3 THEN 1 ELSE 2]

\* The instance that may be revoked defers its opens.
DeferringMenu ==
  [c \in Clients |-> IF c = c3 THEN {<<"f", {}>>} ELSE {<<"f", {"DEFERRED"}>>}]
=============================================================================

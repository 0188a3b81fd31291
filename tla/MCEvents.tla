------------------------------ MODULE MCEvents ------------------------------
(* Scans and signals of EventRunner for TLC.                                   *)
EXTENDS EventRunner

(* The signals of the event runner: a wave and one with an exact zero.         *)
Wave(s) == [x \in 0..8 |-> s[x + 1]]
mcWaves == {Wave(<<2, 1, -1, -2, -1, 1, 2, 1, -1>>), Wave(<<1, 1, -1, -1, 1, 1, 0, 1, 1>>)}
mcSignals == [1..2 -> mcWaves]
BaseScan ==
  [start |-> 0, span |-> 8, step |-> 3, tolerance |-> 1, vtol |-> 0, maxIterations |-> 2,
   method |-> "bisection", direction |-> 0, compDirection |-> [c \in 1..2 |-> 0],
   occurrence |-> 0, compOccurrence |-> [c \in 1..2 |-> 0], component |-> 0, maxEvents |-> 0,
   maxEvaluations |-> 0, continuity |-> [c \in 1..2 |-> "smooth"]]
Backward(s) == [s EXCEPT !.start = 8, !.span = -8]
mcScans ==
  {[BaseScan EXCEPT !.method = m, !.maxEvents = n] : m \in {"bisection", "brent", "illinois"}, n \in {0, 2}}
  \cup UNION {{s, Backward(s)} : s \in {[BaseScan EXCEPT !.occurrence = o, !.continuity[1] = "discrete"] : o \in {0, 2}}}
  \cup {Backward([BaseScan EXCEPT !.method = "brent", !.compOccurrence[1] = 2, !.maxEvaluations = 5,
                                  !.continuity[1] = "piecewise", !.direction = d]) : d \in {-1, 0}}
=============================================================================

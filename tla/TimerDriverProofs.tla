------------------------- MODULE TimerDriverProofs -------------------------
(* The timer driver keeps its promises for any set of timers, any history     *)
(* length and any number of ticks, manual runs, stops and restarts.           *)
EXTENDS TimerDriver, TLAPS

\* The promises need one another and the fact that a stopped driver has no
\* handles: start would otherwise overwrite one.
TimerInv ==
  /\ handle \in [Timers -> Nat] /\ created \in [Timers -> Nat] /\ awaiting \in [Timers -> Nat]
  /\ inFlight \in [Timers -> BOOLEAN] /\ started \in BOOLEAN
  /\ intervals \in [Timers -> SUBSET Nat]
  /\ RunsAreSerialized
  /\ OneSchedule
  /\ ~started => \A t \in Timers : handle[t] = 0

----------------------------------------------------------------------------
\* start gives each enabled timer its first and only interval.
LEMMA StartKeeps == ASSUME TimerInv, start PROVE TimerInv'
<1>1. \A t \in Timers : handle[t] = 0 /\ intervals[t] = {}
  BY DEF TimerInv, OneSchedule, start
<1>2. created' \in [Timers -> Nat] /\ \A t \in EnabledTimers \cap Timers : created'[t] > 0
  BY DEF TimerInv, start
<1>3. handle' \in [Timers -> Nat] /\ intervals' \in [Timers -> SUBSET Nat]
  BY <1>1, <1>2 DEF TimerInv, start
<1>4. OneSchedule'
  <2> SUFFICES ASSUME NEW t \in Timers
               PROVE intervals'[t] = IF handle'[t] = 0 THEN {} ELSE {handle'[t]}
    BY DEF OneSchedule
  <2>1. CASE t \in EnabledTimers
    <3>1. handle'[t] = created'[t] /\ intervals'[t] = {} \union {created'[t]} /\ created'[t] # 0
      BY <1>1, <1>2, <2>1 DEF start
    <3> QED BY <3>1
  <2>2. CASE t \notin EnabledTimers
    BY Zenon, <1>1, <2>2 DEF start
  <2> QED BY <2>1, <2>2
<1>5. /\ awaiting' \in [Timers -> Nat] /\ inFlight' \in [Timers -> BOOLEAN] /\ started' = TRUE
      /\ RunsAreSerialized'
  BY DEF TimerInv, RunsAreSerialized, start
<1> QED BY <1>2, <1>3, <1>4, <1>5 DEF TimerInv

\* stop clears the interval each handle names, so all of them.
LEMMA StopKeeps == ASSUME TimerInv, stop PROVE TimerInv'
<1>1. \A t \in Timers : intervals'[t] = {}
  BY DEF TimerInv, OneSchedule, stop
<1>2. handle' \in [Timers -> Nat] /\ \A t \in Timers : handle'[t] = 0
  BY DEF stop
<1>3. intervals' \in [Timers -> SUBSET Nat]
  BY <1>1 DEF stop
<1>4. /\ awaiting' \in [Timers -> Nat] /\ inFlight' \in [Timers -> BOOLEAN] /\ started' \in BOOLEAN
      /\ created' \in [Timers -> Nat] /\ RunsAreSerialized'
  BY Zenon DEF TimerInv, RunsAreSerialized, stop
<1> QED BY <1>1, <1>2, <1>3, <1>4 DEF TimerInv, OneSchedule

\* A tick or a manual run invokes only a timer that is not in flight.
LEMMA FireKeeps == ASSUME TimerInv, NEW t \in Timers, fire(t) PROVE TimerInv'
<1>1. CASE inFlight[t]
  BY <1>1 DEF TimerInv, RunsAreSerialized, OneSchedule, fire
<1>2. CASE ~inFlight[t]
  <2>1. awaiting' = [awaiting EXCEPT ![t] = 1] /\ inFlight' = [inFlight EXCEPT ![t] = TRUE]
    BY <1>2 DEF TimerInv, RunsAreSerialized, fire
  <2> QED BY <1>2, <2>1 DEF TimerInv, RunsAreSerialized, OneSchedule, fire
<1> QED BY <1>1, <1>2

\* The one invocation of a timer settles: the timer is free again.
LEMMA SettleKeeps == ASSUME TimerInv, NEW t \in Timers, InvokeSettles(t) PROVE TimerInv'
<1>1. awaiting[t] = 1
  BY DEF TimerInv, RunsAreSerialized, InvokeSettles
<1>2. awaiting' = [awaiting EXCEPT ![t] = 0] /\ inFlight' = [inFlight EXCEPT ![t] = FALSE]
  BY <1>1 DEF InvokeSettles
<1> QED BY <1>2 DEF TimerInv, RunsAreSerialized, OneSchedule, InvokeSettles

----------------------------------------------------------------------------
(* Runs of a timer are serialized and it has at most the one interval its     *)
(* handle names, whatever the order of start, stop, ticks and runNow          *)
(* (createTimerDriver).                                                       *)
THEOREM TimerDriverIsSafe == TimerSpec => [](RunsAreSerialized /\ OneSchedule)
<1>1. TimerInit => TimerInv
  <2> SUFFICES ASSUME TimerInit PROVE TimerInv
    OBVIOUS
  <2>1. /\ handle \in [Timers -> Nat] /\ created \in [Timers -> Nat] /\ awaiting \in [Timers -> Nat]
        /\ inFlight \in [Timers -> BOOLEAN] /\ started = FALSE
    BY DEF TimerInit
  <2>2. intervals \in [Timers -> SUBSET Nat]
    BY DEF TimerInit
  <2>3. RunsAreSerialized
    BY DEF TimerInit, RunsAreSerialized
  <2>4. OneSchedule
    BY DEF TimerInit, OneSchedule
  <2> QED BY Zenon, <2>1, <2>2, <2>3, <2>4 DEF TimerInv, TimerInit
<1>2. ASSUME TimerInv, [TimerNext]_timerVars PROVE TimerInv'
  <2>1. CASE UNCHANGED timerVars
    BY <1>2, <2>1 DEF timerVars, TimerInv, RunsAreSerialized, OneSchedule
  <2>2. CASE start \/ stop
    BY <1>2, <2>2, StartKeeps, StopKeeps
  <2>3. ASSUME NEW t \in Timers, Tick(t) \/ runNow(t) \/ InvokeSettles(t)
        PROVE TimerInv'
    BY <1>2, <2>3, FireKeeps, SettleKeeps DEF Tick, runNow
  <2> QED BY <1>2, <2>1, <2>2, <2>3 DEF TimerNext
<1>3. TimerInv => RunsAreSerialized /\ OneSchedule
  BY DEF TimerInv
<1> QED BY <1>1, <1>2, <1>3, PTL DEF TimerSpec
=============================================================================

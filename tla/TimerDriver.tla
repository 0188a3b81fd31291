---------------------------- MODULE TimerDriver ----------------------------
(* The timer driver (timerDriver.js): an interval per enabled timer, whose   *)
(* ticks and manual runs invoke the timer's method.  The driver is           *)
(* single-threaded; it gives the thread away only while it awaits invoke.     *)
(* Intervals are the platform's: they tick while they are alive.             *)
EXTENDS Naturals, Sequences, FiniteSets

CONSTANTS
  Timers,
  EnabledTimers,
  maxRunHistory,
  MaxIntervals,   \* intervals ever created per timer
  MaxRuns         \* calls of fire

VARIABLES
  handle,     \* per timer: its interval, 0 for null
  inFlight,
  runs,       \* per timer: statuses of the last runs
  started,
  intervals,  \* per timer: intervals alive on the platform
  created,    \* per timer: intervals created so far
  awaiting,   \* per timer: invocations that have not settled
  fires       \* calls of fire so far

timerVars == <<handle, inFlight, runs, started, intervals, created, awaiting, fires>>

\* record: append, then drop the oldest beyond maxRunHistory.
record(history, status) ==
  LET all == Append(history, status)
      extra == IF Len(all) > maxRunHistory THEN Len(all) - maxRunHistory ELSE 0
  IN SubSeq(all, extra + 1, Len(all))

\* fire: a run in flight makes this one a skipped record.
fireAnyway(t) ==
  /\ fires < MaxRuns /\ fires' = fires + 1
  /\ inFlight' = [inFlight EXCEPT ![t] = TRUE]
  /\ awaiting' = [awaiting EXCEPT ![t] = @ + 1]
  /\ UNCHANGED <<handle, started, intervals, created, runs>>

fire(t) ==
  /\ fires < MaxRuns /\ fires' = fires + 1
  /\ IF inFlight[t]
     THEN /\ runs' = [runs EXCEPT ![t] = record(@, "skipped")]
          /\ UNCHANGED <<inFlight, awaiting>>
     ELSE /\ inFlight' = [inFlight EXCEPT ![t] = TRUE]
          /\ awaiting' = [awaiting EXCEPT ![t] = @ + 1]
          /\ UNCHANGED runs
  /\ UNCHANGED <<handle, started, intervals, created>>

Tick(t) == intervals[t] # {} /\ fire(t)
runNow(t) == fire(t)

\* invoke settles; finally: the flag first, then the record, whose onRun hook
\* may throw without leaving the timer in flight.
InvokeSettles(t) ==
  /\ awaiting[t] > 0
  /\ awaiting' = [awaiting EXCEPT ![t] = @ - 1]
  /\ inFlight' = [inFlight EXCEPT ![t] = FALSE]
  /\ \E status \in {"ok", "error"} : runs' = [runs EXCEPT ![t] = record(@, status)]
  /\ UNCHANGED <<handle, started, intervals, created, fires>>

start ==
  /\ ~started /\ \A t \in Timers : created[t] < MaxIntervals
  /\ started' = TRUE
  /\ created' = [t \in Timers |-> IF t \in EnabledTimers THEN created[t] + 1 ELSE created[t]]
  /\ handle' = [t \in Timers |-> IF t \in EnabledTimers THEN created'[t] ELSE handle[t]]
  /\ intervals' = [t \in Timers |-> IF t \in EnabledTimers THEN intervals[t] \union {created'[t]}
                                    ELSE intervals[t]]
  /\ UNCHANGED <<inFlight, runs, awaiting, fires>>

stop ==
  /\ intervals' = [t \in Timers |-> intervals[t] \ {handle[t]}]
  /\ handle' = [t \in Timers |-> 0]
  /\ started' = FALSE
  /\ UNCHANGED <<inFlight, runs, created, awaiting, fires>>

TimerInit ==
  /\ handle = [t \in Timers |-> 0]
  /\ inFlight = [t \in Timers |-> FALSE]
  /\ runs = [t \in Timers |-> <<>>]
  /\ started = FALSE
  /\ intervals = [t \in Timers |-> {}]
  /\ created = [t \in Timers |-> 0]
  /\ awaiting = [t \in Timers |-> 0]
  /\ fires = 0

TimerNext ==
  \/ start \/ stop
  \/ \E t \in Timers : Tick(t) \/ runNow(t) \/ InvokeSettles(t)

TimerSpec == TimerInit /\ [][TimerNext]_timerVars

----------------------------------------------------------------------------
(* "runs of the same timer are serialized": at most one invocation of a       *)
(* timer is under way, through ticks, manual runs, stops and restarts, and    *)
(* inFlight is set exactly while there is one, so no run blocks the timer      *)
(* after it has settled.                                                      *)
RunsAreSerialized ==
  \A t \in Timers : awaiting[t] = IF inFlight[t] THEN 1 ELSE 0

(* start and stop in any order leave a timer with at most the one interval     *)
(* its handle names: none survives a stop, where nothing could clear it.       *)
OneSchedule ==
  \A t \in Timers : intervals[t] = IF handle[t] = 0 THEN {} ELSE {handle[t]}
=============================================================================

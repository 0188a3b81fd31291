---------------------------- MODULE EventRunner ----------------------------
(* The event runner (include/orbpro/orbpro_event_runner.h): it looks for the  *)
(* zeros of the event functions g of a locator by sampling an interval and    *)
(* refining every sign change.  It is suspended at every evaluation: next      *)
(* asks the consumer for the states at some epochs, supply brings them.        *)
(*                                                                            *)
(* Time is the integer grid of the signals, so the tolerance is at least one.  *)
(* Bisection is exact on it.  What Illinois and Brent interpolate is any point *)
(* strictly inside the bracket: the code falls back to the midpoint when       *)
(* Illinois leaves it, and accepts a Brent step only towards c and short of it.*)
(* Component summaries and the flags of a hit are left out.                    *)
EXTENDS Integers, Sequences, FiniteSets

CONSTANTS
  EventComponents,  \* 1..component_count
  Scans,            \* the scans a consumer may begin: interval, policy, filters
  Signals,          \* what g may be: component -> epoch -> value
  Capacities,       \* epoch_capacity of a call of next
  SCAN_BATCH, MAX_PENDING, MAX_HITS,
  MaxEvalFailures   \* evaluations that return an error

VARIABLES
  signal,    \* g, a pure function of the epoch
  scan,      \* the scan under way
  runner,    \* OrbProEventRunner
  answered,  \* next has returned 0
  evalFailures

eventVars == <<signal, scan, runner, answered, evalFailures>>

Abs(v) == IF v < 0 THEN -v ELSE v
sign(v) == IF v > 0 THEN 1 ELSE IF v < 0 THEN -1 ELSE 0
g(comp, t) == signal[comp][scan.start + t]

\* Both ends are sampled, the last step being cut to the end of the interval.
sampleCount(q) ==
  LET steps == Abs(q.span) \div q.step + IF Abs(q.span) % q.step > 0 THEN 1 ELSE 0
  IN (IF steps = 0 THEN 1 ELSE steps) + 1

sampleTime(q, k) ==
  IF k >= sampleCount(q) - 1 THEN q.span ELSE k * q.step * sign(q.span)

----------------------------------------------------------------------------
(* Results.                                                                  *)
later(prior, t) == IF scan.span < 0 THEN prior < t ELSE prior > t

insertHit(hits, hit) ==
  LET Later(h) == later(h.t, hit.t)
      Before(h) == ~Later(h)
  IN SelectSeq(hits, Before) \o <<hit>> \o SelectSeq(hits, Later)

\* max_events: the list is cut and the scan is over.
capped(r) ==
  IF scan.maxEvents = 0 \/ Len(r.hits) < scan.maxEvents THEN r
  ELSE [r EXCEPT !.phase = "done",
                 !.truncated = @ \/ Len(r.hits) > scan.maxEvents,
                 !.hits = SubSeq(@, 1, scan.maxEvents)]

filtered(comp, n) ==
  \/ scan.compOccurrence[comp] \notin {0, n}
  \/ scan.occurrence \notin {0, n}

\* One more qualifying crossing of comp; it is reported if no filter on the
\* occurrence refuses it.
record_hit(r, comp, hit) ==
  LET n == r.qualifying[comp] + 1
      counted == [r EXCEPT !.qualifying[comp] = n]
  IN IF filtered(comp, n) THEN counted
     ELSE IF Len(r.hits) >= MAX_HITS THEN [counted EXCEPT !.truncated = TRUE]
     ELSE capped([counted EXCEPT !.hits = insertHit(@, hit)])

----------------------------------------------------------------------------
(* Refinement.  at is the sample that closed the bracket.                     *)
middle(br) == (br.a + br.c) \div 2

bracket_begin(comp, at, lo, hi, dir) ==
  [comp |-> comp, at |-> at, dir |-> dir, a |-> lo, b |-> hi, c |-> hi,
   iterations |-> 0, awaiting |-> FALSE, done |-> FALSE, status |-> "converged",
   method |-> IF scan.continuity[comp] = "piecewise" /\ scan.method = "brent"
              THEN "bisection" ELSE scan.method]

closeEnough(br, width) ==
  \/ g(br.comp, br.b) = 0
  \/ scan.vtol > 0 /\ (br.method = "brent" \/ br.iterations > 0)
                   /\ Abs(g(br.comp, br.b)) <= scan.vtol
  \/ width <= scan.tolerance

finishBracket(br, b, status) == [br EXCEPT !.b = b, !.done = TRUE, !.status = status]

\* Bisection and Illinois: a and c are the bracket, b the last probe.
narrowed(br) ==
  IF br.iterations = 0 THEN br
  ELSE IF (g(br.comp, br.b) > 0) = (g(br.comp, br.a) > 0)
       THEN [br EXCEPT !.a = br.b] ELSE [br EXCEPT !.c = br.b]

advanceBisection(old) ==
  LET br == narrowed(old)
  IN IF closeEnough(br, Abs(br.c - br.a))
     THEN finishBracket(br, IF br.iterations > 0 THEN br.b ELSE middle(br), "converged")
     ELSE IF br.iterations >= scan.maxIterations
     THEN finishBracket(br, middle(br), "max_iterations")
     ELSE [br EXCEPT !.iterations = @ + 1]

\* Brent: b is the best estimate, c the other end of the bracket.
opposed(br) ==
  IF sign(g(br.comp, br.b)) * sign(g(br.comp, br.c)) > 0 THEN [br EXCEPT !.c = br.a] ELSE br
bestFirst(br) ==
  IF Abs(g(br.comp, br.c)) < Abs(g(br.comp, br.b))
  THEN [br EXCEPT !.a = br.b, !.b = br.c, !.c = br.b] ELSE br

advanceBrent(old) ==
  LET br == bestFirst(opposed(old))
  IN IF closeEnough(br, Abs(br.c - br.b)) THEN finishBracket(br, br.b, "converged")
     ELSE IF br.iterations >= scan.maxIterations THEN finishBracket(br, br.b, "max_iterations")
     ELSE [br EXCEPT !.a = br.b, !.iterations = @ + 1]

bracket_advance(br) ==
  IF br.method = "brent" THEN advanceBrent(br) ELSE advanceBisection(br)

\* Where the next evaluation may be.
probes(br) ==
  IF br.method = "bisection" THEN {middle(br)}
  ELSE {t \in -Abs(scan.span)..Abs(scan.span) : (br.a < t /\ t < br.c) \/ (br.c < t /\ t < br.a)}

hitOf(br) == [comp |-> br.comp, at |-> br.at, t |-> br.b, dir |-> br.dir, status |-> br.status]

----------------------------------------------------------------------------
(* supply, one sample: every component in turn.                               *)
wanted(comp, dir) ==
  /\ scan.component \in {0, comp}
  /\ scan.compDirection[comp] \in {0, dir}
  /\ scan.direction \in {0, dir}

crosses(prev, now) == sign(prev) # 0 /\ sign(now) # sign(prev)

dropsQuietly(r, br) ==
  IF br.done THEN record_hit(r, br.comp, hitOf(br))
  ELSE IF Len(r.pending) >= MAX_PENDING THEN r
  ELSE [r EXCEPT !.pending = Append(@, br)]

\* A bracket is queued unless its first step already ends it.
queued(r, br) ==
  IF Len(r.pending) >= MAX_PENDING THEN [r EXCEPT !.truncated = TRUE]
  ELSE IF br.done THEN record_hit(r, br.comp, hitOf(br))
  ELSE [r EXCEPT !.pending = Append(@, br)]

seenBy(r, comp, at, t) ==
  LET now == g(comp, t)
      dir == IF now > r.prev[comp] THEN 1 ELSE -1
      seen(status) == [comp |-> comp, at |-> at, t |-> t, dir |-> dir, status |-> status]
  IN IF ~r.havePrevious \/ ~crosses(r.prev[comp], now) \/ ~wanted(comp, dir) THEN r
     ELSE IF scan.continuity[comp] = "discrete" THEN record_hit(r, comp, seen("discontinuous"))
     ELSE IF now = 0 THEN record_hit(r, comp, seen("converged"))
     ELSE queued(r, bracket_advance(bracket_begin(comp, at, r.prevT, t, dir)))

sampled(r, at, t) ==
  LET over[comp \in 0..Cardinality(EventComponents)] ==
        IF comp = 0 THEN r ELSE seenBy(over[comp - 1], comp, at, t)
  IN [over[Cardinality(EventComponents)] EXCEPT
        !.prev = [comp \in EventComponents |-> g(comp, t)],
        !.prevT = t, !.havePrevious = TRUE, !.evaluations = @ + 1]

\* The first n of the supplied samples; a cap that is reached ends the loop.
afterSamples(r, n) ==
  LET upTo[i \in 0..n] ==
        IF i = 0 THEN r
        ELSE IF upTo[i - 1].phase = "done" THEN upTo[i - 1]
        ELSE sampled(upTo[i - 1], r.nextSample + i - 1, r.outstanding[i])
  IN upTo[n]

----------------------------------------------------------------------------
IdleRunner ==
  [phase |-> "idle", nextSample |-> 0, outstanding |-> <<>>, havePrevious |-> FALSE,
   prevT |-> 0, prev |-> [comp \in EventComponents |-> 0],
   qualifying |-> [comp \in EventComponents |-> 0],
   pending |-> <<>>, hits |-> <<>>, truncated |-> FALSE, evaluations |-> 0]

EventInit ==
  /\ signal \in Signals /\ scan \in Scans
  /\ runner = IdleRunner /\ answered = FALSE /\ evalFailures = 0

begin ==
  /\ runner.phase = "idle"
  /\ runner' = [IdleRunner EXCEPT !.phase = "scan"]
  /\ UNCHANGED <<signal, scan, answered, evalFailures>>

\* next: what is asked of the consumer, or that there is nothing more to ask.
mayAsk == runner.phase # "idle" /\ runner.outstanding = <<>> /\ ~answered
spent == scan.maxEvaluations # 0 /\ runner.evaluations >= scan.maxEvaluations
over == runner.phase = "done" \/ spent

NextEnds ==
  /\ mayAsk /\ (over \/ (runner.pending = <<>> /\ runner.nextSample >= sampleCount(scan)))
  /\ runner' = [runner EXCEPT !.phase = "done",
       !.truncated = \/ @ \/ spent
                     \/ over /\ (runner.pending # <<>> \/ runner.nextSample < sampleCount(scan))]
  /\ answered' = TRUE
  /\ UNCHANGED <<signal, scan, evalFailures>>

NextProbe ==
  /\ mayAsk /\ ~over /\ runner.pending # <<>>
  /\ \E t \in IF runner.pending[1].awaiting THEN {runner.pending[1].b} ELSE probes(runner.pending[1]) :
       runner' = [runner EXCEPT !.phase = "refine", !.outstanding = <<t>>,
                                !.pending[1].b = t, !.pending[1].awaiting = TRUE]
  /\ UNCHANGED <<signal, scan, answered, evalFailures>>

NextBatch(capacity) ==
  /\ mayAsk /\ ~over /\ runner.pending = <<>> /\ runner.nextSample < sampleCount(scan)
  /\ LET remaining == sampleCount(scan) - runner.nextSample
         want == CHOOSE n \in {remaining, SCAN_BATCH, capacity} :
                   \A m \in {remaining, SCAN_BATCH, capacity} : n <= m
     IN runner' = [runner EXCEPT !.phase = "scan",
          !.outstanding = [i \in 1..want |-> sampleTime(scan, runner.nextSample + i - 1)]]
  /\ UNCHANGED <<signal, scan, answered, evalFailures>>

SupplyProbe ==
  /\ runner.phase = "refine" /\ runner.outstanding # <<>>
  /\ LET br == bracket_advance([runner.pending[1] EXCEPT !.awaiting = FALSE])
         r == [runner EXCEPT !.outstanding = <<>>, !.evaluations = @ + 1, !.phase = "scan"]
     IN runner' = IF ~br.done THEN [r EXCEPT !.pending[1] = br]
                  ELSE [record_hit(r, br.comp, hitOf(br)) EXCEPT !.pending = Tail(@)]
  /\ UNCHANGED <<signal, scan, answered, evalFailures>>

SupplyBatch ==
  /\ runner.phase = "scan" /\ runner.outstanding # <<>>
  /\ \E r \in {afterSamples(runner, Len(runner.outstanding))} :
       runner' = [r EXCEPT !.outstanding = <<>>,
         !.nextSample = @ + Len(runner.outstanding),
         !.phase = IF r.pending = <<>> /\ r.nextSample + Len(runner.outstanding) >= sampleCount(scan)
                   THEN "done" ELSE @]
  /\ UNCHANGED <<signal, scan, answered, evalFailures>>

\* eval returns an error: the samples before it stay seen, and the next call
\* asks for the whole batch, or for the same probe, again.
SupplyFails ==
  /\ runner.outstanding # <<>> /\ evalFailures < MaxEvalFailures
  /\ \/ runner.phase = "refine" /\ runner' = [runner EXCEPT !.outstanding = <<>>]
     \/ /\ runner.phase = "scan"
        /\ \E n \in 0..Len(runner.outstanding) - 1 :
             \E r \in {afterSamples(runner, n)} :
               r.phase # "done" /\ runner' = [r EXCEPT !.outstanding = <<>>]
  /\ evalFailures' = evalFailures + 1
  /\ UNCHANGED <<signal, scan, answered>>

EventNext ==
  \/ begin \/ NextEnds \/ NextProbe \/ SupplyProbe \/ SupplyBatch \/ SupplyFails
  \/ \E capacity \in Capacities : NextBatch(capacity)

EventSpec == EventInit /\ [][EventNext]_eventVars

----------------------------------------------------------------------------
(* What the samples say, without the runner.                                  *)
SampleOf(comp, k) == g(comp, sampleTime(scan, k))
Crossings(comp) ==
  {k \in 1..sampleCount(scan) - 1 :
     /\ crosses(SampleOf(comp, k - 1), SampleOf(comp, k))
     /\ wanted(comp, IF SampleOf(comp, k) > SampleOf(comp, k - 1) THEN 1 ELSE -1)}
Unfiltered == scan.occurrence = 0 /\ \A comp \in EventComponents : scan.compOccurrence[comp] = 0
HitsOf(comp) == {i \in 1..Len(runner.hits) : runner.hits[i].comp = comp}
Reported(comp) == {runner.hits[i].at : i \in HitsOf(comp)}

\* g is zero at a hit or within the value tolerance, or changes sign within the
\* epoch tolerance.
IsRoot(h) ==
  \/ Abs(g(h.comp, h.t)) <= scan.vtol
  \/ \E t \in h.t - scan.tolerance..h.t + scan.tolerance :
       /\ scan.start + t \in DOMAIN signal[h.comp]
       /\ sign(g(h.comp, t)) # sign(g(h.comp, h.t))

\* The list of hits is in scan order, whatever the order in which refinement
\* and the scan discover them (orbpro_event_record_hit inserts them); and a scan
\* that ends without saying it was truncated has reported every qualifying
\* crossing of the samples once, when neither a cap nor a filter on the
\* occurrence was asked for and no evaluation failed.  A hit refined to
\* convergence is a root: orbpro_event_bracket_advance keeps the sign change
\* inside the bracket, through every suspension.
HitsAreTheCrossings ==
  /\ \A i \in 1..Len(runner.hits) : runner.hits[i].status = "converged" => IsRoot(runner.hits[i])
  /\ \A i, j \in 1..Len(runner.hits) : i < j => ~later(runner.hits[i].t, runner.hits[j].t)
  /\ answered /\ ~runner.truncated /\ scan.maxEvents = 0 /\ Unfiltered /\ evalFailures = 0 =>
       \A comp \in EventComponents :
         Reported(comp) = Crossings(comp) /\ Cardinality(HitsOf(comp)) = Cardinality(Crossings(comp))

Dropped == {<<comp, k>> \in EventComponents \X (1..sampleCount(scan) - 1) :
              k \in Crossings(comp) \ Reported(comp)}

\* max_events keeps crossings of the first samples: none that it drops was
\* closed by an earlier sample than one it reports; docs/events-abi.md: "A
\* nonzero cap returns the first N IN SCAN ORDER".
FirstEventsInScanOrder ==
  answered /\ scan.maxEvents # 0 /\ Unfiltered /\ evalFailures = 0 =>
    \A d \in Dropped : \A i \in 1..Len(runner.hits) : runner.hits[i].at <= d[2]
=============================================================================

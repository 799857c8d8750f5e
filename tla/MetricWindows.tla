---------------------------- MODULE MetricWindows ----------------------------
(* What MetricsApi and AnomalyDetection leave abstract: the numbers.         *)
(* MetricAggregationService turns the telemetry of one service into one row  *)
(* per minute and endpoint (None: the whole service) each time a read misses *)
(* the cache; MetricsApiService adds the rows up; detect_for_service takes   *)
(* the rows of the last minutes for windows and compares one with the rest.  *)
(*                                                                           *)
(* A clock tick is a part of a minute, so that a minute can be seen before   *)
(* it is over; now = t is an instant between tick t and the next.            *)
(* Latencies are multiples of 2 ms and percentiles are given in twentieths   *)
(* of that, tenths of a millisecond, which makes numpy's interpolation       *)
(* exact; error rates are multiples of 1 / RateScale, to which the program   *)
(* rounds them.  The average and the other percentiles are computed like the *)
(* 95th and decide nothing: they are left out, and so is the health of the   *)
(* service, which MetricsApi models.                                         *)
EXTENDS Integers, FiniteSets, FiniteSetsExt, Bags

CONSTANTS
    Endpoints,        \* endpoints of the service
    Samples,          \* [endpoint, latency, error]: what an event can be
    TicksPerMinute,
    WindowMinutes,    \* what window_minutes of a read can be
    SnapshotMinutes,  \* CURRENT_SNAPSHOT_MINUTES
    BaselineWindows,  \* BASELINE_WINDOWS
    SlackMinutes,     \* what detect_for_service adds to TOTAL_WINDOWS
    MinPoints,        \* MIN_BASELINE_POINTS, MIN_TRAINING_POINTS
    RateScale,        \* 10^6: error rates are rounded to six digits
    RoundedUp,        \* <<errors, requests>> whose rate, a tie, is rounded up
    Inexact,          \* <<windows, p95>>: constant baselines whose float mean
                      \* is not that p95, and whose deviation is not 0
    ForestScores,     \* scores of the isolation forest, in quarters
    PerMinute,        \* bound of the events of a minute
    MaxTime,          \* bound of the clock
    MaxReads,         \* bound of the reads
    None

ASSUME WindowsAssumption ==
    /\ IsFiniteSet(Endpoints) /\ None \notin Endpoints
    /\ Samples \subseteq [endpoint : Endpoints, latency : Nat, error : BOOLEAN]
    /\ IsFiniteSet(Samples)
    /\ TicksPerMinute \in Nat \ {0} /\ SnapshotMinutes \in Nat \ {0}
    /\ \A w \in WindowMinutes : w \in Nat /\ w >= SnapshotMinutes
    /\ BaselineWindows \in Nat /\ SlackMinutes \in Nat
    /\ MinPoints \in Nat \ {0, 1} /\ MinPoints <= BaselineWindows
    /\ RateScale \in Nat \ {0}
    /\ \A x \in Inexact : x[2] % 5 # 0
    /\ ForestScores \subseteq 0..4
    /\ PerMinute \in Nat /\ MaxTime \in Nat /\ MaxReads \in Nat

VARIABLES
    now,      \* the clock
    events,   \* telemetry_events: minute -> how many of each sample
    rows,     \* metric_aggregates, committed: a bag of rows
    pc,       \* where the read in progress is
    width,    \* its window_minutes
    seen,     \* the events there were when it began
    pending,  \* the rows it has written and not committed
    reads,    \* the reads that have begun
    verdict   \* what a detection has found, if that was the last step

read == <<pc, width, seen, pending, reads>>
vars == <<now, events, rows, read, verdict>>

Minutes == 0..(MaxTime \div TicksPerMinute)
MinuteOf(t) == t \div TicksPerMinute
Severities == {"LOW", "MEDIUM", "HIGH", "CRITICAL"}
MetricNames == {"latency", "error_rate", "throughput"}

Row == [endpoint : Endpoints \cup {None}, window : Minutes,
        requests : Nat \ {0}, errors : Nat, p95 : Nat]

(* Types; and only a read in progress has uncommitted rows.                  *)
TypeOK ==
    /\ now \in 0..MaxTime
    /\ events \in [Minutes -> [Samples -> 0..PerMinute]]
    /\ \A r \in DOMAIN rows \cup DOMAIN pending :
         /\ r \in Row
         /\ r.errors <= r.requests
    /\ pc \in {"idle", "service", "endpoints", "report"}
    /\ width \in IF pc = "idle" THEN {0} ELSE WindowMinutes
    /\ pc \in {"idle", "service"} => pending = EmptyBag
    /\ reads \in 0..MaxReads
    /\ verdict = None \/ verdict.severity \in Severities

NoEvents == [m \in Minutes |-> [s \in Samples |-> 0]]

Init ==
    /\ now = 0
    /\ events = NoEvents
    /\ rows = EmptyBag
    /\ pc = "idle"
    /\ width = 0
    /\ seen = events
    /\ pending = EmptyBag
    /\ reads = 0
    /\ verdict = None

----------------------------------------------------------------------------
(* _calculate_metrics.                                                       *)

(* The sum of the values of a function: of a bag, its size.                  *)
Total(b) == MapThenSumSet(LAMBDA s : b[s], DOMAIN b)
OfEndpoint(b, e) == [s \in {t \in Samples : e \in {None, t.endpoint}} |-> b[s]]

(* The i-th smallest latency, and the percentile of numpy between two of     *)
(* them, in twentieths.                                                      *)
Ranked(b, i) ==
    Min({s.latency : s \in {t \in DOMAIN b :
      Total([u \in DOMAIN b |-> IF u.latency <= t.latency THEN b[u] ELSE 0]) >= i}})

P95(b) ==
    LET at == 19 * (Total(b) - 1)
        low == at \div 20 + 1
        high == IF low = Total(b) THEN low ELSE low + 1
    IN (20 - (at % 20)) * Ranked(b, low) + (at % 20) * Ranked(b, high)

CalculateMetrics(e, m, b) ==
    [endpoint |-> e, window |-> m, requests |-> Total(b),
     errors |-> Total([s \in DOMAIN b |-> IF s.error THEN b[s] ELSE 0]),
     p95 |-> P95(b)]

----------------------------------------------------------------------------
(* A read that misses the cache: aggregate_service, aggregate_endpoints, the *)
(* answer, the commit.                                                       *)

FirstMinute == MinuteOf(now - width * TicksPerMinute)

FilledWholeMinutes(e) ==
    {m \in Minutes : /\ m >= FirstMinute /\ (m + 1) * TicksPerMinute <= now
                     /\ Total(OfEndpoint(events[m], e)) > 0}

(* The windows of a run of the loop that have events.                        *)
Filled(e) ==
    {m \in Minutes : /\ m >= FirstMinute /\ m * TicksPerMinute <= now
                     /\ Total(OfEndpoint(events[m], e)) > 0}

NewRows(e) ==
    {CalculateMetrics(e, m, OfEndpoint(events[m], e)) : m \in Filled(e)}

(* The request, with the window it asks for.                                 *)
Begin(w) ==
    /\ pc = "idle" /\ reads < MaxReads
    /\ pc' = "service"
    /\ width' = w
    /\ seen' = events
    /\ reads' = reads + 1
    /\ UNCHANGED <<now, events, rows, pending>>
    /\ verdict' = None

(* One row for each minute that has events.                                  *)
AggregateService ==
    /\ pc = "service"
    /\ pending' = SetToBag(NewRows(None))
    /\ pc' = "endpoints"
    /\ UNCHANGED <<now, events, rows, width, seen, reads>>
    /\ verdict' = None

AggregateActiveEndpoints ==
    /\ pc = "endpoints"
    /\ pending' = pending (+) SetToBag(UNION {NewRows(e) : e \in
         {d \in Endpoints : Total(OfEndpoint(events[MinuteOf(now)], d)) > 0}})
    /\ pc' = "report"
    /\ UNCHANGED <<now, events, rows, width, seen, reads>>
    /\ verdict' = None

(* The same for every endpoint that ever had an event.                       *)
AggregateEndpoints ==
    /\ pc = "endpoints"
    /\ pending' = pending (+) SetToBag(UNION {NewRows(e) : e \in Endpoints})
    /\ pc' = "report"
    /\ UNCHANGED <<now, events, rows, width, seen, reads>>
    /\ verdict' = None

(* The answer goes out, and the transaction commits.                         *)
Answer ==
    /\ pc = "report"
    /\ rows' = rows (+) pending
    /\ pc' = "idle" /\ width' = 0 /\ pending' = EmptyBag /\ seen' = NoEvents
    /\ UNCHANGED <<now, events, reads>>
    /\ verdict' = None

RollBackKeepingRows ==
    /\ pc # "idle"
    /\ pc' = "idle" /\ width' = 0 /\ seen' = NoEvents
    /\ UNCHANGED <<now, events, rows, pending, reads>>
    /\ verdict' = None

(* Any failure before the commit takes the new rows with it.                 *)
RollBack ==
    /\ pc # "idle"
    /\ pc' = "idle" /\ width' = 0 /\ pending' = EmptyBag /\ seen' = NoEvents
    /\ UNCHANGED <<now, events, rows, reads>>
    /\ verdict' = None

----------------------------------------------------------------------------
(* What a read answers from the rows its transaction sees.                   *)

Select(bag, Test(_)) == [r \in {q \in DOMAIN bag : Test(q)} |-> bag[r]]

Visible == rows (+) pending

AggregatesOfAll(bag, e, since) ==
    Select(bag, LAMBDA r : r.window * TicksPerMinute > since)

(* get_aggregates_for_service: the rows of one endpoint, or of the service,  *)
(* whose window does not start before since.                                 *)
Aggregates(bag, e, since) ==
    Select(bag, LAMBDA r : r.endpoint = e /\ r.window * TicksPerMinute > since)

Requests(bag) == Total([r \in DOMAIN bag |-> bag[r] * r.requests])
Errors(bag) == Total([r \in DOMAIN bag |-> bag[r] * r.errors])

(* _aggregate_windows, and a row of _build_endpoint_rows.                    *)
Summary(bag) ==
    [requests |-> Requests(bag), errors |-> Errors(bag),
     p95 |-> Max({r.p95 : r \in DOMAIN bag} \cup {0})]

Since == now - width * TicksPerMinute
TimeSeries == Aggregates(Visible, None, Since)
Current == Summary(Aggregates(Visible, None, now - SnapshotMinutes * TicksPerMinute))
EndpointRow(e) == Summary(Aggregates(Visible, e, Since))

(* get_overview merges the rows of a window into one.                        *)
ProjectSeries ==
    [m \in {r.window : r \in DOMAIN TimeSeries} |->
       Summary(Select(TimeSeries, LAMBDA r : r.window = m))]

----------------------------------------------------------------------------
(* Detection: compute_baseline, the three detectors, the scorer.             *)

(* round(errors / requests, 6), in multiples of 1 / RateScale.               *)
ErrorRate(r) ==
    LET down == (RateScale * r.errors) \div r.requests
        rest == (RateScale * r.errors) % r.requests
    IN IF \/ 2 * rest > r.requests
          \/ 2 * rest = r.requests /\ <<r.errors, r.requests>> \in RoundedUp
       THEN down + 1 ELSE down

Value(metric, r) ==
    CASE metric = "latency" -> r.p95
      [] metric = "error_rate" -> ErrorRate(r)
      [] metric = "throughput" -> r.requests

Sum(bag, metric) == Total([r \in DOMAIN bag |-> bag[r] * Value(metric, r)])

(* n times the distance of a value from the mean.                            *)
Off(metric, bag, r) == Total(bag) * Value(metric, r) - Sum(bag, metric)

(* n (n - 1) times the sample variance.                                      *)
Spread(bag, metric) ==
    Total(bag) *
      Total([r \in DOMAIN bag |-> bag[r] * Value(metric, r) * Value(metric, r)])
    - Sum(bag, metric) * Sum(bag, metric)

(* std == 0 of the latencies.  A constant baseline has it only if its mean   *)
(* is computed without a rounding error: otherwise numpy's std is that error *)
(* or so, far less than any difference between two latencies.                *)
StdIsZero(bag) ==
    /\ Spread(bag, "latency") = 0
    /\ \A r \in DOMAIN bag : <<Total(bag), r.p95>> \notin Inexact

NoFloors(metric, bag) == {}

(* The standard deviations, as fractions, that a detector does not go below: *)
(* for the latency, if std == 0, 1 % of the mean and 0.1 ms; for the error   *)
(* rate 0.2 %; for the throughput 5 % of the mean and 0.1.                   *)
Floors(metric, bag) ==
    LET percent(k) == <<k * Sum(bag, metric), 100 * Total(bag)>>
    IN CASE metric = "latency" ->
              IF StdIsZero(bag) THEN {percent(1), <<1, 1>>} ELSE {}
         [] metric = "error_rate" -> {<<RateScale, 500>>}
         [] metric = "throughput" -> {percent(5), <<1, 10>>}

(* A throughput is anomalous both ways.                                      *)
Distance(metric, bag, r) ==
    LET d == Off(metric, bag, r) IN IF metric = "throughput" /\ d < 0 THEN -d ELSE d

(* The z-score is above its threshold, 3.                                    *)
Triggered(bag, r) ==
    LET n == Total(bag)
    IN {metric \in MetricNames :
          LET d == Distance(metric, bag, r)
          IN /\ d > 0
             /\ d * d * (n - 1) > 9 * n * Spread(bag, metric)
             /\ \A f \in Floors(metric, bag) : d * f[2] > 3 * n * f[1]}

(* The highest score of the detectors, min(1, (z - 3) / 3) of a triggered    *)
(* metric, is at least p / 44.                                               *)
ScoresAtLeast(bag, r, p) ==
    LET n == Total(bag)
    IN \/ p <= 0
       \/ /\ p <= 44
          /\ \E metric \in Triggered(bag, r) :
               LET d == Distance(metric, bag, r)
               IN /\ 1936 * d * d * (n - 1) >= 9 * (44 + p) * (44 + p) * n * Spread(bag, metric)
                  /\ \A f \in Floors(metric, bag) : 44 * d * f[2] >= 3 * (44 + p) * n * f[1]

(* compute_combined_score: 0.55 of that score and 0.45 of the forest's, in   *)
(* quarters, reach 0.80, 0.60 or 0.30.                                       *)
Severity(bag, r, forest) ==
    IF ScoresAtLeast(bag, r, 64 - 9 * forest) THEN "CRITICAL"
    ELSE IF ScoresAtLeast(bag, r, 48 - 9 * forest) THEN "HIGH"
    ELSE IF ScoresAtLeast(bag, r, 24 - 9 * forest) THEN "MEDIUM"
    ELSE "LOW"

(* detect_with_isolation_forest: the score is scikit-learn's, in quarters;   *)
(* from 0.5 on the window is anomalous.                                      *)
ForestFires(forest) == forest >= 2

DetectionRows ==
    Aggregates(rows, None, now - (BaselineWindows + 1 + SlackMinutes) * TicksPerMinute)

(* The last row of ORDER BY window_start; which one, if the newest window    *)
(* has several, is up to PostgreSQL.                                         *)
LastRows == {r \in DOMAIN DetectionRows : \A q \in DOMAIN DetectionRows : q.window <= r.window}

Baseline(r) == DetectionRows (-) SetToBag({r})

Detect(r, forest) ==
    /\ verdict = None
    /\ Total(DetectionRows) >= BaselineWindows + 1
    /\ r \in LastRows
    /\ Total(Baseline(r)) >= MinPoints
    /\ verdict' =
         [row |-> r, metrics |-> Triggered(Baseline(r), r), forest |-> forest,
          severity |-> Severity(Baseline(r), r, forest)]
    /\ UNCHANGED <<now, events, rows, read>>

----------------------------------------------------------------------------

(* An event is stored, with the timestamp of its client: of this minute, or  *)
(* of the one before if it was buffered.                                     *)
Receive(m, s) ==
    /\ m \in {MinuteOf(now) - 1, MinuteOf(now)} \cap Minutes
    /\ Total(events[m]) < PerMinute
    /\ events' = [events EXCEPT ![m][s] = @ + 1]
    /\ UNCHANGED <<now, rows, read>>
    /\ verdict' = None

Tick ==
    /\ now < MaxTime
    /\ now' = now + 1
    /\ UNCHANGED <<events, rows, read>>
    /\ verdict' = None

Next ==
    \/ \E m \in Minutes, s \in Samples : Receive(m, s)
    \/ \E w \in WindowMinutes : Begin(w)
    \/ AggregateService \/ AggregateEndpoints \/ Answer \/ RollBack
    \/ \E r \in DOMAIN rows, forest \in ForestScores : Detect(r, forest)
    \/ Tick

Spec == Init /\ [][Next]_vars

----------------------------------------------------------------------------
(* Properties *)

(* A metrics read counts every request that was stored when it began and     *)
(* whose minute lies within the window asked for: the minute that is not     *)
(* over, the boundary at since and a clock that moves on during the read     *)
(* never leave one out, in the series, the project's series or, for the last *)
(* minutes, the current values.                                              *)
ReadsMissNothing ==
    pc = "report" =>
      /\ \A m \in Minutes :
           m * TicksPerMinute > Since /\ Total(seen[m]) > 0 =>
             m \in DOMAIN ProjectSeries /\ ProjectSeries[m].requests >= Total(seen[m])
      /\ Current.requests >=
           Total([m \in {n \in Minutes : n * TicksPerMinute > now - SnapshotMinutes * TicksPerMinute}
                    |-> Total(seen[m])])

(* "Called after aggregate_service() so service-level is always up-to-date   *)
(* first": telemetry that arrives between the two is only in the endpoints'  *)
(* rows.  So of the rows that a read writes, those its table of endpoints    *)
(* shows count no less than those its series shows, even if the window moves *)
(* on to another minute between the two.  Of the rows of all reads this      *)
(* would not hold: a row of the service that a narrow window had no endpoint *)
(* rows for counts in a wider one.                                           *)
EndpointsCoverService ==
    LET Own(e) == Aggregates(pending, e, Since)
    IN pc = "report" =>
         /\ Total([e \in Endpoints |-> Requests(Own(e))]) >= Requests(Own(None))
         /\ Total([e \in Endpoints |-> Errors(Own(e))]) >= Errors(Own(None))

(* However uniform the baseline is, a detector fires only on a real change:  *)
(* an error rate 0.6 points above the mean, a throughput 15 % off, a latency *)
(* above the mean, and 3 % above it if the deviation was computed to be 0.   *)
(* CRITICAL takes both signals, a metric far beyond its baseline and an      *)
(* isolation forest that fires: neither alone outweighs the other's 0.       *)
AlarmsAreJustified ==
    [][verdict' # None =>
         LET r == verdict'.row
             b == Baseline(r)
         IN /\ \A metric \in verdict'.metrics :
                 LET off == Off(metric, b, r)
                 IN CASE metric = "error_rate" -> 1000 * off > 6 * RateScale * Total(b)
                      [] metric = "throughput" ->
                           100 * Distance(metric, b, r) > 15 * Sum(b, metric)
                      [] metric = "latency" ->
                           /\ off > 0
                           /\ StdIsZero(b) => 100 * off > 3 * Sum(b, metric)
            /\ verdict'.severity = "CRITICAL" =>
                 verdict'.metrics # {} /\ ForestFires(verdict'.forest)]_vars

(* Traffic that was the same in every minute raises a statistical alarm only *)
(* because a row was written before the last request of its minute was       *)
(* stored, in the middle of the minute or ahead of telemetry that came late, *)
(* by this read or an earlier one: the service has a row that lacks some of  *)
(* its minute's requests and so has another value of the metric that alarms. *)
Steady(traffic) ==
    LET first == Min({r.window : r \in DOMAIN DetectionRows})
    IN /\ first < MinuteOf(now)
       /\ \A m \in first..(MinuteOf(now) - 1) : events[m] = traffic
       /\ \A s \in Samples : events[MinuteOf(now)][s] <= traffic[s]

Partial(metric, traffic, r) ==
    /\ r.endpoint = None
    /\ r.requests < Total(traffic)
    /\ Value(metric, r) # Value(metric, CalculateMetrics(None, r.window, traffic))

SteadyAlarmsComeFromPartialRows ==
    [][verdict' # None =>
         \A metric \in verdict'.metrics, traffic \in {events[m] : m \in Minutes} :
           Steady(traffic) => \E r \in DOMAIN DetectionRows : Partial(metric, traffic, r)]_vars

(* upsert_aggregate: "the window_start + service_id combination naturally    *)
(* forms a logical unique key".  Read as: a read never counts a request of a *)
(* window more than once.                                                    *)
RequestsCountedOnce ==
    pc = "report" =>
      \A m \in DOMAIN ProjectSeries : ProjectSeries[m].requests <= Total(events[m])
=============================================================================

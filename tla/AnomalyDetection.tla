-------------------------- MODULE AnomalyDetection --------------------------
(* The life of anomaly rows: AnomalyDetectionService over AnomalyRepository, *)
(* run by the GET routes of anomalies.py.  A request is one READ COMMITTED   *)
(* transaction; it detects for the services of a project, or for one, and    *)
(* creates a row for each metric that turned anomalous, or resolves the rows *)
(* of a service that has returned to normal.  Nothing but these requests     *)
(* writes anomalies, and two of them may run at once.                        *)
(*                                                                           *)
(* What the detectors say of the windows a request loads is an input: the    *)
(* windows may change between any two loads.                                 *)
EXTENDS Integers, Sequences

CONSTANTS
    Services,  \* the services of one project
    ByName,    \* Services in the order of ORDER BY services.name
    Requests,  \* GET requests
    Scope,     \* Requests -> the services a request detects for, in order
    Signals,   \* verdicts of the detectors: the statistical metrics out of
               \* range and whether the isolation forest fired
    None

Statistical == {"latency", "error_rate", "throughput"}
MetricTypes == Statistical \cup {"multi_metric"}

ASSUME AnomalyAssumption ==
    /\ ByName \in Seq(Services)
    /\ Scope \in [Requests -> Seq(Services) \ {<<>>}]
    /\ Signals \subseteq [stats : SUBSET Statistical, forest : BOOLEAN]
    /\ None \notin Requests

(* A row, named by the request that inserts it: it inserts at most one for   *)
(* each service and metric.                                                  *)
Row == [by : Requests, service : Services, metric : MetricTypes]

VARIABLES
    rows,        \* the committed rows
    resolvedBy,  \* Row -> the request whose resolved_at it carries, or None
    pc,          \* where each request is
    todo,        \* the services it has yet to detect for
    metrics,     \* the metrics it has yet to record or resolve
    aim,         \* the rows its UPDATE has selected
    inserted,    \* the rows it inserted, uncommitted
    resolving,   \* the rows it resolved, uncommitted: it holds their locks
    seen,        \* history: the requests committed before it began
    triggered,   \* history: the <<service, metric>> it found anomalous
    recovered    \* history: the services it found normal

store == <<rows, resolvedBy>>
history == <<seen, triggered, recovered>>
vars == <<store, pc, todo, metrics, aim, inserted, resolving, history>>

InProgress == {"detect", "record", "resolve", "lock", "commit"}
Committed == {r \in Requests : pc[r] = "done"}

(* Types; and only a request in progress holds locks and uncommitted rows.   *)
TypeOK ==
    /\ rows \subseteq Row
    /\ resolvedBy \in [rows -> Requests \cup {None}]
    /\ pc \in [Requests -> {"idle", "done", "failed"} \cup InProgress]
    /\ todo \in [Requests -> Seq(Services)]
    /\ metrics \in [Requests -> Seq(MetricTypes)]
    /\ aim \in [Requests -> SUBSET rows]
    /\ inserted \in [Requests -> SUBSET (Row \ rows)]
    /\ resolving \in [Requests -> SUBSET rows]
    /\ seen \in [Requests -> SUBSET Requests]
    /\ triggered \in [Requests -> SUBSET (Services \X MetricTypes)]
    /\ recovered \in [Requests -> SUBSET Services]
    /\ \A r \in Requests : pc[r] \notin InProgress =>
         inserted[r] = {} /\ resolving[r] = {}

Init ==
    /\ rows = {}
    /\ resolvedBy = <<>>
    /\ pc = [r \in Requests |-> "idle"]
    /\ todo = [r \in Requests |-> <<>>]
    /\ metrics = [r \in Requests |-> <<>>]
    /\ aim = [r \in Requests |-> {}]
    /\ inserted = [r \in Requests |-> {}]
    /\ resolving = [r \in Requests |-> {}]
    /\ seen = [r \in Requests |-> {}]
    /\ triggered = [r \in Requests |-> {}]
    /\ recovered = [r \in Requests |-> {}]

Goto(r, l) == pc' = [pc EXCEPT ![r] = l]

(* The access checks, then detect_for_project or detect_for_service.         *)
Begin(r) ==
    /\ pc[r] = "idle"
    /\ todo' = [todo EXCEPT ![r] = Scope[r]]
    /\ seen' = [seen EXCEPT ![r] = Committed]
    /\ Goto(r, "detect")
    /\ UNCHANGED <<store, metrics, aim, inserted, resolving, triggered, recovered>>

NextService(r) ==
    /\ todo' = [todo EXCEPT ![r] = Tail(@)]
    /\ Goto(r, IF Len(todo[r]) = 1 THEN "commit" ELSE "detect")

(* Fewer than TOTAL_WINDOWS windows, or no baseline: nothing is done.        *)
Skip(r) ==
    /\ pc[r] = "detect"
    /\ NextService(r)
    /\ UNCHANGED <<store, metrics, aim, inserted, resolving, history>>

(* compute_combined_score: the statistical metrics that fired, in the order  *)
(* of the detectors; multi_metric when only the forest did.                  *)
Fired(m, g) == IF m \in g.stats THEN <<m>> ELSE <<>>
Triggered(g) ==
    IF g.stats = {} /\ g.forest THEN <<"multi_metric">>
    ELSE Fired("latency", g) \o Fired("error_rate", g) \o Fired("throughput", g)

ResolvableSome == <<"latency", "error_rate">>

(* The metric types the recovery branch resolves.                            *)
Resolvable == <<"latency", "error_rate", "throughput">>

(* The detectors run on the loaded windows.                                  *)
FoundAnomalous(r, g) == LET s == Head(todo[r]) IN
    /\ pc[r] = "detect"
    /\ Triggered(g) # <<>>
    /\ metrics' = [metrics EXCEPT ![r] = Triggered(g)]
    /\ triggered' = [triggered EXCEPT ![r] =
                       @ \cup {<<s, Triggered(g)[i]>> : i \in 1..Len(Triggered(g))}]
    /\ Goto(r, "record")
    /\ UNCHANGED <<store, todo, aim, inserted, resolving, seen, recovered>>

FoundNormal(r, g) ==
    /\ pc[r] = "detect"
    /\ Triggered(g) = <<>>
    /\ metrics' = [metrics EXCEPT ![r] = Resolvable]
    /\ recovered' = [recovered EXCEPT ![r] = @ \cup {Head(todo[r])}]
    /\ Goto(r, "resolve")
    /\ UNCHANGED <<store, todo, aim, inserted, resolving, seen, triggered>>

(* Go on with the next metric, or the next service.                          *)
NextMetric(r, l) ==
    /\ metrics' = [metrics EXCEPT ![r] = Tail(@)]
    /\ IF Len(metrics[r]) = 1 THEN NextService(r)
       ELSE Goto(r, l) /\ UNCHANGED todo

Is(row, s, m) == row.service = s /\ row.metric = m

HasActiveOwn(r, s, m) == \E row \in inserted[r] : Is(row, s, m)

HasAnomaly(r, s, m) == \E row \in rows \cup inserted[r] : Is(row, s, m)

(* has_active_anomaly: what this session can see is committed, or its own.   *)
HasActive(r, s, m) ==
    \/ \E row \in rows \ resolving[r] : Is(row, s, m) /\ resolvedBy[row] = None
    \/ \E row \in inserted[r] : Is(row, s, m)

(* The duplicate check and, if it finds nothing, the insertion: nobody else  *)
(* sees either before the commit.                                            *)
Record(r) == LET s == Head(todo[r])  m == Head(metrics[r]) IN
    /\ pc[r] = "record"
    /\ inserted' = IF HasActive(r, s, m) THEN inserted
                   ELSE [inserted EXCEPT ![r] =
                           @ \cup {[by |-> r, service |-> s, metric |-> m]}]
    /\ NextMetric(r, "record")
    /\ UNCHANGED <<store, aim, resolving, history>>

MatchingResolved(s, m) == {row \in rows : Is(row, s, m)}

(* The WHERE of resolve.                                                     *)
Matching(s, m) == {row \in rows : Is(row, s, m) /\ resolvedBy[row] = None}

(* resolve: the UPDATE selects the rows committed when it starts...          *)
StartResolve(r) ==
    /\ pc[r] = "resolve"
    /\ aim' = [aim EXCEPT ![r] = Matching(Head(todo[r]), Head(metrics[r]))]
    /\ Goto(r, "lock")
    /\ UNCHANGED <<store, todo, metrics, inserted, resolving, history>>

(* ...waits for the other transactions that have updated them, and evaluates *)
(* its WHERE again on those it waited for.                                   *)
WaitsFor(r) == {q \in Requests \ {r} : resolving[q] \cap aim[r] # {}}

FinishResolve(r) ==
    /\ pc[r] = "lock"
    /\ WaitsFor(r) = {}
    /\ resolving' = [resolving EXCEPT ![r] =
         @ \cup (aim[r] \cap Matching(Head(todo[r]), Head(metrics[r])))]
    /\ aim' = [aim EXCEPT ![r] = {}]
    /\ NextMetric(r, "resolve")
    /\ UNCHANGED <<store, inserted, history>>

(* The listing is read, and get_db commits.                                  *)
Commit(r) ==
    /\ pc[r] = "commit"
    /\ rows' = rows \cup inserted[r]
    /\ resolvedBy' = [row \in rows' |->
         IF row \in resolving[r] THEN r
         ELSE IF row \in rows THEN resolvedBy[row] ELSE None]
    /\ inserted' = [inserted EXCEPT ![r] = {}]
    /\ resolving' = [resolving EXCEPT ![r] = {}]
    /\ Goto(r, "done")
    /\ UNCHANGED <<todo, metrics, aim, history>>

RollBackKeepingLocks(r) ==
    /\ pc[r] \in InProgress
    /\ Goto(r, "failed")
    /\ inserted' = [inserted EXCEPT ![r] = {}]
    /\ aim' = [aim EXCEPT ![r] = {}]
    /\ UNCHANGED <<store, todo, metrics, resolving, history>>

(* Any failure on the way to the commit.                                     *)
RollBack(r) ==
    /\ pc[r] \in InProgress
    /\ Goto(r, "failed")
    /\ inserted' = [inserted EXCEPT ![r] = {}]
    /\ resolving' = [resolving EXCEPT ![r] = {}]
    /\ aim' = [aim EXCEPT ![r] = {}]
    /\ UNCHANGED <<store, todo, metrics, history>>

Step(r) ==
    \/ Begin(r) \/ Skip(r)
    \/ \E g \in Signals : FoundAnomalous(r, g) \/ FoundNormal(r, g)
    \/ Record(r) \/ StartResolve(r) \/ FinishResolve(r) \/ Commit(r)

Next == \E r \in Requests : Step(r) \/ RollBack(r)

(* The server runs the handlers it has started.                              *)
Fairness == \A r \in Requests : WF_vars(Step(r))

Spec == Init /\ [][Next]_vars

FairSpec == Spec /\ Fairness

----------------------------------------------------------------------------
(* Properties *)

Active(row) == row \in rows /\ resolvedBy[row] = None

(* Nothing but a race duplicates an anomaly: two active rows for one service *)
(* and metric come from requests neither of which had committed when the     *)
(* other began.                                                              *)
DuplicatesOverlap ==
    \A a, b \in rows :
      /\ a # b /\ Active(a) /\ Active(b)
      /\ a.service = b.service /\ a.metric = b.metric
      => a.by \notin seen[b.by] /\ b.by \notin seen[a.by]

(* Deduplication never swallows a new incident: what a committed request     *)
(* found anomalous has a row that no request committed before it resolved.   *)
TriggeredIsRecorded ==
    \A r \in Committed : \A t \in triggered[r] :
      \E row \in rows : Is(row, t[1], t[2]) /\ resolvedBy[row] \notin seen[r]

(* A committed request that found a service normal leaves none of the        *)
(* statistical anomalies recorded before it began active.                    *)
RecoveryResolves ==
    \A r \in Committed : \A row \in rows :
      /\ row.service \in recovered[r] /\ row.by \in seen[r]
      /\ row.metric \in Statistical
      => ~Active(row)

(* resolved_at is written once: of two requests that resolve the same rows,  *)
(* the second must not move the time of recovery.                            *)
ResolvedOnce ==
    [][\A row \in rows : resolvedBy[row] # None =>
         resolvedBy'[row] = resolvedBy[row]]_store

(* Every request ends, although the resolutions wait for each other.         *)
EveryDetectionEnds ==
    \A r \in Requests : pc[r] = "detect" ~> pc[r] \in {"done", "failed"}

(* The pipeline's step 9: "If no longer anomalous for a previously active    *)
(* anomaly -> resolve it".  A service the detectors find normal keeps no     *)
(* anomaly recorded before.                                                  *)
NormalHasNoAnomaly ==
    \A r \in Committed : \A row \in rows :
      row.service \in recovered[r] /\ row.by \in seen[r] => ~Active(row)
=============================================================================

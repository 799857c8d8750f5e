----------------------------- MODULE MetricsApi -----------------------------
(* The dashboard's reads: MetricsApiService (metrics of a service, health of *)
(* a service, overview of a project) over MetricAggregationService, the      *)
(* Redis cache of CacheService and the rows of PostgreSQL.                   *)
(*                                                                           *)
(* There is no scheduler: the reads that miss the cache aggregate.  A read   *)
(* is one transaction, and it writes to Redis before that transaction        *)
(* commits.  The telemetry of a service is abstracted to a version, the      *)
(* number of event batches committed for it; an aggregate row to the version *)
(* it counts; the health computed from the events of a version is given by   *)
(* HealthAt.  Versions only grow, as events are never deleted.               *)
EXTENDS Integers, Sequences, FiniteSets

CONSTANTS
    Services,     \* the services of one project
    ByName,       \* Services in the order of ORDER BY services.name
    Unordered,    \* Reads -> orders in which rows could come back without it
    Reads,        \* GET requests
    Kind,         \* Reads -> {"metrics", "health", "overview"}
    Target,       \* Reads -> Services; of no meaning for an overview
    HealthAt,     \* Nat -> health computed from the events of a version
    FirstVersion, \* Services -> the telemetry there is at the start
    FirstHealth,  \* Services -> the version of the aggregates and the health
                  \* that are committed at the start; 0 for none
    MaxReads,     \* bound of the requests that are made
    MaxVersion,   \* Services -> bound of the telemetry
    MetricsTTL,   \* METRICS_CACHE_TTL_SECONDS, in clock ticks
    HealthTTL,    \* HEALTH_SNAPSHOT_TTL_SECONDS, in clock ticks
    MaxTime,      \* bound of the clock
    RedisAnswers, \* subset of BOOLEAN: may a Redis command succeed, fail
    None

ASSUME MetricsAssumption ==
    /\ IsFiniteSet(Services)
    /\ ByName \in [1..Cardinality(Services) -> Services]
    /\ \A s \in Services : \E i \in 1..Cardinality(Services) : ByName[i] = s
    /\ Kind \in [Reads -> {"metrics", "health", "overview"}]
    /\ Target \in [Reads -> Services]
    /\ MaxReads \in Nat /\ MaxTime \in Nat
    /\ FirstVersion \in [Services -> Nat] /\ FirstHealth \in [Services -> Nat]
    /\ \A s \in Services : FirstHealth[s] <= FirstVersion[s]
    /\ MaxVersion \in [Services -> Nat]
    /\ MetricsTTL \in Nat \ {0} /\ HealthTTL \in Nat \ {0}
    /\ RedisAnswers \subseteq BOOLEAN /\ RedisAnswers # {}

VARIABLES
    now,        \* the clock
    version,    \* telemetry committed for each service
    newest,     \* the newest version a committed aggregate row counts
    column,     \* services.health_status, with the time of its computation
    metrics,    \* Redis metrics:service:{id}:{window}
    overview,   \* Redis metrics:overview:{project}:{window}
    health,     \* Redis health:{id}
    pc,         \* where each read is
    todo,       \* the services a read has yet to aggregate
    floor,      \* the version of each service when the read began
    loaded,     \* the health column of each service as its session loaded it
    assigned,   \* the health column of each service as its session holds it
    own,        \* the version its own, uncommitted aggregate rows count
    response,   \* what it will answer; None once it has
    rowLock     \* who holds each services row

store == <<version, newest, column>>
cache == <<metrics, overview, health>>
session == <<todo, floor, loaded, assigned, own>>
vars == <<now, store, cache, pc, session, response, rowLock>>

Versions == Nat

(* A health: the version it was computed from and the time that aggregation  *)
(* published it.  Only its level is data of the program.                     *)
Computed == [of : Versions, at : 0..MaxTime]
Level(h) == HealthAt[h.of]
Later(h, g) == IF g.at > h.at THEN g ELSE h

Closed == {"idle", "done", "failed"}
InProgress == {"lookup", "aggregate", "snapshot", "invalidate", "endpoints",
               "invalidateOverview", "report", "store", "commit"}

(* What the answer to a read holds for the services it is about: the version *)
(* its numbers reflect, that of the moment it began, the health shown and    *)
(* when it was computed, the health its session had loaded, and the time at  *)
(* which Redis drops it.                                                     *)
Entry == [shows : [Services -> Versions], floor : [Services -> Versions],
          health : [Services -> Computed], began : [Services -> Computed],
          drop : Nat]

(* A health in Redis, and the time at which Redis drops it.                  *)
Snapshot == [health : Computed, drop : Nat]

(* Types; and only a read in progress holds rows.                            *)
TypeOK ==
    /\ now \in 0..MaxTime
    /\ version \in [Services -> Versions]
    /\ newest \in [Services -> Versions]
    /\ column \in [Services -> Computed]
    /\ metrics \in [Services -> Entry \cup {None}]
    /\ overview \in Entry \cup {None}
    /\ health \in [Services -> Snapshot \cup {None}]
    /\ pc \in [Reads -> Closed \cup InProgress]
    /\ todo \in [Reads -> Seq(Services)]
    /\ floor \in [Reads -> [Services -> Versions]]
    /\ loaded \in [Reads -> [Services -> Computed]]
    /\ assigned \in [Reads -> [Services -> Computed]]
    /\ own \in [Reads -> [Services -> Versions]]
    /\ response \in [Reads -> Entry \cup {None}]
    /\ rowLock \in [Services -> {r \in Reads : pc[r] \in InProgress} \cup {None}]

(* A session that holds nothing.                                             *)
Unread == [s \in Services |-> [of |-> 0, at |-> 0]]
NoVersion == [s \in Services |-> 0]

Init ==
    /\ now = 0
    /\ version = FirstVersion
    /\ newest = FirstHealth
    /\ column = [s \in Services |-> [of |-> FirstHealth[s], at |-> 0]]
    /\ metrics = [s \in Services |-> None]
    /\ overview = None
    /\ health = [s \in Services |-> None]
    /\ pc = [r \in Reads |-> "idle"]
    /\ todo = [r \in Reads |-> <<>>]
    /\ floor = [r \in Reads |-> NoVersion]
    /\ loaded = [r \in Reads |-> Unread]
    /\ assigned = [r \in Reads |-> Unread]
    /\ own = [r \in Reads |-> NoVersion]
    /\ response = [r \in Reads |-> None]
    /\ rowLock = [s \in Services |-> None]

Goto(r, l) == pc' = [pc EXCEPT ![r] = l]

(* A read answers, or fails, and its session is closed.                      *)
Close(r, outcome) ==
    /\ Goto(r, outcome)
    /\ todo' = [todo EXCEPT ![r] = <<>>]
    /\ floor' = [floor EXCEPT ![r] = NoVersion]
    /\ loaded' = [loaded EXCEPT ![r] = Unread]
    /\ assigned' = [assigned EXCEPT ![r] = Unread]
    /\ own' = [own EXCEPT ![r] = NoVersion]
    /\ response' = [response EXCEPT ![r] = None]

Bigger(a, b) == IF a >= b THEN a ELSE b

(* The services whose rows a read looks at.                                  *)
About(r) == IF Kind[r] = "overview" THEN Services ELSE {Target[r]}

----------------------------------------------------------------------------
(* The beginning of a read.                                                  *)

(* Selecting the services rows.                                              *)
Load(r) == LET rows == [s \in Services |->
                          IF s \in About(r) THEN column[s] ELSE Unread[s]] IN
    /\ loaded' = [loaded EXCEPT ![r] = rows]
    /\ assigned' = [assigned EXCEPT ![r] = rows]

(* The access checks, and for a read of one service its row.                 *)
Begin(r) ==
    /\ pc[r] = "idle"
    /\ Cardinality({q \in Reads : pc[q] # "idle"}) < MaxReads
    /\ floor' = [floor EXCEPT ![r] =
                   [s \in Services |-> IF s \in About(r) THEN version[s] ELSE 0]]
    /\ IF Kind[r] = "overview" THEN UNCHANGED <<loaded, assigned>>
       ELSE Load(r)
    /\ Goto(r, "lookup")
    /\ UNCHANGED <<now, store, cache, todo, own, response, rowLock>>

CacheOf(r) ==
    CASE Kind[r] = "metrics" -> metrics[Target[r]]
      [] Kind[r] = "health" -> health[Target[r]]
      [] Kind[r] = "overview" -> overview

(* The cache answers, with what it has.                                      *)
Hit(r) ==
    /\ pc[r] = "lookup"
    /\ TRUE \in RedisAnswers
    /\ CacheOf(r) # None
    /\ Close(r, "done")
    /\ UNCHANGED <<now, store, cache, rowLock>>

OrderUnsorted(r) == Unordered[r]

(* list_for_project: ORDER BY services.name.                                 *)
Order(r) == ByName

(* It has nothing, or Redis fails: an overview loads the services of the     *)
(* project, a health read goes straight to the stored aggregates.            *)
Miss(r) ==
    /\ pc[r] = "lookup"
    /\ CacheOf(r) = None \/ FALSE \in RedisAnswers
    /\ IF Kind[r] = "overview" THEN Load(r) ELSE UNCHANGED <<loaded, assigned>>
    /\ todo' = [todo EXCEPT ![r] = CASE Kind[r] = "overview" -> Order(r)
                                     [] Kind[r] = "metrics" -> <<Target[r]>>
                                     [] Kind[r] = "health" -> <<>>]
    /\ Goto(r, IF Kind[r] = "health" THEN "report" ELSE "aggregate")
    /\ UNCHANGED <<now, store, cache, floor, own, response, rowLock>>

----------------------------------------------------------------------------
(* aggregate_service and aggregate_endpoints, for the first service of todo. *)

Finished(r) == IF Kind[r] = "overview" THEN "invalidateOverview" ELSE "report"

NextService(r) ==
    /\ todo' = [todo EXCEPT ![r] = Tail(@)]
    /\ Goto(r, IF Len(todo[r]) = 1 THEN Finished(r) ELSE "aggregate")

(* No telemetry: no row, no health, nothing in Redis.                        *)
AggregateNothing(r) ==
    /\ pc[r] = "aggregate"
    /\ version[Head(todo[r])] = 0
    /\ NextService(r)
    /\ UNCHANGED <<now, store, cache, floor, loaded, assigned, own, response, rowLock>>

(* Read the events, insert the rows, assign the health of the last window.   *)
Aggregate(r) == LET s == Head(todo[r]) IN
    /\ pc[r] = "aggregate"
    /\ version[s] > 0
    /\ own' = [own EXCEPT ![r][s] = version[s]]
    /\ assigned' = [assigned EXCEPT ![r][s] =
                      [of |-> version[s], at |-> now]]
    /\ Goto(r, "snapshot")
    /\ UNCHANGED <<now, store, cache, todo, floor, loaded, response, rowLock>>

(* set_health_snapshot, before the transaction commits.                      *)
WriteSnapshot(r) == LET s == Head(todo[r]) IN
    /\ pc[r] = "snapshot"
    /\ assigned' = [assigned EXCEPT ![r][s].at = now]
    /\ \E ok \in RedisAnswers :
         health' = IF ok THEN [health EXCEPT ![s] =
                                 [health |-> assigned'[r][s], drop |-> now + HealthTTL]]
                   ELSE health
    /\ Goto(r, "invalidate")
    /\ UNCHANGED <<now, store, metrics, overview, todo, floor, loaded, own,
                   response, rowLock>>

(* invalidate_service_metrics.                                               *)
Invalidate(r) ==
    /\ pc[r] = "invalidate"
    /\ \E ok \in RedisAnswers :
         metrics' = IF ok THEN [metrics EXCEPT ![Head(todo[r])] = None] ELSE metrics
    /\ Goto(r, "endpoints")
    /\ UNCHANGED <<now, store, overview, health, session, response, rowLock>>

(* aggregate_endpoints: the flush of its first row also sends the UPDATE of  *)
(* the services row, which waits for another transaction's.                  *)
AggregateEndpoints(r) ==
    /\ pc[r] = "endpoints"
    /\ rowLock[Head(todo[r])] = None
    /\ rowLock' = [rowLock EXCEPT ![Head(todo[r])] = r]
    /\ NextService(r)
    /\ UNCHANGED <<now, store, cache, floor, loaded, assigned, own, response>>

(* invalidate_project_overview, after all services.                          *)
InvalidateOverview(r) ==
    /\ pc[r] = "invalidateOverview"
    /\ \E ok \in RedisAnswers : overview' = IF ok THEN None ELSE overview
    /\ Goto(r, "report")
    /\ UNCHANGED <<now, store, metrics, health, session, response, rowLock>>

----------------------------------------------------------------------------
(* The answer.                                                               *)

ReloadedUnflushed(r, s) == column[s]

(* What an overview reads when it lists the services again: the objects it   *)
(* aggregated were flushed and collected, so the rows are loaded anew.  It   *)
(* sees its own UPDATE, and where that left the health out the row's, which  *)
(* another read may have committed meanwhile.                                *)
Reloaded(r, s) ==
    IF Level(column[s]) # Level(assigned[r][s]) /\ Level(assigned[r][s]) = Level(loaded[r][s])
    THEN column[s] ELSE assigned[r][s]

(* The health shown.  Selecting a service again whose object is still held,  *)
(* as the reads of one service do, does not refresh it.                      *)
Shown(r) == IF Kind[r] = "overview" THEN [s \in Services |-> Reloaded(r, s)]
            ELSE assigned[r]

(* The stored aggregates, committed or its own, and the health.              *)
Report(r) ==
    /\ pc[r] = "report"
    /\ response' = [response EXCEPT ![r] =
         [shows |-> [s \in Services |-> IF s \in About(r)
                                         THEN Bigger(newest[s], own[r][s]) ELSE 0],
          floor |-> floor[r], health |-> Shown(r), began |-> loaded[r], drop |-> 0]]
    /\ Goto(r, "store")
    /\ UNCHANGED <<now, store, cache, session, rowLock>>

EntryOf(r) == [response[r] EXCEPT !.drop = now + MetricsTTL]

(* Cache it, before the transaction commits.                                 *)
Store(r) ==
    /\ pc[r] = "store"
    /\ \E ok \in RedisAnswers :
         IF ~ok THEN UNCHANGED cache
         ELSE CASE Kind[r] = "metrics" ->
                     /\ metrics' = [metrics EXCEPT ![Target[r]] = EntryOf(r)]
                     /\ UNCHANGED <<overview, health>>
                [] Kind[r] = "overview" ->
                     /\ overview' = EntryOf(r)
                     /\ UNCHANGED <<metrics, health>>
                [] Kind[r] = "health" ->
                     /\ health' = [health EXCEPT ![Target[r]] =
                          [health |-> response[r].health[Target[r]], drop |-> now + HealthTTL]]
                     /\ UNCHANGED <<metrics, overview>>
    /\ Goto(r, "commit")
    /\ UNCHANGED <<now, store, session, response, rowLock>>

Release(r) == rowLock' = [s \in Services |-> IF rowLock[s] = r THEN None ELSE rowLock[s]]

(* The UPDATE sent the health only if the session saw it change: a level     *)
(* equal to the one it had loaded never overwrites another transaction's.    *)
Written(r, s) ==
    IF Level(assigned[r][s]) # Level(loaded[r][s]) THEN assigned[r][s]
    ELSE IF Level(assigned[r][s]) = Level(column[s]) THEN Later(column[s], assigned[r][s])
    ELSE column[s]

CommitWholeRow(r) ==
    /\ pc[r] = "commit"
    /\ newest' = [s \in Services |-> Bigger(newest[s], own[r][s])]
    /\ column' = [s \in Services |-> IF s \in About(r) THEN assigned[r][s] ELSE column[s]]
    /\ Close(r, "done")
    /\ Release(r)
    /\ UNCHANGED <<now, version, cache>>

Commit(r) ==
    /\ pc[r] = "commit"
    /\ newest' = [s \in Services |-> Bigger(newest[s], own[r][s])]
    /\ column' = [s \in Services |-> Written(r, s)]
    /\ Close(r, "done")
    /\ Release(r)
    /\ UNCHANGED <<now, version, cache>>

RollBackKeepingLocks(r) ==
    /\ pc[r] \in InProgress
    /\ Close(r, "failed")
    /\ UNCHANGED <<now, store, cache, rowLock>>

(* Any failure before the commit: the rows are gone, what is in Redis stays. *)
RollBack(r) ==
    /\ pc[r] \in InProgress
    /\ Close(r, "failed")
    /\ Release(r)
    /\ UNCHANGED <<now, store, cache>>

----------------------------------------------------------------------------

(* A batch is ingested: its UPDATE of last_seen_at needs the services row.   *)
NewTelemetry(s) ==
    /\ version[s] < MaxVersion[s]
    /\ rowLock[s] = None
    /\ version' = [version EXCEPT ![s] = @ + 1]
    /\ UNCHANGED <<now, newest, column, cache, pc, session, response, rowLock>>

Kept(e) == IF e # None /\ e.drop <= now + 1 THEN None ELSE e

(* Time passes, and Redis drops what has expired.                            *)
Tick ==
    /\ now < MaxTime
    /\ now' = now + 1
    /\ metrics' = [s \in Services |-> Kept(metrics[s])]
    /\ overview' = Kept(overview)
    /\ health' = [s \in Services |-> Kept(health[s])]
    /\ UNCHANGED <<store, pc, session, response, rowLock>>

Step(r) ==
    \/ Begin(r) \/ Hit(r) \/ Miss(r)
    \/ AggregateNothing(r) \/ Aggregate(r) \/ WriteSnapshot(r) \/ Invalidate(r)
    \/ AggregateEndpoints(r) \/ InvalidateOverview(r)
    \/ Report(r) \/ Store(r) \/ Commit(r)

Next ==
    \/ \E r \in Reads : Step(r) \/ RollBack(r)
    \/ \E s \in Services : NewTelemetry(s)
    \/ Tick

(* The server runs the handlers it has started.                              *)
Fairness == \A r \in Reads : WF_vars(Step(r))

Spec == Init /\ [][Next]_vars

FairSpec == Spec /\ Fairness

----------------------------------------------------------------------------
(* Properties *)

(* Every read ends, whether Redis answers or fails.  Reads never deadlock    *)
(* on the services rows, where nothing in the model would abort one: two     *)
(* overviews lock them in the same order, that of list_for_project.          *)
EveryReadEnds == \A r \in Reads : pc[r] = "lookup" ~> pc[r] \in {"done", "failed"}

(* A cached metrics or overview answer counts all the telemetry there was    *)
(* when the read that stored it began, and leaves Redis within the TTL.  The *)
(* health it shows was computed from no less than that telemetry; only an    *)
(* overview may show an older one, and then a level that another read has    *)
(* committed since it listed the services.                                   *)
CountsAll(e, s) == e.shows[s] >= e.floor[s]
ShowsFresh(e, s) == e.health[s].of >= e.floor[s]
ShowsAnothers(e, s) == Level(e.health[s]) # Level(e.began[s])

Fresh(e, s) == CountsAll(e, s) /\ ShowsFresh(e, s)
FreshOrAnothers(e, s) == CountsAll(e, s) /\ (ShowsFresh(e, s) \/ ShowsAnothers(e, s))

CachedAnswersAreFresh ==
    /\ \A s \in Services : metrics[s] # None =>
         Fresh(metrics[s], s) /\ metrics[s].drop <= now + MetricsTTL
    /\ overview # None =>
         /\ \A s \in Services : FreshOrAnothers(overview, s)
         /\ overview.drop <= now + MetricsTTL

(* Once a committed aggregation has given a service a health, no read that   *)
(* began before it takes the service back to the health it had at creation.  *)
HealthIsNotForgotten ==
    [][\A s \in Services : column[s].of > 0 => column'[s].of > 0]_column

(* set_health_snapshot: "if the aggregation engine stops running, stale      *)
(* health data expires rather than being served indefinitely".               *)
HealthExpires ==
    \A s \in Services :
      health[s] # None /\ health[s].health.of > 0 =>
        now < health[s].health.at + HealthTTL
=============================================================================

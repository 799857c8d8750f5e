# PulseOps: a TLA+ model

PulseOps is an API observability platform: an SDK instruments a web
application and posts batches of telemetry to a FastAPI backend; the backend
stores events in PostgreSQL, aggregates them when the dashboard asks, caches
answers in Redis and detects anomalies. This directory models that code, checks
the models with TLC and proves theorems about them with TLAPS.

Paths below are relative to `src/`; `backend/app/` is written `app/`.

## Inventory

| Component | State | Operations | Talks to | What is hard |
|---|---|---|---|---|
| SDK (`sdk/pulseops_sdk/middleware.py`, `client.py`) | buffer, periodic task, one-shot tasks, HTTP client | dispatch, enqueue, `_flush_loop`, `_flush`, start, stop | ingestion route, over HTTP | concurrent flushes of one buffer, a POST the client gave up on but the server stores, stop in the middle of anything, no persistence |
| Telemetry ingestion (`app/services/telemetry_service.py`, `app/repositories/*`) | rows of services, endpoints, telemetry_events, api_keys | `ingest` | PostgreSQL, rate limiter | get-or-create races, lock order, stale columns written back, all-or-nothing |
| Services, API keys (`service_service.py`, `api_key_service.py`) | services, api_keys rows | create, revoke, validate | PostgreSQL | check-then-act, revocation racing ingestion |
| Rate limiter, Redis client (`app/core/cache_service.py`, `redis_client.py`, `main.py`) | Redis counters, the client | `check_rate_limit`, `init_redis`, startup | Redis, its connection pool | clock against expiry, fail-open, pool exhaustion, a Redis that comes later or goes away |
| Metrics aggregation and API (`metrics_aggregation_service.py`, `metrics_api_service.py`) | metric_aggregates, services.health_status, three kinds of cache entries | metrics, health, overview, each a transaction that writes Redis before it commits | PostgreSQL, Redis | cache against transaction, invalidation races, row locks held across a whole project |
| Anomaly detection (`anomaly_detection_service.py`, `anomaly_repository.py`) | anomalies rows | detect, deduplicate, resolve | PostgreSQL | duplicate suppression without a constraint, resolution races |
| Anomaly scoring (`app/services/anomaly_detection/`) | none | baseline, z-scores, combination, severity | metric_aggregates | numeric edges, rows of unfinished minutes |
| Accounts (`auth_service.py`, `organization_service.py`, `project_service.py`) | users, organizations, memberships, projects | register, login, create | PostgreSQL | slug allocation races, tenancy checks |
| Database session (`app/db/session.py`) | one transaction per request | commit, rollback | PostgreSQL | part of every backend module |
| Schema (`backend/alembic/`, `app/db/models/`) | 13 tables, the version row | upgrade, downgrade; what a deletion takes with it | PostgreSQL | concurrent and killed migrations, ON DELETE against the ORM's cascades |
| Incidents, evidence, AI explanations | tables only | none exist | | only their deletion is said anywhere |
| `ml-engine/` | none | docstrings and TODOs | | nothing to model |
| Frontend, demo service | a token in localStorage; none | | API, SDK | not modelled |

What must hold, per component:

* SDK: an event is delivered at most once; events do not get stuck in the
  buffer while the client runs; shutdown terminates.
* Ingestion: no duplicate rows, no event in another project's service, a batch
  is stored exactly when it was answered 202, revocation and computed health
  are never undone, every request is answered.
* Rate limiter: the quota per key and window, no rejection below it, and
  limiting that starts by itself when Redis is there.
* Metrics: cached answers no older than the read that stored them, a computed
  health is not forgotten, every read ends (overviews do not deadlock), an
  answer counts everything stored when its read began, and the rows a read
  writes of the endpoints count no less than those it writes of the service.
* Scoring: an alarm needs a real change, and CRITICAL two signals.
* Schema: all tables or none, a failed migration only by a race; deletions
  that keep what is kept for audit, the same through SQL and the ORM.
* Anomalies: duplicates only by a race, no new incident swallowed, recovery
  resolves, `resolved_at` is written once, every request ends.
* Accounts: one account per address, unique slugs, a registration whole or not
  at all, projects and keys only in one's own organizations, every request ends.

`PROJECT.json` lists every hazard at its line, with the properties that cover it.

## Modules

### TelemetryDelivery, TelemetryClient

`TelemetryDelivery` is the abstract promise of the SDK: each event goes from
unrecorded to pending, then to delivered or dropped, once.

`TelemetryClient` is the detailed model. asyncio runs the code between two
awaits without interruption, so one action is one such piece. Correspondence:

| Variable | Code |
|---|---|
| `phase` | `_started`, `_running`, and how far `stop()` is |
| `req` | each request's place in `dispatch` |
| `buffer` | `_buffer` |
| `task`, `batch` | `_flush_task`, the one-shot tasks, `stop()`'s own `_flush`, and the local `batch` of each |
| `wire`, `ingested` | batches in the network and what the server stored: external |
| `cut` | events whose POST `stop()` broke off |

`Begin`, `Finish`, `Cancel` are `dispatch` (a `CancelledError` is not an
`Exception`, so it records nothing), `Tick` the periodic loop, `RunTask` a
one-shot flush, `PostEnds` the end of a POST for whatever reason, `StopCalled`,
`LoopCancelled`, `FinalFlush`, `Close` the pieces of `stop()` between its
awaits, `Exit` the end of the process. The repository has no caller of
`stop()`, so nothing obliges it to happen. The server is external: it stores a
posted batch whole, or never, perhaps long after the client's timeout.

### Ingestion

`ingest` statement by statement as concurrent READ COMMITTED transactions, with
the three other writers of the same rows: the dashboard creating a service
(`CheckName` ... `CommitService`), the dashboard revoking a key (`ReadKey` ...
`CommitRevocation`), and the metrics engine (`SetHealth`). `keyLock`,
`nameLock`, `pathLock` are PostgreSQL's row and unique-index locks. The session
does not autoflush, so the update of `last_used_at` and of the services row is
sent at the next flush, in an order the unit of work chooses (`FlushKey`,
`FlushService`, `InsertService` in either order). `Updated` is SQLAlchemy's
rule that only changed columns are sent: much of the module's safety hangs on
it. PostgreSQL resolves deadlocks by aborting one of them (`AbortDeadlocked`).

### RateLimiter

`check_rate_limit` as the ingestion route calls it: the bucket is computed from
the caller's clock and the pipeline is sent (`Send`), Redis executes it later
(`Increment`), the count decides (`Decide`). `PoolExhausted` and `Fail` are its
`except` branch. Redis' expiry is exact; a pipeline is executed at most
`MaxDelay` after its window ended, `MaxDelay < Window`: an assumption about
the deployment (socket timeouts) that the factor 2 of the TTL needs. The
comparison is strict because a counter made by a request sent in the first
moment of a window expires one window after that window ends: a pipeline a
whole window late would find it gone, start a new one, and the quota would be
spent twice (TLC shows it with `MaxDelay = Window`).

The client is made when the backend starts, before the ping shows whether Redis
is there (`InitRedis`, `Ping`, whose failure `lifespan` only logs); a bad URL
(`configured = FALSE`) leaves no client, and the route skips the limiter
(`Skip`). Redis may be unreachable for a while (`Disappear`, `Return`), without
losing its counters, and the backend may be killed and started again (`Crash`);
a pipeline in transit is then either executed before, or lost. `close_redis`
runs when the process ends anyway. `troubled` is a history variable: the
requests that met an outage or an exhausted pool themselves.

### MetricsApi

The three reads of the dashboard. There is no scheduler in the repository: a
read that misses the cache aggregates. One read is one transaction that
aggregates (`Aggregate`), writes a health snapshot to Redis (`WriteSnapshot`),
invalidates (`Invalidate`), writes endpoint rows, whose flush also takes the
lock of the services row (`AggregateEndpoints`), invalidates the overview,
builds its answer (`Report`), caches it (`Store`) and only then commits. The
telemetry of a service is abstracted to a version, the number of batches
committed for it; `HealthAt` gives the health computed from a version. `loaded`
and `assigned` are the health column as the session loaded it and as it holds
it (`Load`: the services the read is `About`); `Written` is what its UPDATE leaves
in the row. `FirstHealth` is what has been aggregated before the model begins. A
read that has answered or failed closes its session (`Close`).

`Shown` is the health an answer carries. The reads of one service hold its
object and answer with what they assigned. An overview lists the services a
second time, after the list of `aggregate_all_services_in_project` went out of
scope: SQLAlchemy's identity map is weak, a flushed object that nobody holds is
collected, and the row is loaded anew (`Reloaded`). The overview then sees its own
UPDATE, and where that left `health_status` out, because the computed level
equals the loaded one, whatever another read has committed meanwhile. The model
takes every aggregated object for flushed by then; it is, because the telemetry
that gave a service a row gives one to an endpoint too, and writing it flushes.
So a cached overview may show a health older than its numbers, although
`aggregate_all_services_in_project` says that after it "the next overview request
reflects the fresh data" (`metrics_aggregation_service.py:311-312`): in the run
`metrics_reads` an overview that computes critical, as loaded, shows and caches
healthy, which another read computed from older telemetry and committed in
between. `CachedAnswersAreFresh` grants an overview this, and nothing else.

### MetricWindows

The numbers the two modules around it leave out, for one service. A read that
misses the cache asks for a window of its own choice (`Begin(w)`, `width`: each
request has a `window_minutes`) and turns the telemetry of each minute of it into one row
for the service (`AggregateService`) and one per endpoint
(`AggregateEndpoints`), adds rows up for its answer (`TimeSeries`, `Current`,
`EndpointRow`, `ProjectSeries`, evaluated in the state `pc = "report"`) and
commits. `rows` is a bag: every read inserts anew. A tick is a part of a minute,
so that reads and detections see minutes that are not over; telemetry may be
a minute late. `Detect` is one run of `detect_for_service` over the committed
rows, in exact integer arithmetic: percentiles in twentieths, z-scores by
comparing squares (`Off`, `Spread`, `Floors`, `Triggered`), severities in 44ths of
a score (`ScoresAtLeast`). Floating point is modelled where a decision hangs on
it. `ErrorRate` is rounded to a multiple of `1 / RateScale`, which is 10^6 in the
program, and a tie goes the way its float goes (`RoundedUp`). `StdIsZero` is the
test `std == 0`: numpy's deviation of equal latencies is 0 only if their mean is
computed exactly, which it is not for the numbers of windows and percentiles in
`Inexact`; latencies that are no multiple of half a millisecond can be such (30
windows of 81.9 ms have a deviation of about 1.4e-14; the run takes 81.9 ms for
inexact whatever the number of windows). The floor that `statistical.py:87-88`
promises for identical latencies is then not applied, and a latency 0.1 ms above
them is an alarm: `AlarmsAreJustified` asks for the floor only where the deviation
was computed to be 0. Elsewhere
such an error is far below the smallest difference of two values, and is taken
for 0. The isolation forest's score is any of `ForestScores`. Each loop of queries is one step; the
steps between them are where telemetry and the clock come in.

`EndpointsCoverService` is about the rows one read writes (`pending`). Of the rows
of all reads it does not hold: the endpoints' window is computed after the
service's, so a read of a short window that passes a minute in between leaves a
row of the service without rows of its endpoints, and a later read of a longer
window adds that row to its series and has nothing to add to its table.
`SteadyAlarmsComeFromPartialRows` names the row behind a false alarm: one with
fewer requests than its minute came to have, and so with another value of the
metric that alarms.

### AnomalyDetection

One request detects for the services of a project, or for one. `FoundAnomalous`
and `FoundNormal` take the verdict of the detectors as an input, because the
windows may change between any two loads; `Triggered` is
`compute_combined_score`'s choice of metrics. `Record` is the duplicate check
with the insertion (both invisible to others until the commit); `StartResolve`
and `FinishResolve` are the UPDATE of `resolve`, which waits for rows locked by
others and evaluates its WHERE again. A row is named by its creator, and
`seen`, `triggered`, `recovered` are history variables for the properties.
Recovery is decided for a service, not for a metric: while one metric is out of
range, or only the forest fires, the anomalies of metrics that are back in range
stay active (`anomaly_detection_service.py:213`), although lines 16 and 214 speak
of the metric. `RecoveryResolves` therefore asks only of services found normal.

### Accounts

Registration and the creation of organizations, projects and API keys. The look
for an e-mail or slug and the INSERT that the unique constraint judges are
separate steps; `pending` holds the entries of the unique indexes an open
transaction has inserted, on which others wait. `Candidate`, `LookFree`,
`LookTaken` and `GiveUp` are the numbered suffixes; a slug is its base and the
suffixes behind it, with a length that may outgrow the column (`Fits`), so that
"acme-2" asked for as a name meets "acme" with a suffix. A request with a token
starts after the registration that issued it has ended: nothing disables or
deletes users, so `get_current_user` always finds them. `begun` is a history
variable: the entries committed when the request began.

### Schema

`AccountTables`, `TelemetryTables` and `IncidentTables` are `upgrade()`: the
tables in their order, with their foreign keys and ON DELETE rules;
`Downgrade` is the other list. A migration is one transaction (`env.py`, with
PostgreSQL's transactional DDL) that reads the version, executes its statements
one by one (`Create`, `Drop`), waits for a table another migration has created
or dropped and not committed (`Waits`), and fails if a statement cannot be
executed (`Executable`). `AfterDelete` is what DELETE leaves by the ON DELETE
rules, `AfterOrmDelete` what `session.delete()` leaves by the relationships of
`app/db/models` (children are loaded and deleted, or their key set to NULL, and
PostgreSQL does the rest). No code of the repository deletes rows: these are
the promises the models and the migration make to whoever does. Inserted rows
name an endpoint, aggregate or incident of their own service only, as the
program does; a statement on rows is one transaction, and waits for the tables
a running downgrade has locked. Columns, indexes and unique constraints are
left out (the constraints are in `Ingestion` and `Accounts`).

## Runs

`MC*.tla` give the constants their values, the `.cfg` files the bounds.

| Run | Shows | Bounds, and why they are enough |
|---|---|---|
| `telemetry_client` | `TypeOK`, `InOnePlace`, `FullBufferHasTask`, refinement `DeliversAtMostOnce`, `BufferIsFlushed`, `StopReturns` | 3 recorded requests and 1 excluded, batch size 2: two flushes in flight, a one-shot and the periodic one meeting, one event left over |
| `telemetry_client_stop` | violation of `StopFlushesRemaining` | as above |
| `ingestion` | `TypeOK`, `NoDuplicateRows`, `EventsAreScoped`, `AcceptedIffStored`, `NoStaleWrites`, `EveryRequestAnswered` | 2 batches with 2 endpoints in opposite order (a deadlock needs two), 1 creator, 1 revoker, 2 projects with a service of one name |
| `rate_limiter` | `TypeOK`, `LimitPerWindow`, `NoFalseRejection`, `LimitedOnceReachable` | 4 requests of 2 keys, limit 2, pool 2, window 2 ticks, 1 tick late, 4 ticks, 1 outage or crash: a full window and a late request, at any moment of a startup without Redis |
| `metrics_reads` | `TypeOK`, `CachedAnswersAreFresh`, `HealthIsNotForgotten`, `EveryReadEnds` | any 2 of 2 overviews, a metrics and a health read; 3 services: s1 stored as critical, healthy in telemetry not yet aggregated, and critical again with the next batch, so that two versions have equal level and an overview finds another's older health when it lists the services again; s2 with telemetry never aggregated, s3 with none; one tick, which expires metrics and overviews |
| `metrics_health_expires` | violation of `HealthExpires` | a metrics and a health read, 3 ticks against TTLs of 1 and 2, a Redis that works |
| `metric_windows` | `TypeOK`, `ReadsMissNothing`, `EndpointsCoverService`, `AlarmsAreJustified`, `SteadyAlarmsComeFromPartialRows` | 2 reads of windows of 1 or 2 minutes, 3 minutes of 2 ticks (the third just begun), 2 requests a minute of a faster and a slower, failing endpoint (80 and 82 ms, p95 80, 81.9 and 82 ms), a baseline of 2 windows, a forest that is silent or certain: duplicate, partial and late rows, windows of both widths, and each severity. `RateScale` 12 is exact for up to 4 requests a row; TLC's integers have 32 bits, the theorems hold for every scale |
| `metric_windows_twice` | violation of `RequestsCountedOnce` | the same with 1 request a minute |
| `anomaly_detection` | `TypeOK`, `DuplicatesOverlap`, `TriggeredIsRecorded`, `RecoveryResolves`, `ResolvedOnce`, `EveryDetectionEnds` | 3 requests: one creates, two resolve and wait for each other; 2 services for the project-wide one |
| `anomaly_stays_active` | violation of `NormalHasNoAnomaly` | 2 requests in sequence are enough |
| `accounts` | `TypeOK` (with the unique names), `AccountsAreWhole`, `TenantsAreSeparate`, `ConflictsAreRaces`, `EveryRequestEnds` | 3 registrations (two of one address), 1 organization, 2 projects, 2 keys; suffixes up to 2, so that three organizations of one slug use them up; a column of 3, which a long base fills |
| `schema` | `TypeOK`, `SchemaIsWhole`, `OrmDeletesLikeSql`, `DeletionsKeepHistory` | 2 migrators, 3 migrations (an upgrade, and two that meet), 7 rows: an anomaly with all it may refer to takes seven; 2 anomalies, one row in any other table |

`CHECK_DEADLOCK FALSE` everywhere: requests are finite in number, so every
model ends; that nobody waits for ever is what the liveness properties say.
`RateLimiter` is checked up to permutation of the requests of one key, `Schema`
of the migrators (no liveness is checked there). `MaxTime`, `MaxVersion`,
`MaxReads`, `MaxDelay`, `MaxFaults`, `PerMinute`, `MaxMigrations`, `MaxRows` and
the finite sets of requests are the bounds of the models; each is a guard or a
constant of its module.

The violation runs are disagreements between the code and what it says of
itself; `PROJECT.json` quotes both sides of each under `findings`.

### Fairness

* `TelemetryClient`: weak fairness of `Tick`, `RunTask`, `PostEnds` and of the
  steps of `stop()` that follow `StopCalled`: the event loop runs ready tasks,
  timers fire, and `config.timeout_seconds` ends every POST. Nothing is assumed
  of the application (it may never finish a request or call `stop()`) nor of
  the server.
* `Ingestion`, `MetricsApi`, `AnomalyDetection`, `Accounts`: weak fairness of each
  request's own steps (the server runs a handler it has started), and in
  `Ingestion` of PostgreSQL's deadlock resolution. A rollback is never
  promised.
* `RateLimiter`, `MetricWindows` and `Schema` have no liveness property: a
  request is a fixed number of steps, a read is `MetricsApi`'s, and nothing
  obliges a migration to go on.

## Proofs

The theorems hold for every value of the constants that satisfies the
assumption named in the module, not only for the instances of the runs. Each
`*Proofs` module states its inductive invariant `IInv` (TLC checked it on the
bounds of the run before it was proved), proves `Init => IInv` and
`IInv /\ [Next]_vars => IInv'` action by action, and derives the theorems.

| Module | Theorems (property) |
|---|---|
| `TelemetryClientProofs` | `TypeCorrect` (`TypeOK`), `NothingTwice` (`InOnePlace`), `FullBufferIsTaken` (`FullBufferHasTask`), `ImplementsDelivery` (`DeliversAtMostOnce`) |
| `RateLimiterProofs` | `TypeCorrect` (`TypeOK`), `LimitHolds` (`LimitPerWindow`), `RejectionsAreDue` (`NoFalseRejection`), `UncountedOnlyInTrouble` (`LimitedOnceReachable`) |
| `IngestionProofs` | `TypeCorrect` (`TypeOK`), `RowsAreUnique` (`NoDuplicateRows`), `BatchesStayInProject` (`EventsAreScoped`), `AcceptedIsStored` (`AcceptedIffStored`), `NothingStaleIsWritten` (`NoStaleWrites`) |
| `MetricsApiProofs` | `TypeCorrect` (`TypeOK`), `CachedAnswersStayFresh` (`CachedAnswersAreFresh`), `HealthIsKept` (`HealthIsNotForgotten`) |
| `AnomalyDetectionProofs` | `TypeCorrect` (`TypeOK`), `OnlyRacesDuplicate` (`DuplicatesOverlap`), `IncidentsAreRecorded` (`TriggeredIsRecorded`), `RecoveriesResolve` (`RecoveryResolves`), `RecoveryTimeIsFinal` (`ResolvedOnce`) |
| `AccountsProofs` | `TypeCorrect` (`TypeOK`), `WholeOrNothing` (`AccountsAreWhole`), `TenantsStaySeparate` (`TenantsAreSeparate`), `ConflictsNeedRaces` (`ConflictsAreRaces`) |
| `SchemaProofs` | `TypeCorrect` (`TypeOK`), `SchemaStaysWhole` (`SchemaIsWhole`), `ModelsMatchMigration` (`OrmDeletesLikeSql`), `HistoryIsKept` (`DeletionsKeepHistory`) |
| `MetricWindowsProofs` | `TypeCorrect` (`TypeOK`), `NothingIsMissed` (`ReadsMissNothing`), `EndpointsCoverTheService` (`EndpointsCoverService`), `AlarmsHaveReasons` (`AlarmsAreJustified`), `SteadyAlarmsArePartial` (`SteadyAlarmsComeFromPartialRows`) |

### TelemetryClientProofs

Under `ClientAssumption`: a finite set of requests, a positive batch size, task
names that differ. `InOnePlace` alone is not inductive: a step that records an
event must know that the event is not already on the wire or stored, and a
flush that it is not. `OnlyRecorded` says that only recorded events are in the
buffer, on the wire or in the store, and `InItsTime` which tasks exist in which
phase. `PlaceStep` preserves the invariant action by action; the moves of a
flush are a lemma of their own (`FlushMoves`). For the refinement of
`TelemetryDelivery`, `Settles` shows that a server step delivers or drops a
whole batch, `FlushRefines` that a flush is a stutter or a drop, and `Stutters`
covers the steps that leave all statuses alone.

### RateLimiterProofs

Under `RateLimiterAssumption`: positive limit, window and pool, and `MaxDelay <
Window`. `LimitPerWindow` counts requests, the code compares a Redis counter:
`CountsNumber` says that the requests counted by one counter have different
counts, none above their number, and `CounterLives` that as long as a pipeline
may still act on a counter (`SentInTime`: until `MaxDelay` after its window),
the counter has not expired and is that number. The requests let through then
map one to one to `1..Limit`, which bounds their cardinality. The last part is
where `MaxDelay < Window` is needed; the proof attempt with `<=` found it.
`LimitedOnceReachable` needs only that a configured backend has a client once
it serves (`ClientOnceConfigured`).

### IngestionProofs

Under `IngestionAssumption`, which says of the seeded services what the unique
constraint of the table says: one row per project and name. Uniqueness follows
from the locks that PostgreSQL's unique index takes on an INSERT:
`NamesAreOwned` says who holds the lock of a name and where, `ServiceIsResolved`
and `EndpointsAreResolved` that a request in progress has either a committed row
or a pending one together with its lock, and then nobody has committed a row of
that name. The same two give `EventsAreScoped`. `EndpointsInTurn` ties the
position in the batch to the state of the transaction (`AcceptedIffStored`
needs that a batch commits only after its last endpoint), `RowsAreCommitted`
that the rows of a request appear only with its answer, and `RevocationIsStamped`
is what `NoStaleWrites` needs of the rows a commit does not write (`Updated`:
SQLAlchemy sends only changed columns).

### MetricsApiProofs

Under `MetricsAssumption`: a finite set of services listed in `ByName`, positive
TTLs, any health levels, any failures of Redis. `CachedAnswersAreFresh` speaks of
the end of a read, its reason is spread over the read: `FinishedIsAggregated`
says that each service the read is about is either still on its list or
aggregated (by its own rows or by newer committed ones) at least up to the
telemetry there was when the read began, `HeadIsAggregated` the same of the one
it is at, `FloorIsPast` that telemetry only grows, and `AnswerIsFresh` carries it
to the answer. An overview's answer may carry another level instead, and only
one that differs from the level its session loaded (`AsFreshAsPromised`,
`ShowsAnothers`): the UPDATE of that service was empty, and the row has changed.
`StayingRight` shows that steps of other reads cannot disturb
this, as committed rows only grow (`RowsOnlyGrow`). For `HealthIsNotForgotten`,
`SessionIsComputed` says that a session which holds a health that was never
computed holds the one it loaded: `Written` then leaves the row alone
(`WrittenIsComputed`). `LocksAreHeld` types the row locks: a read that answers
from the cache holds none.

### AnomalyDetectionProofs

Under `AnomalyAssumption`. `OwnRows` and `LocksAreExclusive` say whose rows
and locks there are: a row is resolved by one request at a time, and never
again. `NoneSeenActive` is the induction behind `DuplicatesOverlap`: a request
that inserts a row saw no active one of that service and metric that it has
not resolved itself. `FoundIsRecorded` and `NormalIsResolved` follow what a
request has found through its remaining list (`Ahead`) to its commit;
`HasWork` and `NothingFoundYet` tie the lists to the place in the handler.
`ResolvedOnce` is an action property: the step that commits a resolution holds
the lock of a row that was active.

### AccountsProofs

Under `AccountsAssumption`: the four kinds of requests are disjoint, and a
registration is no number (the suffix a registration falls back to, derived
from its id, is none of the numbered ones). `EntriesAreHeld` says
that a transaction holds the unique-index entries of the rows it has inserted
and that nobody holds a committed one, `SlugsAreOwn` which slugs a request can
settle on, `LooksAreRecent` that what a request found free was free when it
began (`ConflictsAreRaces`), `AccessHolds` that what an access check granted
cannot be lost before the commit, since memberships are never removed
(`TenantsAreSeparate`), `RowsAreCommitted` that rows appear with their answer
(`AccountsAreWhole`).

### SchemaProofs

Under `SchemaAssumption`: a bound on migrations, and a NULL that is no row number
and no goal. Any number of migrators and rows. The lemmas up to `Scripts` give
each table its place in upgrade() (`Rank`) and say that every foreign key names
a table of lower rank (`KeysGoBack`) and that downgrade() runs in the opposite
order; `ChangedIs` turns what a migration has changed into an interval of ranks,
and `FailsOnlyAtGoal` finds that a statement which waits for nobody can then be
executed. `ClosureIs` shows that the set of rows a deletion takes with it
exists (the least closed set is one), `Survivors` what setting keys to NULL does
to rows, keys and numbers. `SchemaIsWhole` is inductive for the tables; for the
rows it needs that no two rows of a table have one number (`Numbered`).
`OrmIsDelete` shows that both deletions leave the same rows, so that the rest
speaks of `AfterDelete` alone: what the ORM deletes along is a CASCADE key and
what it nullifies a SET NULL key (`ModelsAgree`); a row the database takes is by
descent along the ranks (`Descent`) one the ORM takes (`OrmTakesTheSame`), and
the rows left forget the same (`OrmForgetsTheSame`).
`HistoryIsKept` also uses that anomalies and events hang on their service alone
(`HistoryHangsOnServices`), that nothing refers to them, and that they therefore
go alone (`LonelyClosure`).

### MetricWindowsProofs

Under `WindowsAssumption`: finite sets of endpoints and samples, and bounds that
are numbers. The program's numbers are sums over finite sets (`Total`). What a
sum does is an induction over sets, and the library's induction theorems cannot
be used with an operator here; `OneByOne` is the induction that can, by least
counterexample among the subsets of a finite set (`WFMin` and the
well-foundedness of strict inclusion take sets, not operators). From it follow
the lemmas about `Added`: adding one element, agreeing terms, zeros, sums of
sums and multiples, exchanging two sums (`AddedSwap`), and `AddedInto`: a sum
whose terms map one to one to terms at least as large is at most that sum.

Percentiles only need to be numbers (`PercentileIs`). `RowOfIs` and `NewRowsAre`
say what a row counts, `EndpointsShare` that an event is of exactly one
endpoint. The invariant: what a read saw when it began is still there
(`SeenIsThere`), has a row of its own as soon as the service is aggregated
(`SeenIsCounted`), and nothing is of a minute to come (`InTime`, which rules out
that a filled minute lies behind the last window of the loop). `Covered` is the
reason for the order of the two aggregations: in every window that begins at
`Since` or later the rows of the endpoints count at least what those of the
service count, as far as one read wrote both (`pending`); that holds for each
read's own window and needs nothing of the rows other reads left. It is inductive
only because between the two steps the service's
rows are one per minute and count no more than the telemetry there is by then
(`ServiceRows`), and because `Since` only grows. `ServiceParts` says of every row of
the service, whoever wrote it, that it counts a part of the telemetry its minute
has by now, and is not of a minute to come. `GoingOn` carries the parts over steps
of telemetry and time.

Detection is arithmetic over one state: `TriggeredIs` turns the floors into the
bounds of `AlarmsAreJustified`, `CriticalNeedsBoth` is the weighing of the two
scores. `AlikeIsQuiet` shows that rows that are all alike have a distance of 0
and trigger nothing. For `SteadyAlarmsComeFromPartialRows`, `ComparedAre` places
every row that a detection compares between the first of their minutes and the
current one and gives, from `ServiceParts`, the part of its minute's telemetry it
counts; steady traffic makes that a part of `traffic`, so it either has fewer
requests or is all of it (`PartIs`). If no row had fewer requests and another
value, all would have the value of the whole traffic in that metric, and be alike.

### Only model-checked

* The liveness properties (`BufferIsFlushed`, `StopReturns`,
  `EveryRequestAnswered`, `EveryReadEnds`, `EveryDetectionEnds`,
  `EveryRequestEnds`): TLAPS does not reason about fairness.

## Plan

All components with code are modelled, and every invariant and action property
that a passing run checks is proved. Left to the model checker is liveness.

## Not modelled

* The lifecycle of incidents, evidence and AI explanations: tables without
  code. `Schema` has their rows and deletion.
* `ml-engine/`: docstrings and TODOs. scikit-learn's isolation forest: its score
  is an input.
* The frontend: pages that do not query yet, and a token in localStorage. The
  demo service: a traffic generator.
* Averages and percentiles other than the 95th and deviations in percent:
  computed like what is modelled, and nothing is decided by them. Rounding and
  floating point beyond `ErrorRate` and `StdIsZero`: where a score meets a
  threshold exactly, the model decides by the exact number.
* The contents of events beyond endpoint, latency and error; labels of cached
  entries; pagination and lists, which only read.
* Two concurrent revocations of one key, the loss of Redis' counters, and
  deletions that meet open transactions of the program.

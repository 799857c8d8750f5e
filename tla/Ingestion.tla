----------------------------- MODULE Ingestion -----------------------------
(* Ingestion of telemetry batches (TelemetryIngestionService.ingest) as      *)
(* concurrent PostgreSQL transactions, together with the other writers of    *)
(* the rows it touches: the dashboard registering a service, the dashboard   *)
(* revoking an API key, and the metrics engine setting a service's health.   *)
(*                                                                           *)
(* One HTTP request is one session and one transaction (db/session.py), at   *)
(* READ COMMITTED: a statement sees the rows committed when it starts and    *)
(* those of its own transaction.  A pending INSERT holds the entry of its    *)
(* unique constraint, an UPDATE holds its row, both until the transaction    *)
(* ends; a statement that needs one held by another waits.                   *)
(*                                                                           *)
(* The session does not autoflush: what a handler assigns to a loaded row is *)
(* sent when the session is flushed, which is inside ServiceRepository.create*)
(* and at commit, and only the columns whose value changed are sent.         *)
EXTENDS Naturals, Sequences, FiniteSets

CONSTANTS
    Batches,        \* POST /telemetry requests
    Creators,       \* POST .../services requests of the dashboard
    Revokers,       \* DELETE .../api-keys/{key_id} requests of the dashboard
    Keys, Projects, Names, Paths,
    KeyOf,          \* Batches \cup Revokers -> Keys
    ProjectOf,      \* Keys -> Projects
    ServiceOf,      \* Batches -> Names, the batch's service_name
    PathsOf,        \* Batches -> Seq(Paths), first occurrences in event order
    Registers,      \* Creators -> Projects \X Names
    Health,         \* values of services.health_status
    Seed,           \* the services rows there are at the start
    None

Actors == Batches \cup Creators \cup Revokers
SeedIds == {s.id : s \in Seed}
Ids == Actors \cup SeedIds
ServiceRow == [id : Ids, project : Projects, name : Names]
EndpointRow == [id : Actors, service : Ids, path : Paths]
EventRow == [batch : Batches, service : Ids, endpoint : Actors, path : Paths]

ASSUME IngestionAssumption ==
    /\ KeyOf \in [Batches \cup Revokers -> Keys]
    /\ ProjectOf \in [Keys -> Projects]
    /\ ServiceOf \in [Batches -> Names]
    /\ PathsOf \in [Batches -> Seq(Paths)]
    /\ Registers \in [Creators -> Projects \X Names]
    /\ Seed \subseteq ServiceRow
    /\ \A s, t \in Seed : s.project = t.project /\ s.name = t.name => s = t
    /\ SeedIds \cap Actors = {}
    /\ None \notin Ids
    /\ "unknown" \in Health
    /\ Batches \cap (Creators \cup Revokers) = {} /\ Creators \cap Revokers = {}

VARIABLES
    services, endpoints, events,  \* committed rows
    health,       \* services.health_status, by service id
    active,       \* api_keys.is_active
    revokedBy,    \* the request whose clock api_keys.revoked_at shows
    pc,           \* the next statement of each request, or its answer
    svc,          \* the service row a transaction resolved or inserted
    seen,         \* the health_status it loaded with that row
    pos,          \* how many endpoints it has resolved
    eps,          \* the endpoint row it resolved for each path
    keyLock,      \* who holds the row of each API key
    nameLock,     \* who holds (project_id, name) of services and that row
    pathLock      \* who holds (service_id, path, method) of endpoints

rows == <<services, endpoints, events, health, active, revokedBy>>
locals == <<svc, seen, pos, eps>>
locks == <<keyLock, nameLock, pathLock>>
vars == <<rows, pc, locals, locks>>

Open == {"resolve", "create", "endpoints", "revoke", "commit"}
Answers == {"200", "201", "202", "401", "409", "429", "500"}

(* The (project_id, name) a request is about.                                *)
Project(a) == IF a \in Creators THEN Registers[a][1] ELSE ProjectOf[KeyOf[a]]
Name(a) == IF a \in Creators THEN Registers[a][2] ELSE ServiceOf[a]

(* Types; and only a request in progress holds locks.                        *)
TypeOK ==
    /\ services \subseteq ServiceRow
    /\ endpoints \subseteq EndpointRow
    /\ events \subseteq EventRow
    /\ health \in [Ids -> Health]
    /\ active \in [Keys -> BOOLEAN]
    /\ revokedBy \in [Keys -> Revokers \cup {None}]
    /\ pc \in [Actors -> {"idle"} \cup Open \cup Answers]
    /\ svc \in [Actors -> Ids \cup {None}]
    /\ seen \in [Actors -> Health]
    /\ pos \in [Actors -> Nat]
    /\ eps \in [Actors -> [Paths -> Actors \cup {None}]]
    /\ keyLock \in [Keys -> {None} \cup {a \in Actors : pc[a] \in Open}]
    /\ nameLock \in [Projects \X Names -> {None} \cup {a \in Actors : pc[a] \in Open}]
    /\ pathLock \in [Ids \X Paths -> {None} \cup {a \in Actors : pc[a] \in Open}]

Init ==
    /\ services = Seed
    /\ endpoints = {} /\ events = {}
    /\ health = [i \in Ids |-> "unknown"]
    /\ active = [k \in Keys |-> TRUE]
    /\ revokedBy = [k \in Keys |-> None]
    /\ pc = [a \in Actors |-> "idle"]
    /\ svc = [a \in Actors |-> None]
    /\ seen = [a \in Actors |-> "unknown"]
    /\ pos = [a \in Actors |-> 0]
    /\ eps = [a \in Actors |-> [p \in Paths |-> None]]
    /\ keyLock = [k \in Keys |-> None]
    /\ nameLock = [n \in Projects \X Names |-> None]
    /\ pathLock = [e \in Ids \X Paths |-> None]

Goto(a, l) == pc' = [pc EXCEPT ![a] = l]

Free(l, a) == l \in {None, a}

(* The end of a transaction: its locks are released.                         *)
Released(lock, a) == [x \in DOMAIN lock |-> IF lock[x] = a THEN None ELSE lock[x]]

ReleaseLocks(a) ==
    /\ keyLock' = Released(keyLock, a)
    /\ nameLock' = Released(nameLock, a)
    /\ pathLock' = Released(pathLock, a)

(* What an UPDATE leaves in a column: the session sends it only if the       *)
(* handler assigned a value other than the one it had loaded.                *)
Updated(loaded, assigned, current) ==
    IF assigned = loaded THEN current ELSE assigned

----------------------------------------------------------------------------
(* POST /telemetry                                                           *)

(* check_rate_limit said no: no session statement has run.                   *)
Throttle(b) ==
    /\ pc[b] = "idle"
    /\ Goto(b, "429")
    /\ UNCHANGED <<rows, locals, locks>>

(* validate_key: the SELECT finds active keys only.                          *)
ValidateKey(b) ==
    /\ pc[b] = "idle"
    /\ Goto(b, IF active[KeyOf[b]] THEN "resolve" ELSE "401")
    /\ UNCHANGED <<rows, locals, locks>>

(* get_or_create_by_name, the SELECT.                                        *)
MatchByName(b) == {s \in services : s.name = Name(b)}

Match(b) == {s \in services : s.project = Project(b) /\ s.name = Name(b)}

ResolveService(b) ==
    /\ pc[b] = "resolve"
    /\ \/ /\ Match(b) = {}
          /\ Goto(b, "create")
          /\ UNCHANGED <<svc, seen>>
       \/ \E s \in Match(b) :
            /\ svc' = [svc EXCEPT ![b] = s.id]
            /\ seen' = [seen EXCEPT ![b] = health[s.id]]
            /\ Goto(b, "endpoints")
    /\ UNCHANGED <<rows, pos, eps, locks>>

(* ServiceRepository.create: the flush updates api_keys.last_used_at, which  *)
(* validate_key assigned, and inserts the services row, in either order.     *)
HoldsKey(a) == a \in Batches => keyLock[KeyOf[a]] = a
HoldsName(a) == nameLock[<<Project(a), Name(a)>>] = a
AfterInsert(a) == IF a \in Batches THEN "endpoints" ELSE "commit"

FlushKey(b) ==
    /\ pc[b] \in {"create", "commit"}
    /\ keyLock[KeyOf[b]] = None
    /\ keyLock' = [keyLock EXCEPT ![KeyOf[b]] = b]
    /\ Goto(b, IF pc[b] = "create" /\ HoldsName(b) THEN "endpoints" ELSE pc[b])
    /\ UNCHANGED <<rows, locals, nameLock, pathLock>>

InsertIgnoringConstraint(a) ==
    /\ pc[a] = "create"
    /\ nameLock[<<Project(a), Name(a)>>] = None
    /\ nameLock' = [nameLock EXCEPT ![<<Project(a), Name(a)>>] = a]
    /\ svc' = [svc EXCEPT ![a] = a]
    /\ Goto(a, IF HoldsKey(a) THEN AfterInsert(a) ELSE "create")
    /\ UNCHANGED <<rows, seen, pos, eps, keyLock, pathLock>>

(* The INSERT waits for a pending INSERT of the same (project_id, name) and  *)
(* fails (UniqueViolation) when such a row is committed.                     *)
InsertService(a) ==
    /\ pc[a] = "create"
    /\ nameLock[<<Project(a), Name(a)>>] = None
    /\ Match(a) = {}
    /\ nameLock' = [nameLock EXCEPT ![<<Project(a), Name(a)>>] = a]
    /\ svc' = [svc EXCEPT ![a] = a]
    /\ Goto(a, IF HoldsKey(a) THEN AfterInsert(a) ELSE "create")
    /\ UNCHANGED <<rows, seen, pos, eps, keyLock, pathLock>>

UniqueViolation(a) ==
    /\ pc[a] = "create"
    /\ nameLock[<<Project(a), Name(a)>>] = None
    /\ Match(a) # {}
    /\ Goto(a, "500")
    /\ ReleaseLocks(a)
    /\ UNCHANGED <<rows, locals>>

(* EndpointRepository.get_or_create for the next distinct endpoint of the    *)
(* batch: INSERT ... ON CONFLICT DO NOTHING, then SELECT of the one row.     *)
NextPath(b) == PathsOf[b][pos[b] + 1]
EndpointsAt(i, p) == {e \in endpoints : e.service = i /\ e.path = p}

InsertEndpoint(b) ==
    /\ pc[b] = "endpoints"
    /\ pos[b] < Len(PathsOf[b])
    /\ pathLock[<<svc[b], NextPath(b)>>] = None
    /\ EndpointsAt(svc[b], NextPath(b)) = {}
    /\ pathLock' = [pathLock EXCEPT ![<<svc[b], NextPath(b)>>] = b]
    /\ eps' = [eps EXCEPT ![b][NextPath(b)] = b]
    /\ pos' = [pos EXCEPT ![b] = @ + 1]
    /\ UNCHANGED <<rows, pc, svc, seen, keyLock, nameLock>>

FindEndpoint(b) ==
    /\ pc[b] = "endpoints"
    /\ pos[b] < Len(PathsOf[b])
    /\ pathLock[<<svc[b], NextPath(b)>>] = None
    /\ \E e \in EndpointsAt(svc[b], NextPath(b)) :
         eps' = [eps EXCEPT ![b][NextPath(b)] = e.id]
    /\ pos' = [pos EXCEPT ![b] = @ + 1]
    /\ UNCHANGED <<rows, pc, svc, seen, locks>>

InsertEventsAutocommitted(b) ==
    /\ pc[b] = "endpoints"
    /\ pos[b] = Len(PathsOf[b])
    /\ events' = events \cup
         {[batch |-> b, service |-> svc[b], endpoint |-> eps[b][PathsOf[b][i]],
           path |-> PathsOf[b][i]] : i \in 1..Len(PathsOf[b])}
    /\ Goto(b, "commit")
    /\ UNCHANGED <<services, endpoints, health, active, revokedBy, locals, locks>>

(* The bulk INSERT of the events: invisible before the commit, so the rows   *)
(* are added there.  Then the handler assigns health_status and last_seen_at *)
(* and returns.                                                              *)
InsertEvents(b) ==
    /\ pc[b] = "endpoints"
    /\ pos[b] = Len(PathsOf[b])
    /\ Goto(b, "commit")
    /\ UNCHANGED <<rows, locals, locks>>

(* The flush of the commit: UPDATE of the key row (FlushKey) and of the      *)
(* service row, in either order.                                             *)
FlushService(b) ==
    /\ pc[b] = "commit"
    /\ nameLock[<<Project(b), Name(b)>>] = None
    /\ nameLock' = [nameLock EXCEPT ![<<Project(b), Name(b)>>] = b]
    /\ UNCHANGED <<rows, pc, locals, keyLock, pathLock>>

(* The rows of a transaction: its own service, its own endpoints, its events.*)
OwnServices(a) ==
    IF svc[a] = a THEN {[id |-> a, project |-> Project(a), name |-> Name(a)]} ELSE {}
OwnEndpoints(b) ==
    {[id |-> b, service |-> svc[b], path |-> p] : p \in {q \in Paths : eps[b][q] = b}}
OwnEvents(b) ==
    {[batch |-> b, service |-> svc[b], endpoint |-> eps[b][PathsOf[b][i]],
      path |-> PathsOf[b][i]] : i \in 1..Len(PathsOf[b])}

CommitBatchWholeRows(b) ==
    /\ pc[b] = "commit"
    /\ HoldsKey(b) /\ HoldsName(b)
    /\ services' = services \cup OwnServices(b)
    /\ endpoints' = endpoints \cup OwnEndpoints(b)
    /\ events' = events \cup OwnEvents(b)
    /\ health' = [health EXCEPT ![svc[b]] = seen[b]]
    /\ active' = [active EXCEPT ![KeyOf[b]] = TRUE]
    /\ Goto(b, "202")
    /\ ReleaseLocks(b)
    /\ UNCHANGED <<revokedBy, locals>>

CommitBatch(b) ==
    /\ pc[b] = "commit"
    /\ HoldsKey(b) /\ HoldsName(b)
    /\ services' = services \cup OwnServices(b)
    /\ endpoints' = endpoints \cup OwnEndpoints(b)
    /\ events' = events \cup OwnEvents(b)
    /\ health' = [health EXCEPT ![svc[b]] = Updated(seen[b], seen[b], @)]
    /\ active' = [active EXCEPT ![KeyOf[b]] = Updated(TRUE, TRUE, @)]
    /\ Goto(b, "202")
    /\ ReleaseLocks(b)
    /\ UNCHANGED <<revokedBy, locals>>

----------------------------------------------------------------------------
(* ServiceService.create, after its access check.                            *)

CheckName(c) ==
    /\ pc[c] = "idle"
    /\ Goto(c, IF Match(c) = {} THEN "create" ELSE "409")
    /\ UNCHANGED <<rows, locals, locks>>

CommitService(c) ==
    /\ pc[c] = "commit"
    /\ services' = services \cup OwnServices(c)
    /\ Goto(c, "201")
    /\ ReleaseLocks(c)
    /\ UNCHANGED <<endpoints, events, health, active, revokedBy, locals>>

----------------------------------------------------------------------------
(* ApiKeyService.revoke, after its access check.                             *)

ReadKey(v) ==
    /\ pc[v] = "idle"
    /\ Goto(v, IF active[KeyOf[v]] THEN "revoke" ELSE "409")
    /\ UNCHANGED <<rows, locals, locks>>

RevokeKey(v) ==
    /\ pc[v] = "revoke"
    /\ keyLock[KeyOf[v]] = None
    /\ keyLock' = [keyLock EXCEPT ![KeyOf[v]] = v]
    /\ Goto(v, "commit")
    /\ UNCHANGED <<rows, locals, nameLock, pathLock>>

CommitRevocation(v) ==
    /\ pc[v] = "commit"
    /\ active' = [active EXCEPT ![KeyOf[v]] = FALSE]
    /\ revokedBy' = [revokedBy EXCEPT ![KeyOf[v]] = v]
    /\ Goto(v, "200")
    /\ ReleaseLocks(v)
    /\ UNCHANGED <<services, endpoints, events, health, locals>>

----------------------------------------------------------------------------

(* Any failure before the commit (a database error, a cancelled request)     *)
(* rolls everything back.                                                    *)
RollBackKeepingLocks(a) ==
    /\ pc[a] \in Open
    /\ Goto(a, "500")
    /\ UNCHANGED <<rows, locals, locks>>

RollBack(a) ==
    /\ pc[a] \in Open
    /\ Goto(a, "500")
    /\ ReleaseLocks(a)
    /\ UNCHANGED <<rows, locals>>

(* Who a waits for, and a set of transactions each waiting for one of it.    *)
WaitsFor(a) ==
    CASE a \in Revokers /\ pc[a] = "revoke" -> {keyLock[KeyOf[a]]} \ {None}
      [] a \in Batches /\ pc[a] = "endpoints" /\ pos[a] < Len(PathsOf[a]) ->
           {pathLock[<<svc[a], NextPath(a)>>]} \ {None, a}
      [] a \in Batches /\ pc[a] \in {"create", "commit"} ->
           {keyLock[KeyOf[a]], nameLock[<<Project(a), Name(a)>>]} \ {None, a}
      [] a \in Creators /\ pc[a] = "create" ->
           {nameLock[<<Project(a), Name(a)>>]} \ {None, a}
      [] OTHER -> {}

Deadlocked(S) == S # {} /\ \A a \in S : WaitsFor(a) \cap S # {}

(* PostgreSQL aborts one transaction of a deadlock.                          *)
AbortDeadlocked(a) ==
    /\ \E S \in SUBSET Actors : a \in S /\ Deadlocked(S)
    /\ RollBack(a)

(* The metrics engine commits the health it computed (an UPDATE of one row). *)
SetHealth(s, h) ==
    /\ nameLock[<<s.project, s.name>>] = None
    /\ health' = [health EXCEPT ![s.id] = h]
    /\ UNCHANGED <<services, endpoints, events, active, revokedBy, pc, locals, locks>>

BatchStep(b) ==
    \/ ValidateKey(b) \/ ResolveService(b)
    \/ FlushKey(b) \/ InsertService(b) \/ UniqueViolation(b)
    \/ InsertEndpoint(b) \/ FindEndpoint(b) \/ InsertEvents(b)
    \/ FlushService(b) \/ CommitBatch(b)

CreatorStep(c) ==
    CheckName(c) \/ InsertService(c) \/ UniqueViolation(c) \/ CommitService(c)

RevokerStep(v) == ReadKey(v) \/ RevokeKey(v) \/ CommitRevocation(v)

Next ==
    \/ \E b \in Batches : BatchStep(b) \/ Throttle(b)
    \/ \E c \in Creators : CreatorStep(c)
    \/ \E v \in Revokers : RevokerStep(v)
    \/ \E a \in Actors : RollBack(a) \/ AbortDeadlocked(a)
    \/ \E s \in services, h \in Health : SetHealth(s, h)

(* The server runs every handler it has started, and PostgreSQL resolves     *)
(* deadlocks.  No failure and no write of the engine is promised.            *)
Fairness ==
    /\ \A b \in Batches : WF_vars(BatchStep(b))
    /\ \A c \in Creators : WF_vars(CreatorStep(c))
    /\ \A v \in Revokers : WF_vars(RevokerStep(v))
    /\ \A a \in Actors : WF_vars(AbortDeadlocked(a))

Spec == Init /\ [][Next]_vars

FairSpec == Spec /\ Fairness

----------------------------------------------------------------------------
(* Properties *)

(* Concurrent first batches, and a batch racing the dashboard, never make    *)
(* two services of one name in a project, nor two endpoints of one path in a *)
(* service.                                                                  *)
NoDuplicateRows ==
    /\ \A s, t \in services : s.project = t.project /\ s.name = t.name => s = t
    /\ \A e, f \in endpoints : e.service = f.service /\ e.path = f.path => e = f

(* Every stored event hangs from the endpoint row of its path, and through   *)
(* it from the service of its name in the project of its API key: no batch   *)
(* reaches another project's service of the same name.                       *)
EventsAreScoped ==
    \A e \in events :
      /\ [id |-> e.endpoint, service |-> e.service, path |-> e.path] \in endpoints
      /\ [id |-> e.service, project |-> Project(e.batch), name |-> Name(e.batch)] \in services

(* A batch is stored whole exactly when it was answered 202; every other     *)
(* answer leaves nothing of it behind.                                       *)
AcceptedIffStored ==
    \A b \in Batches :
      {e.path : e \in {x \in events : x.batch = b}} =
        IF pc[b] = "202" THEN {PathsOf[b][i] : i \in 1..Len(PathsOf[b])} ELSE {}

(* What a transaction loaded and did not mean to change it does not write    *)
(* back.  "Revocation is permanent": no batch that found the key active      *)
(* makes it active again or takes back its revoked_at.  ingest() passes the  *)
(* health it loaded to update_health_and_last_seen (the "existing status");  *)
(* a health the engine set in between survives it.                           *)
NoStaleWrites ==
    [][/\ \A k \in Keys : ~active[k] => ~active'[k] /\ revokedBy'[k] # None
       /\ \A i \in Ids : health'[i] # health[i] =>
            UNCHANGED <<services, endpoints, events, active, pc>>]_vars

(* Every request is answered: lock waits end, with a deadlock's abort if     *)
(* nothing else, although batches lock endpoints in the order of their       *)
(* events.                                                                   *)
EveryRequestAnswered == \A a \in Actors : pc[a] \in Open ~> pc[a] \in Answers
=============================================================================

---------------------------- MODULE RateLimiter ----------------------------
(* The rate limiter of the ingestion route: CacheService.check_rate_limit    *)
(* (backend/app/core/cache_service.py) as ingest_telemetry calls it.  A      *)
(* request takes the number of the current window from its own clock, then   *)
(* sends INCR and EXPIRE in one MULTI/EXEC pipeline over a connection of the *)
(* Redis pool (init_redis: max_connections), and is rejected when the count  *)
(* that comes back is over the limit.  Every exception lets it through: an   *)
(* error of Redis, and an exhausted pool as well.                            *)
(*                                                                           *)
(* The client is made when the backend starts (lifespan, init_redis), before *)
(* anything shows whether Redis is there.  The counters outlive the backend; *)
(* Redis may be unreachable for a while, but does not lose them.             *)
EXTENDS Naturals, FiniteSets

CONSTANTS
    Requests,     \* ingestion requests
    Identifiers,  \* hashes of API keys
    IdOf,         \* Requests -> Identifiers
    Limit,        \* TELEMETRY_RATE_LIMIT_PER_MINUTE
    Window,       \* window_seconds, in clock ticks
    PoolSize,     \* max_connections of the Redis pool
    MaxDelay,     \* bound: how late, in ticks, Redis acts on a pipeline
    MaxTime,      \* bound of the clock
    MaxFaults     \* bound of the outages of Redis and the backend's crashes

ASSUME RateLimiterAssumption ==
    /\ IsFiniteSet(Requests)
    /\ IdOf \in [Requests -> Identifiers]
    /\ Limit \in Nat /\ PoolSize \in Nat /\ MaxTime \in Nat
    /\ Window \in Nat \ {0}
    /\ MaxDelay \in Nat /\ MaxDelay < Window
    /\ MaxFaults \in Nat

VARIABLES
    configured, \* whether from_url accepts the URL of get_redis_url
    app,      \* the backend: "starting", "pinging" or "running"
    client,   \* whether redis_client is not None
    reachable, \* whether Redis is
    faults,   \* outages and crashes so far
    troubled, \* the requests that met an outage or an exhausted pool
    now,      \* the clock
    pc,       \* where each request is in check_rate_limit
    bucket,   \* its minute_bucket
    count,    \* results[0], the count INCR returned
    value,    \* the counter ratelimit:{identifier}:{bucket} in Redis, 0 if absent
    expires   \* when Redis drops it

backend == <<configured, app, client>>
outages == <<reachable, faults>>
limiter == <<now, pc, bucket, count, value, expires>>
vars == <<backend, outages, troubled, limiter>>

Buckets == 0..MaxTime
Decided == {"allowed", "rejected", "failedOpen", "skipped", "lost"}

(* The connections in use.                                                   *)
InUse == {r \in Requests : pc[r] \in {"sent", "counted"}}

(* Types; the pool never lends more connections than it has, and a request   *)
(* that waits for Redis has a client.                                        *)
TypeOK ==
    /\ configured \in BOOLEAN /\ client \in BOOLEAN /\ reachable \in BOOLEAN
    /\ app \in {"starting", "pinging", "running"}
    /\ faults \in 0..MaxFaults
    /\ troubled \subseteq Requests
    /\ now \in 0..MaxTime
    /\ pc \in [Requests -> {"idle", "sent", "counted"} \cup Decided]
    /\ bucket \in [Requests -> Buckets]
    /\ count \in [Requests -> Nat]
    /\ value \in [Identifiers \X Buckets -> Nat]
    /\ expires \in [Identifiers \X Buckets -> Nat]
    /\ Cardinality(InUse) <= PoolSize
    /\ InUse # {} => client /\ app = "running"

Init ==
    /\ configured \in BOOLEAN
    /\ app = "starting" /\ client = FALSE
    /\ reachable \in BOOLEAN
    /\ faults = 0
    /\ troubled = {}
    /\ now = 0
    /\ pc = [r \in Requests |-> "idle"]
    /\ bucket = [r \in Requests |-> 0]
    /\ count = [r \in Requests |-> 0]
    /\ value = [c \in Identifiers \X Buckets |-> 0]
    /\ expires = [c \in Identifiers \X Buckets |-> 0]

Counter(r) == <<IdOf[r], bucket[r]>>

----------------------------------------------------------------------------

(* The backend starts.                                                       *)

InitRedisAfterPing ==
    /\ app = "starting"
    /\ app' = "running"
    /\ client' = (configured /\ reachable)
    /\ UNCHANGED <<configured, outages, troubled, limiter>>

(* from_url makes the client, unless it raises over the URL.                 *)
InitRedis ==
    /\ app = "starting"
    /\ client' = configured
    /\ app' = IF configured THEN "pinging" ELSE "running"
    /\ UNCHANGED <<configured, outages, troubled, limiter>>

(* The ping: lifespan logs its failure and goes on.                          *)
Ping ==
    /\ app = "pinging"
    /\ app' = "running"
    /\ UNCHANGED <<configured, client, outages, troubled, limiter>>

(* The process is killed, with the requests it serves, and starts again.     *)
Crash ==
    /\ app = "running" /\ faults < MaxFaults
    /\ app' = "starting" /\ client' = FALSE
    /\ faults' = faults + 1
    /\ pc' = [r \in Requests |-> IF r \in InUse THEN "lost" ELSE pc[r]]
    /\ UNCHANGED <<configured, reachable, troubled, now, bucket, count, value, expires>>

Disappear ==
    /\ reachable /\ faults < MaxFaults
    /\ reachable' = FALSE
    /\ faults' = faults + 1
    /\ troubled' = troubled \cup InUse
    /\ UNCHANGED <<backend, limiter>>

Return ==
    /\ ~reachable
    /\ reachable' = TRUE
    /\ UNCHANGED <<backend, faults, troubled, limiter>>

----------------------------------------------------------------------------
(* A request is limited.                                                     *)

Starts(r) == app = "running" /\ pc[r] = "idle"

(* _get_cache: without a client there is no limiter.                         *)
Skip(r) ==
    /\ Starts(r) /\ ~client
    /\ pc' = [pc EXCEPT ![r] = "skipped"]
    /\ UNCHANGED <<backend, outages, troubled, now, bucket, count, value, expires>>

SendWithoutPool(r) ==
    /\ Starts(r) /\ client
    /\ bucket' = [bucket EXCEPT ![r] = now \div Window]
    /\ pc' = [pc EXCEPT ![r] = "sent"]
    /\ troubled' = IF reachable THEN troubled ELSE troubled \cup {r}
    /\ UNCHANGED <<backend, outages, now, count, value, expires>>

(* The bucket is computed, and the pipeline gets a connection.               *)
Send(r) ==
    /\ Starts(r) /\ client
    /\ Cardinality(InUse) < PoolSize
    /\ bucket' = [bucket EXCEPT ![r] = now \div Window]
    /\ pc' = [pc EXCEPT ![r] = "sent"]
    /\ troubled' = IF reachable THEN troubled ELSE troubled \cup {r}
    /\ UNCHANGED <<backend, outages, now, count, value, expires>>

(* The pool is exhausted: it raises ConnectionError, and the limiter fails   *)
(* open.                                                                     *)
PoolExhausted(r) ==
    /\ Starts(r) /\ client
    /\ Cardinality(InUse) >= PoolSize
    /\ bucket' = [bucket EXCEPT ![r] = now \div Window]
    /\ pc' = [pc EXCEPT ![r] = "failedOpen"]
    /\ troubled' = troubled \cup {r}
    /\ UNCHANGED <<backend, outages, now, count, value, expires>>

TTLOneWindow == Window
TTL == 2 * Window

(* Redis executes INCR key; EXPIRE key 2*window.                             *)
Increment(r) ==
    /\ pc[r] = "sent" /\ reachable
    /\ value' = [value EXCEPT ![Counter(r)] = value[Counter(r)] + 1]
    /\ expires' = [expires EXCEPT ![Counter(r)] = now + TTL]
    /\ count' = [count EXCEPT ![r] = value[Counter(r)] + 1]
    /\ pc' = [pc EXCEPT ![r] = "counted"]
    /\ UNCHANGED <<backend, outages, troubled, now, bucket>>

AllowedBelow(n) == n < Limit
Allowed(n) == n <= Limit

(* The reply arrives and decides the request.                                *)
Decide(r) ==
    /\ pc[r] = "counted"
    /\ pc' = [pc EXCEPT ![r] = IF Allowed(count[r]) THEN "allowed" ELSE "rejected"]
    /\ UNCHANGED <<backend, outages, troubled, now, bucket, count, value, expires>>

(* The pipeline raises, before or after Redis has acted on it.               *)
Fail(r) ==
    /\ pc[r] \in {"sent", "counted"} /\ r \in troubled
    /\ pc' = [pc EXCEPT ![r] = "failedOpen"]
    /\ UNCHANGED <<backend, outages, troubled, now, bucket, count, value, expires>>

(* Time passes; Redis executes a pipeline at most MaxDelay after the window  *)
(* it counts for has ended, and drops the counters whose time is over.       *)
Tick ==
    /\ now < MaxTime
    /\ \A r \in Requests :
         pc[r] = "sent" => now < (bucket[r] + 1) * Window + MaxDelay
    /\ now' = now + 1
    /\ value' = [c \in Identifiers \X Buckets |->
                   IF expires[c] <= now' THEN 0 ELSE value[c]]
    /\ expires' = [c \in Identifiers \X Buckets |->
                     IF expires[c] <= now' THEN 0 ELSE expires[c]]
    /\ UNCHANGED <<backend, outages, troubled, pc, bucket, count>>

Next ==
    \/ InitRedis \/ Ping \/ Crash \/ Disappear \/ Return
    \/ \E r \in Requests :
         \/ Skip(r) \/ Send(r) \/ PoolExhausted(r)
         \/ Increment(r) \/ Decide(r) \/ Fail(r)
    \/ Tick

Spec == Init /\ [][Next]_vars

----------------------------------------------------------------------------
(* Properties *)

(* The requests that Redis counted in one counter.                           *)
Counted(c) == {r \in Requests : count[r] > 0 /\ Counter(r) = c}

(* In one window no more than Limit requests of one API key are let through  *)
(* by their count.  A request that read the clock at the end of a window and *)
(* is counted in the next one still meets the old counter: that is what the  *)
(* factor 2 of the TTL is for.                                               *)
LimitPerWindow ==
    \A c \in Identifiers \X Buckets :
      Cardinality({r \in Counted(c) : pc[r] = "allowed"}) <= Limit

(* A request is rejected only after Limit others of the same key and window  *)
(* were counted: one key's traffic never uses up another's quota.            *)
NoFalseRejection ==
    \A r \in Requests :
      pc[r] = "rejected" => Cardinality(Counted(Counter(r)) \ {r}) >= Limit

(* lifespan: rate limiting is "disabled until Redis is reachable".  A        *)
(* backend that started without Redis limits as soon as it is there: with a  *)
(* usable URL, a request goes uncounted only if it meets an outage itself,   *)
(* or finds all connections in use.                                          *)
LimitedOnceReachable ==
    configured =>
      \A r \in Requests : pc[r] \in {"skipped", "failedOpen"} => r \in troubled
=============================================================================

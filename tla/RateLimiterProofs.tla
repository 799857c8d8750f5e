------------------------- MODULE RateLimiterProofs -------------------------
(* Theorems about RateLimiter for every set of requests and keys, every      *)
(* limit, window and pool size.                                              *)
EXTENDS RateLimiter, FiniteSetTheorems, TLAPS

(* A backend that has a usable URL has a client as soon as it serves.        *)
ClientOnceConfigured == configured /\ app # "starting" => client

(* The end of a window.                                                      *)
Ends(b) == (b + 1) * Window

(* Redis acts on a pipeline between the start of the window it counts for    *)
(* and MaxDelay after its end.                                               *)
SentInTime ==
    \A r \in Requests :
      pc[r] = "sent" => /\ Ends(bucket[r]) <= now + Window
                        /\ now <= Ends(bucket[r]) + MaxDelay

(* A request has a count from Redis' answer on, and it decided the request.  *)
CountDecides ==
    \A r \in Requests :
      /\ pc[r] \in {"idle", "sent", "skipped"} => count[r] = 0
      /\ pc[r] \in {"counted", "allowed", "rejected"} => count[r] > 0
      /\ pc[r] = "allowed" => count[r] <= Limit
      /\ pc[r] = "rejected" => count[r] > Limit

(* The requests of one counter have different counts, none of them above     *)
(* their number.                                                             *)
CountsNumber ==
    \A c \in Identifiers \X Buckets :
      /\ \A q, r \in Counted(c) : count[q] = count[r] => q = r
      /\ \A r \in Counted(c) : count[r] <= Cardinality(Counted(c))

(* While a pipeline may still act on a counter, it has not expired: it is    *)
(* the number of requests counted in it.                                     *)
CounterLives ==
    \A c \in Identifiers \X Buckets :
      now <= Ends(c[2]) + MaxDelay =>
        /\ value[c] = Cardinality(Counted(c))
        /\ value[c] > 0 => expires[c] >= Ends(c[2]) + Window

(* The inductive invariant of the counters.                                  *)
IInv == TypeOK /\ SentInTime /\ CountDecides /\ CountsNumber /\ CounterLives

----------------------------------------------------------------------------

(* The minute_bucket of a clock reading is the window the reading lies in.   *)
LEMMA BucketOfClock ==
    ASSUME NEW t \in Nat, NEW w \in Nat \ {0}
    PROVE  /\ t \div w \in 0..t
           /\ (t \div w) * w <= t
           /\ t < (t \div w) * w + w
<1>1. t = w * (t \div w) + (t % w) /\ t % w \in 0..(w-1) /\ t \div w \in Int
  OBVIOUS
<1> QED
  BY <1>1

(* The bucket of the present window.                                         *)
LEMMA PresentBucket ==
    ASSUME TypeOK
    PROVE  /\ now \div Window \in Buckets
           /\ (now \div Window) * Window <= now
           /\ now < (now \div Window) * Window + Window
<1>1. now \in Nat /\ now <= MaxTime /\ MaxTime \in Nat /\ Window \in Nat \ {0}
  BY RateLimiterAssumption DEF TypeOK
<1>2. /\ now \div Window \in 0..now
      /\ (now \div Window) * Window <= now
      /\ now < (now \div Window) * Window + Window
  BY <1>1, BucketOfClock
<1>3. now \div Window \in 0..MaxTime
  <2> DEFINE b == now \div Window
  <2>1. b \in 0..now
    BY <1>2
  <2> HIDE DEF b
  <2>2. b \in 0..MaxTime
    BY <1>1, <2>1
  <2> QED
    BY <2>2 DEF b
<1> QED
  BY <1>2, <1>3 DEF Buckets

(* The pool is a finite set of connections, however large.                   *)
LEMMA InUseIsFinite == IsFiniteSet(InUse) /\ Cardinality(InUse) \in Nat
BY RateLimiterAssumption, FS_Subset, FS_CardinalityType DEF InUse

(* One more request on a connection takes at most one more.                  *)
LEMMA InUseGrows ==
    ASSUME NEW r, InUse' \subseteq InUse \cup {r}
    PROVE  Cardinality(InUse') <= Cardinality(InUse) + 1
<1>1. /\ IsFiniteSet(InUse \cup {r})
      /\ Cardinality(InUse \cup {r}) <= Cardinality(InUse) + 1
      /\ Cardinality(InUse \cup {r}) \in Nat
  BY InUseIsFinite, FS_AddElement
<1>2. /\ Cardinality(InUse') <= Cardinality(InUse \cup {r})
      /\ Cardinality(InUse') \in Nat
  BY <1>1, FS_Subset, FS_CardinalityType
<1> QED
  BY <1>1, <1>2, InUseIsFinite

(* A step that takes no connection keeps the pool within its size.           *)
LEMMA InUseShrinks ==
    ASSUME Cardinality(InUse) <= PoolSize, InUse' \subseteq InUse
    PROVE  Cardinality(InUse') <= PoolSize
<1>1. /\ Cardinality(InUse') <= Cardinality(InUse)
      /\ Cardinality(InUse') \in Nat
  BY InUseIsFinite, FS_Subset, FS_CardinalityType
<1> QED
  BY <1>1, InUseIsFinite, RateLimiterAssumption

(* The typing part of the induction.                                         *)
LEMMA TypeStep == TypeOK /\ [Next]_vars => TypeOK'
<1> SUFFICES ASSUME TypeOK, [Next]_vars PROVE TypeOK'
  OBVIOUS
<1> USE RateLimiterAssumption DEF TypeOK, Decided, Buckets
<1>1. CASE InitRedis
  BY <1>1 DEF InitRedis, outages, limiter, InUse
<1>2. CASE Ping
  BY <1>2 DEF Ping, outages, limiter, InUse
<1>3. CASE Crash
  <2>1. InUse' = {}
    BY <1>3 DEF Crash, InUse
  <2>2. Cardinality(InUse') <= PoolSize
    BY <2>1, InUseShrinks
  <2>3. client' \in BOOLEAN
    BY <1>3 DEF Crash
  <2> QED
    BY <1>3, <2>1, <2>2, <2>3 DEF Crash
<1>4. CASE Disappear
  <2>1. InUse' = InUse /\ InUse \subseteq Requests
    BY <1>4 DEF Disappear, limiter, InUse
  <2>2. reachable' \in BOOLEAN
    BY <1>4 DEF Disappear
  <2> QED
    BY <1>4, <2>1, <2>2 DEF Disappear, backend, limiter
<1>5. CASE Return
  <2>1. InUse' = InUse
    BY <1>5 DEF Return, limiter, InUse
  <2> QED
    BY <1>5, <2>1 DEF Return, backend, limiter
<1>6. ASSUME NEW r \in Requests, Skip(r) PROVE TypeOK'
  <2>1. InUse' \subseteq InUse
    BY <1>6 DEF Skip, InUse
  <2> QED
    BY <1>6, <2>1, InUseShrinks DEF Skip, Starts, backend, outages
<1>7. ASSUME NEW r \in Requests, Send(r) PROVE TypeOK'
  <2>1. InUse' \subseteq InUse \cup {r}
    BY <1>7 DEF Send, InUse
  <2>2. Cardinality(InUse') \in Nat
    BY <2>1, InUseIsFinite, FS_AddElement, FS_Subset, FS_CardinalityType
  <2>3. Cardinality(InUse') <= Cardinality(InUse) + 1
    BY <2>1, InUseGrows
  <2>4. Cardinality(InUse) < PoolSize
    BY <1>7 DEF Send
  <2>5. Cardinality(InUse') <= PoolSize
    BY <2>2, <2>3, <2>4, InUseIsFinite
  <2>6. now \div Window \in Buckets
    BY PresentBucket
  <2> QED
    BY <1>7, <2>5, <2>6 DEF Send, Starts, backend, outages
<1>8. ASSUME NEW r \in Requests, PoolExhausted(r) PROVE TypeOK'
  <2>1. InUse' \subseteq InUse
    BY <1>8 DEF PoolExhausted, InUse
  <2>2. now \div Window \in Buckets
    BY PresentBucket
  <2> QED
    BY <1>8, <2>1, <2>2, InUseShrinks DEF PoolExhausted, Starts, backend, outages
<1>9. ASSUME NEW r \in Requests, Increment(r) PROVE TypeOK'
  <2>1. InUse' = InUse /\ r \in InUse
    BY <1>9 DEF Increment, InUse
  <2>2. Counter(r) \in Identifiers \X Buckets /\ TTL \in Nat
    BY DEF Counter, TTL
  <2> QED
    BY <1>9, <2>1, <2>2 DEF Increment, backend, outages
<1>10. ASSUME NEW r \in Requests, Decide(r) \/ Fail(r) PROVE TypeOK'
  <2>1. InUse' \subseteq InUse /\ r \in InUse
    BY <1>10 DEF Decide, Fail, InUse
  <2> QED
    BY <1>10, <2>1, InUseShrinks DEF Decide, Fail, backend, outages
<1>11. CASE Tick
  <2>1. InUse' = InUse
    BY <1>11 DEF Tick, InUse
  <2> QED
    BY <1>11, <2>1 DEF Tick, backend, outages
<1>12. CASE UNCHANGED vars
  BY <1>12 DEF vars, backend, outages, limiter, InUse
<1> QED
  BY <1>1, <1>2, <1>3, <1>4, <1>5, <1>6, <1>7, <1>8, <1>9, <1>10, <1>11, <1>12
     DEF Next

(* The initial states are well typed.                                        *)
LEMMA InitTyped == Init => TypeOK
<1> SUFFICES ASSUME Init PROVE TypeOK
  OBVIOUS
<1>1. InUse = {}
  BY DEF Init, InUse
<1>2. Cardinality(InUse) <= PoolSize
  BY <1>1, FS_EmptySet, RateLimiterAssumption
<1>3. client \in BOOLEAN
  BY DEF Init
<1> QED
  BY <1>1, <1>2, <1>3, RateLimiterAssumption DEF Init, TypeOK, Buckets

(* Every reachable state is well typed: in particular no request is on a     *)
(* connection the pool does not have, and none is without a client.          *)
THEOREM TypeCorrect == Spec => []TypeOK
BY InitTyped, TypeStep, PTL DEF Spec

----------------------------------------------------------------------------

(* The induction for the client.                                             *)
LEMMA ClientStep ==
    TypeOK /\ ClientOnceConfigured /\ LimitedOnceReachable /\ [Next]_vars
      => ClientOnceConfigured' /\ LimitedOnceReachable'
<1> SUFFICES ASSUME TypeOK, ClientOnceConfigured, LimitedOnceReachable, [Next]_vars
             PROVE  ClientOnceConfigured' /\ LimitedOnceReachable'
  OBVIOUS
<1> USE DEF ClientOnceConfigured, LimitedOnceReachable
<1>1. CASE InitRedis \/ Ping
  BY <1>1 DEF InitRedis, Ping, outages, limiter
<1>2. CASE Crash
  BY <1>2 DEF Crash, TypeOK
<1>3. CASE Disappear \/ Return
  BY <1>3 DEF Disappear, Return, backend, limiter
<1>4. ASSUME NEW r \in Requests,
             Skip(r) \/ Send(r) \/ PoolExhausted(r) \/ Increment(r) \/ Decide(r) \/ Fail(r)
      PROVE  ClientOnceConfigured' /\ LimitedOnceReachable'
  BY <1>4 DEF Skip, Send, PoolExhausted, Increment, Decide, Fail, Starts, backend,
              outages, TypeOK
<1>5. CASE Tick
  BY <1>5 DEF Tick, backend, outages
<1>6. CASE UNCHANGED vars
  BY <1>6 DEF vars, backend, outages, limiter
<1> QED
  BY <1>1, <1>2, <1>3, <1>4, <1>5, <1>6 DEF Next

(* A backend with a usable URL lets a request go uncounted only if that      *)
(* request met an outage itself or found every connection in use.            *)
THEOREM UncountedOnlyInTrouble == Spec => []LimitedOnceReachable
<1>1. Init => TypeOK /\ ClientOnceConfigured /\ LimitedOnceReachable
  BY InitTyped DEF Init, ClientOnceConfigured, LimitedOnceReachable
<1> QED
  BY <1>1, TypeStep, ClientStep, PTL DEF Spec

----------------------------------------------------------------------------
(* The counters.                                                             *)

(* What the arithmetic of the windows comes to.                              *)
LEMMA EndsType == \A b \in Buckets : Ends(b) \in Nat /\ Ends(b) = b * Window + Window
BY RateLimiterAssumption DEF Ends, Buckets

(* Counted is a finite set.                                                  *)
LEMMA CountedIsFinite ==
    \A c : IsFiniteSet(Counted(c)) /\ Cardinality(Counted(c)) \in Nat
BY RateLimiterAssumption, FS_Subset, FS_CardinalityType DEF Counted

(* The steps that count nothing.                                             *)
LEMMA CountedStays ==
    ASSUME TypeOK, count' = count,
           \A r \in Requests : count[r] > 0 => bucket'[r] = bucket[r]
    PROVE  /\ \A c : Counted(c)' = Counted(c)
           /\ CountsNumber => CountsNumber'
<1>1. ASSUME NEW c PROVE Counted(c)' = Counted(c)
  BY DEF Counted, Counter
<1> QED
  BY <1>1 DEF CountsNumber

(* Redis counts one request more: its count is the number of requests        *)
(* counted in that counter, itself included.                                 *)
LEMMA IncrementCounts ==
    ASSUME IInv, NEW r \in Requests, Increment(r)
    PROVE  /\ Counter(r) \in Identifiers \X Buckets
           /\ value[Counter(r)] = Cardinality(Counted(Counter(r)))
           /\ r \notin Counted(Counter(r))
           /\ count'[r] = Cardinality(Counted(Counter(r))) + 1
           /\ \A c : c = Counter(r) =>
                /\ Counted(c)' = Counted(c) \cup {r}
                /\ Cardinality(Counted(c)') = Cardinality(Counted(c)) + 1
           /\ \A c : c # Counter(r) => Counted(c)' = Counted(c)
<1> DEFINE k == Counter(r)
<1>1. k \in Identifiers \X Buckets /\ k[2] = bucket[r]
  BY RateLimiterAssumption DEF IInv, TypeOK, Counter
<1>2. value[k] = Cardinality(Counted(k))
  BY <1>1 DEF IInv, CounterLives, SentInTime, Increment
<1>3. r \notin Counted(k)
  BY DEF IInv, CountDecides, Counted, Increment
<1>4. Counter(r)' = k /\ \A q \in Requests : Counter(q)' = Counter(q)
  BY DEF Increment, Counter
<1>5. /\ count'[r] = value[k] + 1
      /\ count'[r] > 0
      /\ \A q \in Requests \ {r} : count'[q] = count[q]
  BY <1>1, <1>2, CountedIsFinite DEF IInv, TypeOK, Increment
<1>6. {q \in Requests : count'[q] > 0 /\ Counter(q)' = k} = Counted(k) \cup {r}
  BY <1>4, <1>5 DEF Counted
<1>7. Cardinality(Counted(k) \cup {r}) = Cardinality(Counted(k)) + 1
  BY <1>3, CountedIsFinite, FS_AddElement
<1>8. ASSUME NEW c, c # k PROVE Counted(c)' = Counted(c)
  BY <1>4, <1>5, <1>8 DEF Counted
<1> QED
  BY <1>1, <1>2, <1>3, <1>4, <1>5, <1>6, <1>7, <1>8 DEF Counted

(* The induction for the requests.                                           *)
LEMMA RequestStep == IInv /\ [Next]_vars => SentInTime' /\ CountDecides'
<1> SUFFICES ASSUME IInv, [Next]_vars PROVE SentInTime' /\ CountDecides'
  OBVIOUS
<1> USE DEF IInv, SentInTime, CountDecides
<1>1. CASE InitRedis \/ Ping \/ Disappear \/ Return \/ UNCHANGED vars
  BY <1>1 DEF InitRedis, Ping, Disappear, Return, vars, limiter
<1>2. CASE Crash
  BY <1>2 DEF Crash, TypeOK
<1>3. ASSUME NEW r \in Requests, Skip(r) \/ Decide(r) \/ Fail(r)
      PROVE  SentInTime' /\ CountDecides'
  <2>1. /\ SentInTime'
        /\ \A q \in Requests \ {r} : pc'[q] = pc[q]
        /\ count' = count /\ count[r] \in Nat /\ Limit \in Nat
    BY <1>3, RateLimiterAssumption DEF Skip, Decide, Fail, TypeOK
  <2>2. /\ pc'[r] \in {"idle", "sent", "skipped"} => count'[r] = 0
        /\ pc'[r] \in {"counted", "allowed", "rejected"} => count'[r] > 0
    BY <1>3, <2>1 DEF Skip, Starts, Decide, Fail, TypeOK
  <2>3. /\ pc'[r] = "allowed" => count'[r] <= Limit
        /\ pc'[r] = "rejected" => count'[r] > Limit
    BY <1>3, <2>1 DEF Skip, Decide, Fail, Allowed, TypeOK
  <2> QED
    BY <2>1, <2>2, <2>3
<1>4. ASSUME NEW r \in Requests, Send(r) \/ PoolExhausted(r)
      PROVE  SentInTime' /\ CountDecides'
  <2> DEFINE b == now \div Window
  <2>1. /\ b \in Buckets
        /\ Ends(b) <= now + Window /\ now <= Ends(b) + MaxDelay
    <3>1. b \in Buckets /\ b * Window <= now /\ now < b * Window + Window
      BY PresentBucket
    <3>2. Ends(b) = b * Window + Window /\ Ends(b) \in Nat
      BY <3>1, EndsType
    <3>3. now \in Nat /\ b * Window \in Int
      BY <3>1, RateLimiterAssumption DEF TypeOK, Buckets
    <3> HIDE DEF b
    <3> QED
      BY <3>1, <3>2, <3>3, RateLimiterAssumption
  <2>2. /\ bucket'[r] = b
        /\ \A q \in Requests \ {r} : bucket'[q] = bucket[q] /\ pc'[q] = pc[q]
        /\ now' = now /\ count' = count /\ count[r] = 0
        /\ pc'[r] \in {"sent", "failedOpen"}
    BY <1>4 DEF Send, PoolExhausted, Starts, TypeOK
  <2> HIDE DEF b
  <2> QED
    BY <2>1, <2>2
<1>5. ASSUME NEW r \in Requests, Increment(r)
      PROVE  SentInTime' /\ CountDecides'
  <2>1. count'[r] > 0
    BY <1>5, IncrementCounts, CountedIsFinite
  <2> QED
    BY <1>5, <2>1 DEF Increment, TypeOK
<1>6. CASE Tick
  <2>1. CountDecides'
    BY <1>6 DEF Tick
  <2>2. ASSUME NEW r \in Requests, pc[r] = "sent"
        PROVE  Ends(bucket[r]) <= now + 1 + Window /\ now + 1 <= Ends(bucket[r]) + MaxDelay
    <3>1. now < Ends(bucket[r]) + MaxDelay
      BY <1>6, <2>2 DEF Tick, Ends
    <3>2. Ends(bucket[r]) \in Nat /\ now \in Nat /\ Ends(bucket[r]) <= now + Window
      BY <2>2, EndsType, RateLimiterAssumption DEF TypeOK
    <3> QED
      BY <3>1, <3>2, RateLimiterAssumption
  <2> QED
    BY <1>6, <2>1, <2>2 DEF Tick
<1> QED
  BY <1>1, <1>2, <1>3, <1>4, <1>5, <1>6 DEF Next

(* The steps that count nothing and leave the clock and Redis alone.         *)
LEMMA CountersStay ==
    ASSUME IInv, UNCHANGED <<now, count, value, expires>>,
           \A r \in Requests : count[r] > 0 => bucket'[r] = bucket[r]
    PROVE  CountsNumber' /\ CounterLives'
<1>1. CountsNumber' /\ \A c : Counted(c)' = Counted(c)
  BY CountedStays DEF IInv
<1> QED
  BY <1>1 DEF IInv, CounterLives

(* The induction for the counters.                                           *)
LEMMA CounterStep == IInv /\ [Next]_vars => CountsNumber' /\ CounterLives'
<1> SUFFICES ASSUME IInv, [Next]_vars PROVE CountsNumber' /\ CounterLives'
  OBVIOUS
<1>1. CASE InitRedis \/ Ping \/ Crash \/ Disappear \/ Return \/ UNCHANGED vars
  BY <1>1, CountersStay
     DEF InitRedis, Ping, Crash, Disappear, Return, vars, limiter
<1>2. ASSUME NEW r \in Requests,
             Skip(r) \/ Send(r) \/ PoolExhausted(r) \/ Decide(r) \/ Fail(r)
      PROVE  CountsNumber' /\ CounterLives'
  BY <1>2, CountersStay
     DEF Skip, Send, PoolExhausted, Decide, Fail, Starts, IInv, TypeOK, CountDecides
<1>3. ASSUME NEW r \in Requests, Increment(r)
      PROVE  CountsNumber' /\ CounterLives'
  <2> DEFINE k == Counter(r)
             n == Cardinality(Counted(k))
  <2>1. /\ k \in Identifiers \X Buckets
        /\ value[k] = n /\ n \in Nat
        /\ r \notin Counted(k)
        /\ \A c : c = k => /\ Counted(c)' = Counted(c) \cup {r}
                           /\ Cardinality(Counted(c)') = n + 1
        /\ count'[r] = n + 1
        /\ \A c : c # k => Counted(c)' = Counted(c)
    BY <1>3, IncrementCounts, CountedIsFinite
  <2>2. \A q \in Requests \ {r} : count'[q] = count[q]
    BY <1>3 DEF Increment, IInv, TypeOK
  <2>3. ASSUME NEW c \in Identifiers \X Buckets
        PROVE  /\ \A p, q \in Counted(c)' : count'[p] = count'[q] => p = q
               /\ \A q \in Counted(c)' : count'[q] <= Cardinality(Counted(c)')
    <3>1. CASE c # k
      <4>1. Counted(c)' = Counted(c) /\ r \notin Counted(c)
        BY <2>1, <3>1 DEF Counted
      <4> QED
        BY <2>2, <4>1 DEF IInv, CountsNumber, Counted
    <3>2. CASE c = k
      <4>1. \A q \in Counted(k) : count'[q] = count[q] /\ count[q] \in Nat /\ count[q] <= n
        BY <2>1, <2>2 DEF IInv, CountsNumber, Counted, TypeOK
      <4>2. \A p, q \in Counted(k) : count[p] = count[q] => p = q
        BY <2>1 DEF IInv, CountsNumber
      <4>3. Counted(c)' = Counted(k) \cup {r} /\ Cardinality(Counted(c)') = n + 1
        BY <2>1, <3>2
      <4> HIDE DEF k, n
      <4> QED
        BY <2>1, <4>1, <4>2, <4>3
    <3> QED
      BY <3>1, <3>2
  <2>4. ASSUME NEW c \in Identifiers \X Buckets, now <= Ends(c[2]) + MaxDelay
        PROVE  /\ value'[c] = Cardinality(Counted(c)')
               /\ value'[c] > 0 => expires'[c] >= Ends(c[2]) + Window
    <3>1. CASE c # k
      BY <1>3, <2>1, <2>4, <3>1 DEF IInv, TypeOK, CounterLives, Increment
    <3>2. CASE c = k
      <4>1. value'[k] = n + 1 /\ expires'[k] = now + 2 * Window /\ k[2] = bucket[r]
        BY <1>3, <2>1 DEF IInv, TypeOK, Increment, TTL, Counter
      <4>2. Ends(bucket[r]) <= now + Window /\ Ends(bucket[r]) \in Nat /\ now \in Nat
        BY <1>3, EndsType, RateLimiterAssumption DEF IInv, SentInTime, TypeOK, Increment
      <4>3. Cardinality(Counted(c)') = n + 1
        BY <2>1, <3>2
      <4> HIDE DEF k, n
      <4> QED
        BY <3>2, <4>1, <4>2, <4>3, RateLimiterAssumption
    <3> QED
      BY <3>1, <3>2
  <2> QED
    BY <1>3, <2>3, <2>4 DEF CountsNumber, CounterLives, Increment
<1>4. CASE Tick
  <2>1. CountsNumber' /\ \A c : Counted(c)' = Counted(c)
    BY <1>4, CountedStays DEF Tick, IInv
  <2>2. ASSUME NEW c \in Identifiers \X Buckets, now + 1 <= Ends(c[2]) + MaxDelay
        PROVE  value'[c] = value[c] /\ (value[c] > 0 => expires'[c] = expires[c])
    <3>1. /\ now' = now + 1
          /\ value'[c] = (IF expires[c] <= now + 1 THEN 0 ELSE value[c])
          /\ expires'[c] = (IF expires[c] <= now + 1 THEN 0 ELSE expires[c])
      BY <1>4 DEF Tick
    <3>2. /\ Ends(c[2]) \in Nat /\ now \in Nat
          /\ value[c] \in Nat /\ expires[c] \in Nat
      BY EndsType, RateLimiterAssumption DEF IInv, TypeOK
    <3>3. value[c] > 0 => expires[c] >= Ends(c[2]) + Window
      BY <2>2, <3>2, RateLimiterAssumption DEF IInv, CounterLives
    <3> QED
      BY <2>2, <3>1, <3>2, <3>3, RateLimiterAssumption
  <2>3. now' = now + 1 /\ now \in Nat
    BY <1>4, RateLimiterAssumption DEF Tick, IInv, TypeOK
  <2>4. ASSUME NEW c \in Identifiers \X Buckets, now + 1 <= Ends(c[2]) + MaxDelay
        PROVE  now <= Ends(c[2]) + MaxDelay
    BY <2>3, <2>4, EndsType, RateLimiterAssumption
  <2> QED
    BY <2>1, <2>2, <2>3, <2>4 DEF IInv, CounterLives
<1> QED
  BY <1>1, <1>2, <1>3, <1>4 DEF Next

(* The inductive invariant holds in every reachable state.                   *)
LEMMA Invariance == Spec => []IInv
<1>1. Init => IInv
  <2> SUFFICES ASSUME Init PROVE IInv
    OBVIOUS
  <2>1. \A c : Counted(c) = {}
    BY DEF Init, Counted
  <2>2. \A c : Cardinality(Counted(c)) = 0
    BY <2>1, FS_EmptySet
  <2> QED
    BY <2>1, <2>2, InitTyped
       DEF Init, IInv, SentInTime, CountDecides, CountsNumber, CounterLives
<1>2. IInv /\ [Next]_vars => IInv'
  BY TypeStep, RequestStep, CounterStep DEF IInv
<1> QED
  BY <1>1, <1>2, PTL DEF Spec

(* At most Limit requests of one key are let through in one window: their    *)
(* counts are different numbers from 1 to Limit.                             *)
THEOREM LimitHolds == Spec => []LimitPerWindow
<1>1. IInv => LimitPerWindow
  <2> SUFFICES ASSUME IInv, NEW c \in Identifiers \X Buckets
               PROVE  Cardinality({r \in Counted(c) : pc[r] = "allowed"}) <= Limit
    BY DEF LimitPerWindow
  <2> DEFINE S == {r \in Counted(c) : pc[r] = "allowed"}
             f == [r \in S |-> count[r]]
  <2>1. \A r \in S : count[r] \in 1..Limit
    BY RateLimiterAssumption DEF IInv, CountDecides, Counted, TypeOK
  <2>2. \A q, r \in S : count[q] = count[r] => q = r
    BY DEF IInv, CountsNumber
  <2>3. f \in Injection(S, 1..Limit)
    BY <2>1, <2>2 DEF Injection, IsInjective
  <2>4. IsFiniteSet(1..Limit) /\ Cardinality(1..Limit) = Limit
    BY FS_Interval, RateLimiterAssumption
  <2> HIDE DEF S, f
  <2>5. Cardinality(S) <= Limit
    BY <2>3, <2>4, FS_Injection
  <2> QED
    BY <2>5 DEF S
<1> QED
  BY <1>1, Invariance, PTL

(* A request is rejected only after Limit others of the same key and window. *)
THEOREM RejectionsAreDue == Spec => []NoFalseRejection
<1>1. IInv => NoFalseRejection
  <2> SUFFICES ASSUME IInv, NEW r \in Requests, pc[r] = "rejected"
               PROVE  Cardinality(Counted(Counter(r)) \ {r}) >= Limit
    BY DEF NoFalseRejection
  <2>1. count[r] > Limit /\ count[r] \in Nat /\ Limit \in Nat
    BY RateLimiterAssumption DEF IInv, CountDecides, TypeOK
  <2>2. Counter(r) \in Identifiers \X Buckets
    BY RateLimiterAssumption DEF IInv, TypeOK, Counter
  <2>3. r \in Counted(Counter(r))
    BY <2>1 DEF Counted
  <2>4. count[r] <= Cardinality(Counted(Counter(r)))
    BY <2>2, <2>3 DEF IInv, CountsNumber
  <2>5. Cardinality(Counted(Counter(r)) \ {r}) = Cardinality(Counted(Counter(r))) - 1
    BY <2>3, CountedIsFinite, FS_RemoveElement
  <2> QED
    BY <2>1, <2>4, <2>5, CountedIsFinite
<1> QED
  BY <1>1, Invariance, PTL

=============================================================================

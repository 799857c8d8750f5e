-------------------------- MODULE IngestionProofs --------------------------
(* Theorems about Ingestion for every set of requests, keys, projects, names *)
(* and paths.                                                                *)
EXTENDS Ingestion, SequenceTheorems, TLAPS

Writers == Batches \cup Creators

(* The row of Name(a) in Project(a) that has the id i.                       *)
ServiceOfId(i, a) == [id |-> i, project |-> Project(a), name |-> Name(a)]

(* A batch resolves its endpoints one after the other, and all of them       *)
(* before it commits.                                                        *)
EndpointsInTurn ==
    \A b \in Batches :
      /\ pc[b] \in {"idle", "resolve", "create"} =>
           pos[b] = 0 /\ \A p \in Paths : eps[b][p] = None
      /\ pos[b] <= Len(PathsOf[b])
      /\ pc[b] = "commit" => pos[b] = Len(PathsOf[b])

(* A committed row was made by a request that was answered so.               *)
RowsAreCommitted ==
    /\ \A s \in services : s.id \in Actors => pc[s.id] \in {"201", "202"}
    /\ \A e \in endpoints : pc[e.id] = "202"

(* Only the request for a name locks it, from its INSERT on.                 *)
NamesAreOwned ==
    \A n \in Projects \X Names : nameLock[n] # None =>
      /\ nameLock[n] \in Writers
      /\ n = <<Project(nameLock[n]), Name(nameLock[n])>>
      /\ pc[nameLock[n]] \in {"create", "endpoints", "commit"}

(* A request has its own pending service row, the lock of its name and       *)
(* nobody's committed row of that name, or it has a committed row of it.     *)
ServiceResolved(a) ==
    /\ pc[a] \in {"idle", "resolve"} => svc[a] = None
    /\ pc[a] = "create" /\ HoldsName(a) => svc[a] = a
    /\ pc[a] \in {"create", "endpoints", "commit"} /\ svc[a] = a
         => HoldsName(a) /\ Match(a) = {}
    /\ pc[a] \in {"endpoints", "commit"} =>
         svc[a] = a \/ ServiceOfId(svc[a], a) \in services

ServiceIsResolved == \A a \in Writers : ServiceResolved(a)

(* The same for the endpoints a batch has resolved.                          *)
EndpointsResolved(b) ==
    pc[b] \in {"endpoints", "commit"} =>
      /\ \A p \in Paths : eps[b][p] = b =>
           pathLock[<<svc[b], p>>] = b /\ EndpointsAt(svc[b], p) = {}
      /\ \A i \in 1..pos[b] :
           \/ eps[b][PathsOf[b][i]] = b
           \/ [id |-> eps[b][PathsOf[b][i]], service |-> svc[b], path |-> PathsOf[b][i]]
                \in endpoints

EndpointsAreResolved == \A b \in Batches : EndpointsResolved(b)

(* An inactive key shows who revoked it.                                     *)
RevocationIsStamped == \A k \in Keys : ~active[k] => revokedBy[k] # None

(* The inductive invariant.                                                  *)
IInv ==
    /\ TypeOK /\ EndpointsInTurn /\ RowsAreCommitted /\ NamesAreOwned
    /\ ServiceIsResolved /\ EndpointsAreResolved /\ RevocationIsStamped
    /\ NoDuplicateRows /\ EventsAreScoped /\ AcceptedIffStored

----------------------------------------------------------------------------
(* What a request is about.                                                  *)
LEMMA Subject ==
    /\ \A a \in Writers : Project(a) \in Projects /\ Name(a) \in Names
    /\ \A a \in Writers : <<Project(a), Name(a)>> \in Projects \X Names
    /\ \A b \in Batches : KeyOf[b] \in Keys /\ PathsOf[b] \in Seq(Paths)
    /\ \A b \in Batches : \A i \in 1..Len(PathsOf[b]) : PathsOf[b][i] \in Paths
    /\ None \notin Actors /\ Actors \subseteq Ids
<1>1. \A b \in Batches : KeyOf[b] \in Keys /\ PathsOf[b] \in Seq(Paths)
  BY IngestionAssumption
<1>2. \A b \in Batches : \A i \in 1..Len(PathsOf[b]) : PathsOf[b][i] \in Paths
  BY <1>1, ElementOfSeq
<1>3. \A a \in Writers : Project(a) \in Projects /\ Name(a) \in Names
  <2>1. ASSUME NEW c \in Creators PROVE Project(c) \in Projects /\ Name(c) \in Names
    BY <2>1, IngestionAssumption DEF Project, Name
  <2>2. ASSUME NEW b \in Batches PROVE Project(b) \in Projects /\ Name(b) \in Names
    BY <2>2, IngestionAssumption DEF Project, Name
  <2> QED
    BY <2>1, <2>2 DEF Writers
<1> QED
  BY <1>1, <1>2, <1>3, IngestionAssumption DEF Ids

(* The locks of a transaction that ends are released, and the others stay.   *)
LEMMA Releasing ==
    ASSUME TypeOK, NEW a \in Actors, NEW l \in Answers, Goto(a, l), ReleaseLocks(a)
    PROVE  /\ pc' \in [Actors -> {"idle"} \cup Open \cup Answers]
           /\ pc'[a] = l /\ \A x \in Actors \ {a} : pc'[x] = pc[x]
           /\ keyLock' \in [Keys -> {None} \cup {x \in Actors : pc'[x] \in Open}]
           /\ nameLock' \in
                [Projects \X Names -> {None} \cup {x \in Actors : pc'[x] \in Open}]
           /\ pathLock' \in [Ids \X Paths -> {None} \cup {x \in Actors : pc'[x] \in Open}]
           /\ \A n \in Projects \X Names :
                nameLock'[n] = IF nameLock[n] = a THEN None ELSE nameLock[n]
           /\ \A e \in Ids \X Paths :
                pathLock'[e] = IF pathLock[e] = a THEN None ELSE pathLock[e]
BY DEF TypeOK, Goto, ReleaseLocks, Released

(* A step within a transaction keeps everybody's locks.                      *)
LEMMA Keeping ==
    ASSUME TypeOK, NEW a \in Actors, NEW l \in {"idle"} \cup Open \cup Answers, Goto(a, l),
           pc[a] \in Open => l \in Open
    PROVE  /\ pc' \in [Actors -> {"idle"} \cup Open \cup Answers]
           /\ pc'[a] = l /\ \A x \in Actors \ {a} : pc'[x] = pc[x]
           /\ {x \in Actors : pc[x] \in Open} \subseteq {x \in Actors : pc'[x] \in Open}
           /\ keyLock \in [Keys -> {None} \cup {x \in Actors : pc'[x] \in Open}]
           /\ nameLock \in
                [Projects \X Names -> {None} \cup {x \in Actors : pc'[x] \in Open}]
           /\ pathLock \in [Ids \X Paths -> {None} \cup {x \in Actors : pc'[x] \in Open}]
BY DEF TypeOK, Goto

(* What a batch has resolved when it inserts its events.                     *)
LEMMA Resolved ==
    ASSUME IInv, NEW b \in Batches, pc[b] \in {"endpoints", "commit"}
    PROVE  /\ svc[b] \in Ids
           /\ svc[b] = b \/ ServiceOfId(svc[b], b) \in services
           /\ pos[b] = Len(PathsOf[b]) => \A j \in 1..Len(PathsOf[b]) :
                /\ eps[b][PathsOf[b][j]] \in Actors
                /\ \/ eps[b][PathsOf[b][j]] = b
                   \/ [id |-> eps[b][PathsOf[b][j]], service |-> svc[b],
                       path |-> PathsOf[b][j]] \in endpoints
<1>1. svc[b] = b \/ ServiceOfId(svc[b], b) \in services
  BY DEF IInv, ServiceIsResolved, ServiceResolved, Writers
<1>2. svc[b] \in Ids
  <2>1. ServiceOfId(svc[b], b).id = svc[b]
    BY DEF ServiceOfId
  <2> QED
    BY <1>1, <2>1, Subject DEF IInv, TypeOK, ServiceRow, Actors
<1>3. ASSUME NEW j \in 1..pos[b]
      PROVE  \/ eps[b][PathsOf[b][j]] = b
             \/ [id |-> eps[b][PathsOf[b][j]], service |-> svc[b],
                 path |-> PathsOf[b][j]] \in endpoints
  BY DEF IInv, EndpointsAreResolved, EndpointsResolved
<1>4. ASSUME NEW j \in 1..pos[b] PROVE eps[b][PathsOf[b][j]] \in Actors
  BY <1>3, Subject DEF IInv, TypeOK, EndpointRow, Actors
<1> QED
  BY <1>1, <1>2, <1>3, <1>4

(* The next endpoint of a batch.                                             *)
LEMMA NextIsTyped ==
    ASSUME IInv, NEW b \in Batches, pc[b] = "endpoints", pos[b] < Len(PathsOf[b]),
           pos' = [pos EXCEPT ![b] = @ + 1]
    PROVE  /\ pos' \in [Actors -> Nat]
           /\ pos[b] + 1 \in 1..Len(PathsOf[b]) /\ pos'[b] = pos[b] + 1
           /\ NextPath(b) \in Paths /\ svc[b] \in Ids
<1>1. /\ pos \in [Actors -> Nat] /\ b \in Actors
      /\ Len(PathsOf[b]) \in Nat
  BY Subject, LenProperties DEF IInv, TypeOK, Actors
<1>2. pos[b] + 1 \in 1..Len(PathsOf[b])
  BY <1>1
<1> QED
  BY <1>1, <1>2, Subject, Resolved DEF NextPath

(* The typing part of the induction.                                         *)
LEMMA TypeStep == IInv /\ [Next]_vars => TypeOK'
<1> SUFFICES ASSUME IInv, [Next]_vars PROVE TypeOK'
  OBVIOUS
<1>0. TypeOK
  BY DEF IInv
<1> USE IngestionAssumption, Subject DEF Actors, Writers
<1>1. ASSUME NEW a \in Actors, Throttle(a) \/ ValidateKey(a) \/ CheckName(a) \/ ReadKey(a)
      PROVE  TypeOK'
  <2>1. PICK l \in {"429", "resolve", "401", "create", "409", "revoke"} : Goto(a, l)
    BY <1>1 DEF Throttle, ValidateKey, CheckName, ReadKey
  <2>2. pc[a] = "idle" /\ UNCHANGED <<rows, locals, locks>>
    BY <1>1 DEF Throttle, ValidateKey, CheckName, ReadKey
  <2> QED
    BY <1>0, <2>1, <2>2, Keeping DEF TypeOK, rows, locals, locks, Open, Answers
<1>2. ASSUME NEW b \in Batches, ResolveService(b) PROVE TypeOK'
  <2>1. PICK l \in {"create", "endpoints"} : Goto(b, l)
    BY <1>2 DEF ResolveService
  <2>2. svc' \in [Actors -> Ids \cup {None}] /\ seen' \in [Actors -> Health]
    <3>1. CASE UNCHANGED <<svc, seen>>
      BY <1>0, <3>1 DEF TypeOK
    <3>2. ASSUME NEW s \in Match(b),
                 svc' = [svc EXCEPT ![b] = s.id],
                 seen' = [seen EXCEPT ![b] = health[s.id]]
          PROVE  svc' \in [Actors -> Ids \cup {None}] /\ seen' \in [Actors -> Health]
      <4>1. s.id \in Ids
        BY <1>0 DEF Match, TypeOK, ServiceRow
      <4> QED
        BY <1>0, <3>2, <4>1 DEF TypeOK
    <3> QED
      BY <1>2, <3>1, <3>2 DEF ResolveService
  <2> QED
    BY <1>0, <1>2, <2>1, <2>2, Keeping DEF ResolveService, TypeOK, rows, locks, Open
<1>3. ASSUME NEW b \in Batches, FlushKey(b) PROVE TypeOK'
  <2>1. PICK l \in Open : Goto(b, l)
    BY <1>3 DEF FlushKey, Open
  <2> QED
    BY <1>0, <1>3, <2>1, Keeping DEF FlushKey, TypeOK, rows, locals, Open
<1>4. ASSUME NEW a \in Writers, InsertService(a) PROVE TypeOK'
  <2>1. PICK l \in Open : Goto(a, l)
    BY <1>4 DEF InsertService, AfterInsert, Open
  <2> QED
    BY <1>0, <1>4, <2>1, Keeping DEF InsertService, TypeOK, rows, Open
<1>5. ASSUME NEW a \in Actors, UniqueViolation(a) \/ RollBack(a) PROVE TypeOK'
  <2>1. "500" \in Answers /\ Goto(a, "500") /\ ReleaseLocks(a)
        /\ UNCHANGED <<rows, locals>>
    BY <1>5 DEF UniqueViolation, RollBack, Answers
  <2> QED
    BY <1>0, <2>1, Releasing DEF TypeOK, rows, locals
<1>6. ASSUME NEW b \in Batches, InsertEndpoint(b) \/ FindEndpoint(b) PROVE TypeOK'
  <2>1. pos' \in [Actors -> Nat] /\ NextPath(b) \in Paths /\ svc[b] \in Ids
    BY <1>6, NextIsTyped DEF InsertEndpoint, FindEndpoint
  <2>2. eps' \in [Actors -> [Paths -> Actors \cup {None}]]
    <3>1. PICK i \in Actors : eps' = [eps EXCEPT ![b][NextPath(b)] = i]
      <4>1. \A e \in endpoints : e.id \in Actors
        BY <1>0 DEF TypeOK, EndpointRow
      <4> QED
        BY <1>6, <4>1 DEF InsertEndpoint, FindEndpoint, EndpointsAt
    <3> QED
      BY <1>0, <2>1, <3>1 DEF TypeOK
  <2>3. pathLock' \in [Ids \X Paths -> {None} \cup {x \in Actors : pc[x] \in Open}]
    <3>1. /\ pc[b] \in Open /\ b \in Actors
          /\ pathLock \in [Ids \X Paths -> {None} \cup {x \in Actors : pc[x] \in Open}]
      BY <1>0, <1>6 DEF InsertEndpoint, FindEndpoint, TypeOK, Open
    <3>2. \/ pathLock' = pathLock
          \/ pathLock' = [pathLock EXCEPT ![<<svc[b], NextPath(b)>>] = b]
      BY <1>6 DEF InsertEndpoint, FindEndpoint, locks
    <3> QED
      BY <3>1, <3>2
  <2> QED
    BY <1>0, <1>6, <2>1, <2>2, <2>3
       DEF InsertEndpoint, FindEndpoint, TypeOK, rows, locks
<1>7. ASSUME NEW b \in Batches, InsertEvents(b) PROVE TypeOK'
  <2>1. Goto(b, "commit")
    BY <1>7 DEF InsertEvents
  <2> QED
    BY <1>0, <1>7, <2>1, Keeping DEF InsertEvents, TypeOK, rows, locals, locks, Open
<1>8. ASSUME NEW b \in Batches, FlushService(b) PROVE TypeOK'
  BY <1>0, <1>8 DEF FlushService, TypeOK, rows, locals, Open
<1>9. ASSUME NEW b \in Batches, CommitBatch(b) PROVE TypeOK'
  <2>1. "202" \in Answers /\ Goto(b, "202") /\ ReleaseLocks(b)
        /\ UNCHANGED <<revokedBy, locals>>
    BY <1>9 DEF CommitBatch, Answers
  <2>2. OwnServices(b) \subseteq ServiceRow
    BY DEF OwnServices, ServiceRow
  <2>3. svc[b] \in Ids /\ pos[b] = Len(PathsOf[b])
    BY <1>9, Resolved DEF CommitBatch, IInv, EndpointsInTurn
  <2>4. OwnEndpoints(b) \subseteq EndpointRow
    BY <2>3 DEF OwnEndpoints, EndpointRow
  <2>5. OwnEvents(b) \subseteq EventRow
    <3>1. \A j \in 1..Len(PathsOf[b]) : eps[b][PathsOf[b][j]] \in Actors
      BY <1>9, <2>3, Resolved DEF CommitBatch
    <3> QED
      BY <2>3, <3>1 DEF OwnEvents, EventRow
  <2>6. health' = health /\ active' = active
    BY <1>0, <1>9 DEF CommitBatch, Updated, TypeOK
  <2>7. services' \subseteq ServiceRow /\ endpoints' \subseteq EndpointRow
        /\ events' \subseteq EventRow
    BY <1>0, <1>9, <2>2, <2>4, <2>5 DEF CommitBatch, TypeOK
  <2> QED
    BY <1>0, <2>1, <2>6, <2>7, Releasing DEF TypeOK, locals
<1>10. ASSUME NEW c \in Creators, CommitService(c) PROVE TypeOK'
  <2>1. "201" \in Answers /\ Goto(c, "201") /\ ReleaseLocks(c)
        /\ UNCHANGED <<endpoints, events, health, active, revokedBy, locals>>
    BY <1>10 DEF CommitService, Answers
  <2>2. services' \subseteq ServiceRow
    BY <1>0, <1>10 DEF CommitService, OwnServices, ServiceRow, TypeOK
  <2> QED
    BY <1>0, <2>1, <2>2, Releasing DEF TypeOK, locals
<1>11. ASSUME NEW v \in Revokers, RevokeKey(v) PROVE TypeOK'
  <2>1. Goto(v, "commit")
    BY <1>11 DEF RevokeKey
  <2> QED
    BY <1>0, <1>11, <2>1, Keeping DEF RevokeKey, TypeOK, rows, locals, Open
<1>12. ASSUME NEW v \in Revokers, CommitRevocation(v) PROVE TypeOK'
  <2>1. "200" \in Answers /\ Goto(v, "200") /\ ReleaseLocks(v)
        /\ UNCHANGED <<services, endpoints, events, health, locals>>
    BY <1>12 DEF CommitRevocation, Answers
  <2>2. active' \in [Keys -> BOOLEAN] /\ revokedBy' \in [Keys -> Revokers \cup {None}]
    BY <1>0, <1>12 DEF CommitRevocation, TypeOK
  <2> QED
    BY <1>0, <2>1, <2>2, Releasing DEF TypeOK, locals
<1>13. ASSUME NEW x \in services, NEW h \in Health, SetHealth(x, h) PROVE TypeOK'
  BY <1>0, <1>13 DEF SetHealth, TypeOK, locals, locks
<1>14. CASE UNCHANGED vars
  BY <1>0, <1>14 DEF vars, rows, locals, locks, TypeOK
<1> QED
  BY <1>1, <1>2, <1>3, <1>4, <1>5, <1>6, <1>7, <1>8, <1>9, <1>10, <1>11, <1>12, <1>13,
     <1>14 DEF Next, BatchStep, CreatorStep, RevokerStep, AbortDeadlocked

----------------------------------------------------------------------------
(* A step of one request.                                                    *)
StepOf(a) ==
    \/ a \in Batches /\ (BatchStep(a) \/ Throttle(a))
    \/ a \in Creators /\ CreatorStep(a)
    \/ a \in Revokers /\ RevokerStep(a)
    \/ RollBack(a)

(* The steps that end a transaction with its rows committed.                 *)
Commits(a) ==
    \/ a \in Batches /\ CommitBatch(a)
    \/ a \in Creators /\ CommitService(a)
    \/ a \in Revokers /\ CommitRevocation(a)

(* A step of the system is a step of one request, or the engine's.           *)
LEMMA Steps ==
    ASSUME [Next]_vars
    PROVE  \/ \E a \in Actors : StepOf(a)
           \/ \E x \in services, h \in Health : SetHealth(x, h)
           \/ UNCHANGED vars
BY DEF Next, StepOf, Actors, AbortDeadlocked

(* A request moves alone, never after its answer, and only a committing batch*)
(* is answered 202.                                                          *)
LEMMA OneMoves ==
    ASSUME TypeOK, NEW a \in Actors, StepOf(a)
    PROVE  /\ pc[a] \notin Answers /\ pc'[a] # "idle"
           /\ \A x \in Actors \ {a} : pc'[x] = pc[x]
           /\ a \in Batches /\ pc'[a] = "202" => CommitBatch(a)
           /\ pc'[a] \notin Answers => pc'[a] \in Open
<1> USE DEF TypeOK, Open, Answers, Goto
<1>1. CASE Throttle(a) \/ ValidateKey(a) \/ CheckName(a) \/ ReadKey(a) \/ RevokeKey(a)
  BY <1>1 DEF Throttle, ValidateKey, CheckName, ReadKey, RevokeKey
<1>2. CASE ResolveService(a) \/ FlushKey(a) \/ InsertService(a)
  BY <1>2 DEF ResolveService, FlushKey, InsertService, AfterInsert
<1>3. CASE UniqueViolation(a) \/ RollBack(a)
  BY <1>3 DEF UniqueViolation, RollBack
<1>4. CASE InsertEndpoint(a) \/ FindEndpoint(a) \/ InsertEvents(a) \/ FlushService(a)
  BY <1>4 DEF InsertEndpoint, FindEndpoint, InsertEvents, FlushService
<1>5. CASE CommitBatch(a)
  BY <1>5 DEF CommitBatch
<1>6. CASE a \in Creators /\ CommitService(a)
  BY <1>6, IngestionAssumption DEF CommitService
<1>7. CASE a \in Revokers /\ CommitRevocation(a)
  BY <1>7, IngestionAssumption DEF CommitRevocation
<1> QED
  BY <1>1, <1>2, <1>3, <1>4, <1>5, <1>6, <1>7
     DEF StepOf, BatchStep, CreatorStep, RevokerStep

(* Only a commit writes rows.                                                *)
LEMMA OnlyCommitsWrite ==
    ASSUME NEW a \in Actors, StepOf(a), ~Commits(a)
    PROVE  UNCHANGED rows
BY DEF StepOf, Commits, BatchStep, CreatorStep, RevokerStep, Throttle, ValidateKey,
       ResolveService, FlushKey, InsertService, UniqueViolation, InsertEndpoint,
       FindEndpoint, InsertEvents, FlushService, CheckName, ReadKey, RevokeKey, RollBack

(* What a commit writes.                                                     *)
LEMMA CommitWrites ==
    ASSUME TypeOK, NEW a \in Actors, Commits(a)
    PROVE  /\ pc[a] = "commit"
           /\ a \in Batches => /\ pc'[a] = "202" /\ HoldsName(a)
                               /\ services' = services \cup OwnServices(a)
                               /\ endpoints' = endpoints \cup OwnEndpoints(a)
                               /\ events' = events \cup OwnEvents(a)
           /\ a \in Creators => /\ pc'[a] = "201"
                                /\ services' = services \cup OwnServices(a)
                                /\ UNCHANGED <<endpoints, events>>
           /\ a \in Revokers => UNCHANGED <<services, endpoints, events>>
           /\ ReleaseLocks(a) /\ UNCHANGED locals
           /\ pc'[a] \in {"200", "201", "202"}
<1> USE DEF TypeOK, Goto
<1>1. CASE a \in Batches /\ CommitBatch(a)
  BY <1>1, IngestionAssumption DEF CommitBatch
<1>2. CASE a \in Creators /\ CommitService(a)
  BY <1>2, IngestionAssumption DEF CommitService
<1>3. CASE a \in Revokers /\ CommitRevocation(a)
  BY <1>3, IngestionAssumption DEF CommitRevocation
<1> QED
  BY <1>1, <1>2, <1>3 DEF Commits

(* The induction for the order of the endpoints.                             *)
LEMMA TurnStep == IInv /\ [Next]_vars => EndpointsInTurn'
<1> SUFFICES ASSUME IInv, [Next]_vars PROVE EndpointsInTurn'
  OBVIOUS
<1> USE DEF IInv, EndpointsInTurn
<1>1. ASSUME NEW b \in Batches, InsertEndpoint(b) \/ FindEndpoint(b)
      PROVE  EndpointsInTurn'
  <2>1. /\ pos[b] < Len(PathsOf[b]) /\ pc[b] = "endpoints" /\ pc' = pc
        /\ Len(PathsOf[b]) \in Nat /\ pos[b] \in Nat /\ pos'[b] = pos[b] + 1
    BY <1>1, NextIsTyped, Subject, LenProperties
       DEF InsertEndpoint, FindEndpoint, locks, TypeOK, Actors
  <2>2. \A x \in Batches \ {b} : pos'[x] = pos[x] /\ eps'[x] = eps[x]
    BY <1>1 DEF InsertEndpoint, FindEndpoint, TypeOK, Actors
  <2> QED
    BY <2>1, <2>2
<1>2. ASSUME NEW a \in Actors, StepOf(a),
             ~(a \in Batches /\ (InsertEndpoint(a) \/ FindEndpoint(a)))
      PROVE  EndpointsInTurn'
  <2>1. UNCHANGED <<pos, eps>>
    BY <1>2 DEF StepOf, BatchStep, CreatorStep, RevokerStep, Throttle, ValidateKey,
       ResolveService, FlushKey, InsertService, UniqueViolation, InsertEvents,
       FlushService, CommitBatch, CheckName, CommitService, ReadKey, RevokeKey,
       CommitRevocation, RollBack, locals
  <2>2. \A x \in Actors \ {a} : pc'[x] = pc[x]
    BY <1>2, OneMoves
  <2>3. ASSUME a \in Batches, pc'[a] \in {"idle", "resolve", "create"}
        PROVE  pc[a] \in {"idle", "resolve", "create"}
    BY <1>2, <2>3, IngestionAssumption
       DEF StepOf, BatchStep, CreatorStep, RevokerStep, Throttle, ValidateKey,
       ResolveService, FlushKey, InsertService, UniqueViolation, InsertEvents,
       FlushService, CommitBatch, RollBack, Goto, TypeOK, AfterInsert
  <2>4. ASSUME a \in Batches, pc'[a] = "commit" PROVE pos[a] = Len(PathsOf[a])
    BY <1>2, <2>4, IngestionAssumption
       DEF StepOf, BatchStep, CreatorStep, RevokerStep, Throttle, ValidateKey,
       ResolveService, FlushKey, InsertService, UniqueViolation, InsertEvents,
       FlushService, CommitBatch, RollBack, Goto, TypeOK, AfterInsert
  <2> QED
    BY <2>1, <2>2, <2>3, <2>4 DEF Actors
<1>3. ASSUME NEW x \in services, NEW h \in Health, SetHealth(x, h) PROVE EndpointsInTurn'
  BY <1>3 DEF SetHealth, locals
<1>4. CASE UNCHANGED vars
  BY <1>4 DEF vars, locals
<1> QED
  BY <1>1, <1>2, <1>3, <1>4, Steps

(* The induction for the rows and the requests that made them.               *)
LEMMA RowStep == IInv /\ [Next]_vars => RowsAreCommitted'
<1> SUFFICES ASSUME IInv, [Next]_vars PROVE RowsAreCommitted'
  OBVIOUS
<1> USE DEF IInv, RowsAreCommitted
<1>0. \A e \in endpoints : e.id \in Actors
  BY DEF TypeOK, EndpointRow
<1>1. ASSUME NEW a \in Actors, StepOf(a) PROVE RowsAreCommitted'
  <2>1. \A x \in Actors : pc[x] \in {"201", "202"} => pc'[x] = pc[x]
    BY <1>1, OneMoves DEF Answers
  <2>2. CASE ~Commits(a)
    BY <1>0, <1>1, <2>1, <2>2, OnlyCommitsWrite DEF rows
  <2>3. CASE Commits(a)
    <3>1. \A s \in OwnServices(a) : s.id = a
      BY DEF OwnServices
    <3>2. \A e \in OwnEndpoints(a) : e.id = a
      BY DEF OwnEndpoints
    <3>3. CASE a \in Batches
      BY <1>0, <2>1, <2>3, <3>1, <3>2, <3>3, CommitWrites
    <3>4. CASE a \in Creators
      BY <1>0, <2>1, <2>3, <3>1, <3>4, CommitWrites
    <3>5. CASE a \in Revokers
      BY <1>0, <2>1, <2>3, <3>5, CommitWrites
    <3> QED
      BY <3>3, <3>4, <3>5 DEF Actors
  <2> QED
    BY <2>2, <2>3
<1>2. ASSUME NEW x \in services, NEW h \in Health, SetHealth(x, h) PROVE RowsAreCommitted'
  BY <1>2 DEF SetHealth
<1>3. CASE UNCHANGED vars
  BY <1>3 DEF vars, rows
<1> QED
  BY <1>1, <1>2, <1>3, Steps

(* What a step does to the locks of services rows: a request may take its    *)
(* own name's when it is free, and the end of the transaction releases it.   *)
LEMMA Locking ==
    ASSUME IInv, NEW a \in Actors, StepOf(a), NEW n \in Projects \X Names
    PROVE  /\ \/ nameLock'[n] = nameLock[n]
              \/ nameLock'[n] = None /\ nameLock[n] = a
              \/ /\ nameLock'[n] = a /\ nameLock[n] = None
                 /\ a \in Writers /\ n = <<Project(a), Name(a)>>
                 /\ pc'[a] \in {"create", "endpoints", "commit"}
           /\ nameLock'[n] = a => pc'[a] \in {"create", "endpoints", "commit"}
<1>0. TypeOK
  BY DEF IInv
<1>1. nameLock[n] = a => pc[a] \in {"create", "endpoints", "commit"} /\ a \in Writers
  BY Subject DEF IInv, NamesAreOwned
<1>2. CASE ReleaseLocks(a)
  BY <1>0, <1>2, Subject DEF TypeOK, ReleaseLocks, Released
<1>3. CASE a \in Batches /\ (Throttle(a) \/ ValidateKey(a) \/ ResolveService(a))
  <2>1. nameLock' = nameLock /\ pc[a] \in {"idle", "resolve"}
    BY <1>3 DEF Throttle, ValidateKey, ResolveService, locks
  <2> QED
    BY <1>1, <2>1
<1>4. CASE \/ a \in Creators /\ CheckName(a)
           \/ a \in Revokers /\ (ReadKey(a) \/ RevokeKey(a))
  <2>1. nameLock' = nameLock /\ pc[a] \in {"idle", "revoke"}
    BY <1>4 DEF CheckName, ReadKey, RevokeKey, locks
  <2> QED
    BY <1>1, <2>1
<1>5. CASE a \in Batches /\ (FlushKey(a) \/ InsertEndpoint(a) \/ FindEndpoint(a)
                               \/ InsertEvents(a))
  <2>1. nameLock' = nameLock
        /\ pc'[a] \in {"create", "endpoints", "commit"}
    BY <1>0, <1>5 DEF FlushKey, InsertEndpoint, FindEndpoint, InsertEvents, locks, TypeOK,
                      Goto
  <2> QED
    BY <2>1
<1>6. CASE a \in Writers /\ (InsertService(a) \/ (a \in Batches /\ FlushService(a)))
  <2>1. pc'[a] \in {"create", "endpoints", "commit"}
    BY <1>0, <1>6 DEF InsertService, FlushService, TypeOK, Goto, AfterInsert
  <2>2. /\ nameLock[<<Project(a), Name(a)>>] = None
        /\ nameLock' = [nameLock EXCEPT ![<<Project(a), Name(a)>>] = a]
    BY <1>6 DEF InsertService, FlushService
  <2>3. CASE n = <<Project(a), Name(a)>>
    BY <1>0, <1>6, <2>1, <2>2, <2>3 DEF TypeOK
  <2>4. CASE n # <<Project(a), Name(a)>>
    BY <1>0, <2>1, <2>2, <2>4 DEF TypeOK
  <2> QED
    BY <2>3, <2>4
<1>7. CASE UniqueViolation(a) \/ RollBack(a) \/ Commits(a)
  BY <1>0, <1>2, <1>7, CommitWrites DEF UniqueViolation, RollBack
<1>8. a \in Batches \cup Creators => a \in Writers
  BY DEF Writers
<1> QED
  BY <1>3, <1>4, <1>5, <1>6, <1>7, <1>8
     DEF StepOf, BatchStep, CreatorStep, RevokerStep, Commits

(* The induction for the locks of services rows.                             *)
LEMMA NameStep == IInv /\ [Next]_vars => NamesAreOwned'
<1> SUFFICES ASSUME IInv, [Next]_vars PROVE NamesAreOwned'
  OBVIOUS
<1>1. ASSUME NEW a \in Actors, StepOf(a) PROVE NamesAreOwned'
  <2> SUFFICES ASSUME NEW n \in Projects \X Names, nameLock'[n] # None
               PROVE  /\ nameLock'[n] \in Writers
                      /\ n = <<Project(nameLock'[n]), Name(nameLock'[n])>>
                      /\ pc'[nameLock'[n]] \in {"create", "endpoints", "commit"}
    BY DEF NamesAreOwned, Project, Name
  <2>1. CASE nameLock'[n] = nameLock[n]
    <3>1. /\ nameLock[n] \in Writers /\ n = <<Project(nameLock[n]), Name(nameLock[n])>>
          /\ pc[nameLock[n]] \in {"create", "endpoints", "commit"}
      BY <2>1 DEF IInv, NamesAreOwned
    <3>2. CASE nameLock[n] = a
      BY <1>1, <2>1, <3>1, <3>2, Locking
    <3>3. CASE nameLock[n] # a
      BY <1>1, <2>1, <3>1, <3>3, OneMoves DEF IInv, Writers, Actors
    <3> QED
      BY <3>2, <3>3
  <2>2. CASE nameLock'[n] # nameLock[n]
    BY <1>1, <2>2, Locking
  <2> QED
    BY <2>1, <2>2
<1>2. ASSUME NEW x \in services, NEW h \in Health, SetHealth(x, h) PROVE NamesAreOwned'
  BY <1>2 DEF SetHealth, locks, IInv, NamesAreOwned, Project, Name
<1>3. CASE UNCHANGED vars
  BY <1>3 DEF vars, locks, IInv, NamesAreOwned, Project, Name
<1> QED
  BY <1>1, <1>2, <1>3, Steps

(* A transaction that commits a new services row holds its name, which no    *)
(* committed row has.                                                        *)
LEMMA OwnNameIsFree ==
    ASSUME IInv, NEW a \in Writers, Commits(a), svc[a] = a
    PROVE  HoldsName(a) /\ Match(a) = {}
BY CommitWrites DEF IInv, ServiceIsResolved, ServiceResolved, Writers, Actors

(* The step of one request leaves what another has resolved.                 *)
LEMMA OthersKeepService ==
    ASSUME IInv, NEW a \in Actors, StepOf(a), NEW x \in Writers, x # a
    PROVE  ServiceResolved(x)' /\ svc'[x] = svc[x]
<1>1. x \in Actors /\ x # None /\ <<Project(x), Name(x)>> \in Projects \X Names
  BY Subject DEF Writers, Actors
<1>2. pc'[x] = pc[x]
  BY <1>1, OneMoves DEF IInv
<1>3. svc'[x] = svc[x]
  <2>1. \/ UNCHANGED svc
        \/ \E i : svc' = [svc EXCEPT ![a] = i]
    BY DEF StepOf, BatchStep, CreatorStep, RevokerStep, Throttle, ValidateKey,
       ResolveService, FlushKey, InsertService, UniqueViolation, InsertEndpoint,
       FindEndpoint, InsertEvents, FlushService, CommitBatch, CheckName, CommitService,
       ReadKey, RevokeKey, CommitRevocation, RollBack, locals
  <2> QED
    BY <1>1, <2>1 DEF IInv, TypeOK
<1>4. HoldsName(x)' <=> HoldsName(x)
  <2>1. PICK n \in Projects \X Names : n = <<Project(x), Name(x)>>
    BY <1>1
  <2>2. nameLock'[n] = x <=> nameLock[n] = x
    BY <1>1, <2>1, Locking
  <2> QED
    BY <2>1, <2>2 DEF HoldsName, Project, Name
<1>5. services \subseteq services'
  BY OnlyCommitsWrite, CommitWrites DEF IInv, rows, Actors
<1>6. ASSUME HoldsName(x), Match(x) = {} PROVE Match(x)' = {}
  <2>1. CASE services' = services
    BY <1>6, <2>1 DEF Match, Project, Name
  <2>2. CASE services' # services
    <3>1. Commits(a) /\ a \in Writers /\ services' = services \cup OwnServices(a)
          /\ svc[a] = a
      BY <2>2, OnlyCommitsWrite, CommitWrites
         DEF IInv, rows, Actors, Writers, OwnServices
    <3>2. HoldsName(a)
      BY <3>1, OwnNameIsFree
    <3>3. ~(Project(a) = Project(x) /\ Name(a) = Name(x))
      BY <1>6, <3>2 DEF HoldsName
    <3>4. services' = services \cup {ServiceOfId(a, a)}
      BY <3>1 DEF OwnServices, ServiceOfId
    <3>5. \A s \in services' : ~(s.project = Project(x) /\ s.name = Name(x))
      BY <1>6, <3>3, <3>4 DEF Match, ServiceOfId
    <3> QED
      BY <3>5 DEF Match, Project, Name
  <2> QED
    BY <2>1, <2>2
<1>7. ServiceResolved(x)
  BY DEF IInv, ServiceIsResolved
<1>8. ServiceOfId(svc[x], x)' = ServiceOfId(svc[x], x)
  BY <1>3 DEF ServiceOfId, Project, Name
<1> QED
  BY <1>2, <1>3, <1>4, <1>5, <1>6, <1>7, <1>8 DEF ServiceResolved

(* The step of a request towards its services row.                           *)
LEMMA OwnService ==
    ASSUME IInv, NEW a \in Writers, StepOf(a)
    PROVE  ServiceResolved(a)'
<1>0. /\ TypeOK /\ a \in Actors /\ a # None
      /\ <<Project(a), Name(a)>> \in Projects \X Names
  BY Subject DEF IInv, Writers, Actors
<1>1. ServiceResolved(a)
  BY DEF IInv, ServiceIsResolved
<1>2. CASE pc'[a] \in Answers
  BY <1>2 DEF ServiceResolved, Answers
<1>3. CASE Throttle(a) \/ ValidateKey(a) \/ CheckName(a)
  <2>1. pc[a] = "idle" /\ UNCHANGED <<svc, nameLock>>
    BY <1>3 DEF Throttle, ValidateKey, CheckName, locals, locks
  <2>2. ~HoldsName(a)
    BY <1>0, <2>1 DEF HoldsName, IInv, NamesAreOwned
  <2>3. pc'[a] \in Answers \cup {"resolve", "create"}
    BY <1>0, <1>3 DEF Throttle, ValidateKey, CheckName, Goto, TypeOK, Answers
  <2>4. ~HoldsName(a)' /\ svc'[a] = None
    BY <1>1, <2>1, <2>2 DEF HoldsName, Project, Name, ServiceResolved
  <2> QED
    BY <1>0, <1>2, <2>3, <2>4 DEF ServiceResolved
<1>4. CASE ResolveService(a)
  <2>1. pc[a] = "resolve" /\ svc[a] = None /\ UNCHANGED <<rows, locks>>
    BY <1>1, <1>4 DEF ResolveService, ServiceResolved
  <2>2. ~HoldsName(a)'
    BY <1>0, <2>1 DEF HoldsName, IInv, NamesAreOwned, locks, Project, Name
  <2>3. CASE Goto(a, "create") /\ UNCHANGED svc
    BY <1>0, <2>1, <2>2, <2>3 DEF ServiceResolved, Goto, TypeOK
  <2>4. ASSUME NEW s \in Match(a), svc' = [svc EXCEPT ![a] = s.id], Goto(a, "endpoints")
        PROVE  ServiceResolved(a)'
    <3>1. s \in services /\ s \in ServiceRow /\ s = ServiceOfId(s.id, a)
      BY <1>0 DEF Match, TypeOK, ServiceRow, ServiceOfId
    <3>2. s.id # a
      BY <1>0, <2>1, <3>1 DEF IInv, RowsAreCommitted
    <3>3. svc'[a] = s.id /\ pc'[a] = "endpoints"
      BY <1>0, <2>4 DEF TypeOK, Goto
    <3>4. ServiceOfId(svc[a], a)' = s
      BY <3>1, <3>3 DEF ServiceOfId, Project, Name
    <3> QED
      BY <2>1, <3>1, <3>2, <3>3, <3>4 DEF ServiceResolved, rows
  <2> QED
    BY <1>4, <2>3, <2>4 DEF ResolveService
<1>5. CASE a \in Batches /\ FlushKey(a)
  <2>1. /\ UNCHANGED <<svc, nameLock, services>>
        /\ \/ pc'[a] = pc[a] /\ pc[a] \in {"create", "commit"}
           \/ pc[a] = "create" /\ HoldsName(a) /\ pc'[a] = "endpoints"
    BY <1>0, <1>5 DEF FlushKey, TypeOK, Goto, locals, rows
  <2>2. /\ HoldsName(a)' = HoldsName(a) /\ Match(a)' = Match(a)
        /\ ServiceOfId(svc[a], a)' = ServiceOfId(svc[a], a)
    BY <2>1 DEF HoldsName, Match, ServiceOfId, Project, Name
  <2> QED
    BY <1>1, <2>1, <2>2 DEF ServiceResolved
<1>6. CASE InsertService(a)
  <2>1. svc'[a] = a /\ nameLock'[<<Project(a), Name(a)>>] = a /\ Match(a) = {}
        /\ UNCHANGED services /\ pc'[a] \in {"create", "endpoints", "commit"}
    BY <1>0, <1>6 DEF InsertService, TypeOK, Goto, rows, AfterInsert
  <2>2. HoldsName(a)' /\ Match(a)' = {}
    BY <2>1 DEF HoldsName, Match, Project, Name
  <2> QED
    BY <1>0, <2>1, <2>2 DEF ServiceResolved
<1>7. CASE a \in Batches /\ (InsertEndpoint(a) \/ FindEndpoint(a) \/ InsertEvents(a))
  <2>1. UNCHANGED <<svc, nameLock, services>> /\ pc[a] = "endpoints"
        /\ pc'[a] \in {"endpoints", "commit"}
    BY <1>0, <1>7 DEF InsertEndpoint, FindEndpoint, InsertEvents, TypeOK, Goto, locals,
                      rows, locks
  <2>2. /\ HoldsName(a)' = HoldsName(a) /\ Match(a)' = Match(a)
        /\ ServiceOfId(svc[a], a)' = ServiceOfId(svc[a], a)
    BY <2>1 DEF HoldsName, Match, ServiceOfId, Project, Name
  <2> QED
    BY <1>1, <2>1, <2>2 DEF ServiceResolved
<1>8. CASE a \in Batches /\ FlushService(a)
  <2>1. UNCHANGED <<svc, services, pc>> /\ pc[a] = "commit"
        /\ nameLock'[<<Project(a), Name(a)>>] = a
    BY <1>0, <1>8 DEF FlushService, TypeOK, locals, rows
  <2>2. /\ HoldsName(a)' /\ Match(a)' = Match(a)
        /\ ServiceOfId(svc[a], a)' = ServiceOfId(svc[a], a)
    BY <2>1 DEF HoldsName, Match, ServiceOfId, Project, Name
  <2> QED
    BY <1>1, <2>1, <2>2 DEF ServiceResolved
<1>9. CASE UniqueViolation(a) \/ RollBack(a)
  <2>1. pc'[a] = "500"
    BY <1>0, <1>9 DEF UniqueViolation, RollBack, Goto, TypeOK
  <2> QED
    BY <1>2, <2>1 DEF Answers
<1>10. CASE Commits(a)
  BY <1>0, <1>2, <1>10, CommitWrites DEF Answers
<1> QED
  BY <1>3, <1>4, <1>5, <1>6, <1>7, <1>8, <1>9, <1>10, IngestionAssumption
     DEF StepOf, BatchStep, CreatorStep, RevokerStep, Writers, Commits

(* The induction for the services rows of the requests.                      *)
LEMMA ServiceStep == IInv /\ [Next]_vars => ServiceIsResolved'
<1> SUFFICES ASSUME IInv, [Next]_vars PROVE ServiceIsResolved'
  OBVIOUS
<1>1. ASSUME NEW a \in Actors, StepOf(a) PROVE ServiceIsResolved'
  BY <1>1, OthersKeepService, OwnService DEF ServiceIsResolved, Writers
<1>2. ASSUME UNCHANGED <<services, pc, locals, locks>> PROVE ServiceIsResolved'
  BY <1>2 DEF locals, locks, IInv, ServiceIsResolved, ServiceResolved, HoldsName,
              Match, ServiceOfId, Project, Name, Writers
<1>3. ASSUME NEW x \in services, NEW h \in Health, SetHealth(x, h)
      PROVE  ServiceIsResolved'
  BY <1>2, <1>3 DEF SetHealth
<1>4. CASE UNCHANGED vars
  BY <1>2, <1>4 DEF vars, rows
<1> QED
  BY <1>1, <1>3, <1>4, Steps

(* The step of one request leaves what another has resolved.                 *)
LEMMA OthersKeepEndpoints ==
    ASSUME IInv, NEW a \in Actors, StepOf(a), NEW x \in Batches, x # a
    PROVE  EndpointsResolved(x)'
<1>0. TypeOK /\ x \in Actors /\ x \in Writers /\ x # None
  BY Subject DEF IInv, Writers, Actors
<1>1. pc'[x] = pc[x] /\ svc'[x] = svc[x]
  BY <1>0, OneMoves, OthersKeepService
<1>2. pos'[x] = pos[x] /\ eps'[x] = eps[x]
  <2>1. \/ UNCHANGED <<pos, eps>>
        \/ \E i, p : eps' = [eps EXCEPT ![a][p] = i] /\ pos' = [pos EXCEPT ![a] = @ + 1]
    BY DEF StepOf, BatchStep, CreatorStep, RevokerStep, Throttle, ValidateKey,
       ResolveService, FlushKey, InsertService, UniqueViolation, InsertEndpoint,
       FindEndpoint, InsertEvents, FlushService, CommitBatch, CheckName, CommitService,
       ReadKey, RevokeKey, CommitRevocation, RollBack, locals
  <2> QED
    BY <1>0, <2>1 DEF TypeOK
<1>3. CASE pc[x] \in {"endpoints", "commit"}
  <2>1. svc[x] \in Ids
    BY <1>3, Resolved
  <2>2. \A p \in Paths : pathLock[<<svc[x], p>>] = x => pathLock'[<<svc[x], p>>] = x
    <3>1. \/ UNCHANGED pathLock
          \/ ReleaseLocks(a)
          \/ \E e : pathLock[e] = None /\ pathLock' = [pathLock EXCEPT ![e] = a]
      BY DEF StepOf, BatchStep, CreatorStep, RevokerStep, Throttle, ValidateKey,
       ResolveService, FlushKey, InsertService, UniqueViolation, InsertEndpoint,
       FindEndpoint, InsertEvents, FlushService, CommitBatch, CheckName, CommitService,
       ReadKey, RevokeKey, CommitRevocation, RollBack, locks
    <3>2. CASE ReleaseLocks(a)
      BY <1>0, <2>1, <3>2 DEF TypeOK, ReleaseLocks, Released
    <3>3. ASSUME NEW e, pathLock[e] = None, pathLock' = [pathLock EXCEPT ![e] = a],
                 NEW p \in Paths, pathLock[<<svc[x], p>>] = x
          PROVE  pathLock'[<<svc[x], p>>] = x
      BY <1>0, <2>1, <3>3 DEF TypeOK
    <3> QED
      BY <3>1, <3>2, <3>3
  <2>3. endpoints \subseteq endpoints'
    BY <1>0, OnlyCommitsWrite, CommitWrites DEF rows, Actors
  <2>4. ASSUME NEW p \in Paths, pathLock[<<svc[x], p>>] = x,
               EndpointsAt(svc[x], p) = {}, NEW e \in endpoints', e.service = svc[x],
               e.path = p
        PROVE  FALSE
    <3>1. Commits(a) /\ a \in Batches /\ endpoints' = endpoints \cup OwnEndpoints(a)
      BY <1>0, <2>4, OnlyCommitsWrite, CommitWrites DEF rows, Actors, EndpointsAt
    <3>2. e \in OwnEndpoints(a)
      BY <2>4, <3>1 DEF EndpointsAt
    <3>3. PICK q \in Paths : eps[a][q] = a /\ e = [id |-> a, service |-> svc[a], path |-> q]
      BY <3>2 DEF OwnEndpoints
    <3>4. pathLock[<<svc[a], q>>] = a
      BY <1>0, <3>1, <3>3, CommitWrites DEF IInv, EndpointsAreResolved, EndpointsResolved
    <3>5. svc[a] = svc[x] /\ q = p
      BY <2>4, <3>3
    <3> QED
      BY <2>4, <3>4, <3>5
  <2>5. EndpointsResolved(x)
    BY DEF IInv, EndpointsAreResolved
  <2>6. \A p \in Paths : pathLock[<<svc[x], p>>] = x /\ EndpointsAt(svc[x], p) = {} =>
          EndpointsAt(svc[x], p)' = {}
    BY <1>1, <2>4 DEF EndpointsAt
  <2> QED
    BY <1>1, <1>2, <1>3, <2>2, <2>3, <2>5, <2>6 DEF EndpointsResolved
<1> QED
  BY <1>1, <1>3 DEF EndpointsResolved

(* The step of a batch towards its endpoints rows.                           *)
LEMMA OwnEndpoint ==
    ASSUME IInv, NEW b \in Batches, StepOf(b)
    PROVE  EndpointsResolved(b)'
<1>0. TypeOK /\ b \in Actors /\ b \in Writers /\ b # None /\ EndpointsResolved(b)
  BY Subject DEF IInv, Writers, Actors, EndpointsAreResolved
<1>1. CASE pc'[b] \notin {"endpoints", "commit"}
  BY <1>1 DEF EndpointsResolved
<1>2. CASE pc[b] \in {"idle", "resolve", "create"} /\ UNCHANGED <<pos, eps>>
  <2>1. pos[b] = 0 /\ \A p \in Paths : eps[b][p] = None
    BY <1>2 DEF IInv, EndpointsInTurn
  <2> QED
    BY <1>0, <1>2, <2>1 DEF EndpointsResolved
<1>3. CASE /\ pc[b] \in {"endpoints", "commit"}
           /\ UNCHANGED <<pos, eps, svc, pathLock, endpoints>>
  <2>1. \A p : EndpointsAt(svc[b], p)' = EndpointsAt(svc[b], p)
    BY <1>3 DEF EndpointsAt
  <2> QED
    BY <1>0, <1>3, <2>1 DEF EndpointsResolved
<1>4. CASE InsertEndpoint(b) \/ FindEndpoint(b)
  <2>1. /\ pc[b] = "endpoints" /\ UNCHANGED <<pc, svc, endpoints>>
        /\ pos'[b] = pos[b] + 1 /\ pos[b] \in Nat
        /\ NextPath(b) \in Paths /\ svc[b] \in Ids
        /\ NextPath(b) = PathsOf[b][pos[b] + 1]
    BY <1>0, <1>4, NextIsTyped DEF InsertEndpoint, FindEndpoint, rows, NextPath, TypeOK
  <2>2. \A i \in 1..pos'[b] : i \in 1..pos[b] \/ i = pos[b] + 1
    BY <2>1
  <2>3. \A p : EndpointsAt(svc[b], p)' = EndpointsAt(svc[b], p)
    BY <2>1 DEF EndpointsAt
  <2>4. CASE InsertEndpoint(b)
    <3>1. /\ eps'[b][NextPath(b)] = b
          /\ \A p \in Paths : p # NextPath(b) => eps'[b][p] = eps[b][p]
      BY <1>0, <2>1, <2>4 DEF InsertEndpoint, TypeOK
    <3>2. /\ pathLock'[<<svc[b], NextPath(b)>>] = b
          /\ \A p \in Paths : p # NextPath(b) =>
               pathLock'[<<svc[b], p>>] = pathLock[<<svc[b], p>>]
          /\ EndpointsAt(svc[b], NextPath(b)) = {}
      BY <1>0, <2>1, <2>4 DEF InsertEndpoint, TypeOK
    <3>3. \A p \in Paths : eps'[b][p] = b =>
            pathLock'[<<svc[b], p>>] = b /\ EndpointsAt(svc[b], p) = {}
      BY <1>0, <2>1, <3>1, <3>2 DEF EndpointsResolved
    <3>4. \A i \in 1..pos'[b] :
            \/ eps'[b][PathsOf[b][i]] = b
            \/ [id |-> eps'[b][PathsOf[b][i]], service |-> svc[b],
                path |-> PathsOf[b][i]] \in endpoints
      <4>1. SUFFICES ASSUME NEW i \in 1..pos'[b], PathsOf[b][i] # NextPath(b)
                     PROVE  \/ eps'[b][PathsOf[b][i]] = b
                            \/ [id |-> eps'[b][PathsOf[b][i]], service |-> svc[b],
                                path |-> PathsOf[b][i]] \in endpoints
        BY <3>1
      <4>2. i \in 1..pos[b]
        BY <2>1, <2>2, <4>1
      <4>3. PathsOf[b][i] \in Paths
        <5>1. pos[b] <= Len(PathsOf[b]) /\ Len(PathsOf[b]) \in Nat
          BY Subject, LenProperties DEF IInv, EndpointsInTurn
        <5>2. i \in 1..Len(PathsOf[b])
          BY <2>1, <4>2, <5>1
        <5> QED
          BY <5>2, Subject
      <4> QED
        BY <1>0, <2>1, <3>1, <4>1, <4>2, <4>3 DEF EndpointsResolved
    <3> QED
      BY <2>1, <2>3, <3>3, <3>4 DEF EndpointsResolved
  <2>5. CASE FindEndpoint(b)
    <3>1. PICK e \in EndpointsAt(svc[b], NextPath(b)) :
            eps' = [eps EXCEPT ![b][NextPath(b)] = e.id]
      BY <2>5 DEF FindEndpoint
    <3>2. /\ e \in endpoints /\ e.id # b
          /\ e = [id |-> e.id, service |-> svc[b], path |-> NextPath(b)]
      BY <1>0, <2>1, <3>1 DEF EndpointsAt, TypeOK, EndpointRow, IInv, RowsAreCommitted
    <3>3. /\ eps'[b][NextPath(b)] = e.id
          /\ \A p \in Paths : p # NextPath(b) => eps'[b][p] = eps[b][p]
      BY <1>0, <2>1, <3>1 DEF TypeOK
    <3>4. UNCHANGED pathLock
      BY <2>5 DEF FindEndpoint, locks
    <3>5. \A p \in Paths : eps'[b][p] = b =>
            pathLock'[<<svc[b], p>>] = b /\ EndpointsAt(svc[b], p) = {}
      BY <1>0, <2>1, <3>2, <3>3, <3>4 DEF EndpointsResolved
    <3>6. \A i \in 1..pos'[b] :
            \/ eps'[b][PathsOf[b][i]] = b
            \/ [id |-> eps'[b][PathsOf[b][i]], service |-> svc[b],
                path |-> PathsOf[b][i]] \in endpoints
      <4>1. ASSUME NEW i \in 1..pos'[b], PathsOf[b][i] = NextPath(b)
            PROVE  [id |-> eps'[b][PathsOf[b][i]], service |-> svc[b],
                    path |-> PathsOf[b][i]] \in endpoints
        BY <3>2, <3>3, <4>1
      <4>2. ASSUME NEW i \in 1..pos'[b], PathsOf[b][i] # NextPath(b)
            PROVE  \/ eps'[b][PathsOf[b][i]] = b
                   \/ [id |-> eps'[b][PathsOf[b][i]], service |-> svc[b],
                       path |-> PathsOf[b][i]] \in endpoints
        <5>1. i \in 1..pos[b]
          BY <2>1, <2>2, <4>2
        <5>2. pos[b] <= Len(PathsOf[b]) /\ Len(PathsOf[b]) \in Nat
          BY Subject, LenProperties DEF IInv, EndpointsInTurn
        <5>3. i \in 1..Len(PathsOf[b])
          BY <2>1, <5>1, <5>2
        <5>4. PathsOf[b][i] \in Paths
          BY <5>3, Subject
        <5> QED
          BY <1>0, <2>1, <3>3, <4>2, <5>1, <5>4 DEF EndpointsResolved
      <4> QED
        BY <4>1, <4>2
    <3> QED
      BY <2>1, <2>3, <3>5, <3>6 DEF EndpointsResolved
  <2> QED
    BY <1>4, <2>4, <2>5
<1>5. CASE Throttle(b) \/ ValidateKey(b) \/ ResolveService(b) \/ InsertService(b)
  BY <1>2, <1>5
     DEF Throttle, ValidateKey, ResolveService, InsertService, locals
<1>6. CASE FlushKey(b) \/ InsertEvents(b) \/ FlushService(b)
  BY <1>2, <1>3, <1>6 DEF FlushKey, InsertEvents, FlushService, locals, locks, rows
<1>7. CASE UniqueViolation(b) \/ RollBack(b) \/ CommitBatch(b)
  BY <1>0, <1>1, <1>7 DEF UniqueViolation, RollBack, CommitBatch, Goto, TypeOK
<1> QED
  BY <1>4, <1>5, <1>6, <1>7, IngestionAssumption DEF StepOf, BatchStep

(* The induction for the endpoints rows of the batches.                      *)
LEMMA EndpointStep == IInv /\ [Next]_vars => EndpointsAreResolved'
<1> SUFFICES ASSUME IInv, [Next]_vars PROVE EndpointsAreResolved'
  OBVIOUS
<1>1. ASSUME NEW a \in Actors, StepOf(a) PROVE EndpointsAreResolved'
  BY <1>1, OthersKeepEndpoints, OwnEndpoint DEF EndpointsAreResolved
<1>2. ASSUME UNCHANGED <<endpoints, pc, locals, locks>> PROVE EndpointsAreResolved'
  BY <1>2 DEF locals, locks, IInv, EndpointsAreResolved, EndpointsResolved, EndpointsAt
<1>3. ASSUME NEW x \in services, NEW h \in Health, SetHealth(x, h)
      PROVE  EndpointsAreResolved'
  BY <1>2, <1>3 DEF SetHealth
<1>4. CASE UNCHANGED vars
  BY <1>2, <1>4 DEF vars, rows
<1> QED
  BY <1>1, <1>3, <1>4, Steps

(* The engine's write of a health changes nothing else, and neither does a   *)
(* step that is not a commit.                                                *)
LEMMA WritingSteps ==
    ASSUME IInv, [Next]_vars
    PROVE  \/ \E a \in Actors : StepOf(a) /\ Commits(a)
           \/ /\ UNCHANGED <<services, endpoints, events, active, revokedBy>>
              /\ \A b \in Batches : pc[b] = "202" <=> pc'[b] = "202"
<1>1. ASSUME NEW a \in Actors, StepOf(a), ~Commits(a)
      PROVE  /\ UNCHANGED <<services, endpoints, events, active, revokedBy>>
             /\ \A b \in Batches : pc[b] = "202" <=> pc'[b] = "202"
  <2>1. UNCHANGED rows
    BY <1>1, OnlyCommitsWrite
  <2>2. /\ pc[a] # "202" /\ \A x \in Actors \ {a} : pc'[x] = pc[x]
        /\ a \in Batches => pc'[a] # "202"
    BY <1>1, OneMoves DEF IInv, Answers, Commits
  <2> QED
    BY <2>1, <2>2 DEF rows, Actors
<1>2. ASSUME NEW x \in services, NEW h \in Health, SetHealth(x, h)
      PROVE  UNCHANGED <<services, endpoints, events, active, revokedBy, pc>>
  BY <1>2 DEF SetHealth
<1>3. CASE UNCHANGED vars
  BY <1>3 DEF vars, rows
<1> QED
  BY <1>1, <1>2, <1>3, Steps

(* The induction for the uniqueness of the rows: a transaction holds the     *)
(* entries of the unique constraints its rows need until they are committed. *)
LEMMA DuplicateStep == IInv /\ [Next]_vars => NoDuplicateRows'
<1> SUFFICES ASSUME IInv, [Next]_vars PROVE NoDuplicateRows'
  OBVIOUS
<1>1. ASSUME NEW a \in Writers, Commits(a), services' = services \cup OwnServices(a)
      PROVE  \A s, t \in services' : s.project = t.project /\ s.name = t.name => s = t
  <2>1. CASE svc[a] # a
    BY <1>1, <2>1 DEF OwnServices, IInv, NoDuplicateRows
  <2>2. CASE svc[a] = a
    <3>1. \A s \in services : ~(s.project = Project(a) /\ s.name = Name(a))
      BY <1>1, <2>2, OwnNameIsFree DEF Match
    <3>2. \A s \in OwnServices(a) : s = ServiceOfId(a, a)
      BY DEF OwnServices, ServiceOfId
    <3>3. \A s \in OwnServices(a) : s.project = Project(a) /\ s.name = Name(a)
      BY <3>2 DEF ServiceOfId
    <3> QED
      BY <1>1, <3>1, <3>2, <3>3 DEF IInv, NoDuplicateRows
  <2> QED
    BY <2>1, <2>2
<1>2. ASSUME NEW b \in Batches, Commits(b), endpoints' = endpoints \cup OwnEndpoints(b)
      PROVE  \A e, f \in endpoints' : e.service = f.service /\ e.path = f.path => e = f
  <2>1. ASSUME NEW e \in OwnEndpoints(b)
        PROVE  e.service = svc[b] /\ e.path \in Paths /\ EndpointsAt(svc[b], e.path) = {}
               /\ e = [id |-> b, service |-> svc[b], path |-> e.path]
    <3>1. PICK p \in Paths : eps[b][p] = b /\ e = [id |-> b, service |-> svc[b], path |-> p]
      BY DEF OwnEndpoints
    <3>2. pc[b] = "commit"
      BY <1>2, CommitWrites DEF IInv, Actors
    <3>3. EndpointsAt(svc[b], p) = {}
      BY <3>1, <3>2 DEF IInv, EndpointsAreResolved, EndpointsResolved
    <3> QED
      BY <3>1, <3>3
  <2>2. \A e \in OwnEndpoints(b) : \A f \in endpoints :
          ~(e.service = f.service /\ e.path = f.path)
    BY <2>1 DEF EndpointsAt
  <2>3. \A e, f \in OwnEndpoints(b) : e.path = f.path => e = f
    BY <2>1
  <2> QED
    BY <1>2, <2>2, <2>3 DEF IInv, NoDuplicateRows
<1>3. ASSUME NEW a \in Actors, Commits(a) PROVE NoDuplicateRows'
  <2>1. CASE a \in Batches
    BY <1>1, <1>2, <1>3, <2>1, CommitWrites DEF IInv, NoDuplicateRows, Writers
  <2>2. CASE a \in Creators
    BY <1>1, <1>3, <2>2, CommitWrites DEF IInv, NoDuplicateRows, Writers
  <2>3. CASE a \in Revokers
    BY <1>3, <2>3, CommitWrites DEF IInv, NoDuplicateRows
  <2> QED
    BY <2>1, <2>2, <2>3 DEF Actors
<1>4. CASE UNCHANGED <<services, endpoints>>
  BY <1>4 DEF IInv, NoDuplicateRows
<1> QED
  BY <1>3, <1>4, WritingSteps

(* The induction for the scope of the events.                                *)
LEMMA ScopeStep == IInv /\ [Next]_vars => EventsAreScoped'
<1> SUFFICES ASSUME IInv, [Next]_vars PROVE EventsAreScoped'
  OBVIOUS
<1>0. \A e : /\ Project(e.batch)' = Project(e.batch)
             /\ Name(e.batch)' = Name(e.batch)
  BY DEF Project, Name
<1>1. ASSUME services \subseteq services', endpoints \subseteq endpoints', NEW e \in events
      PROVE  /\ [id |-> e.endpoint, service |-> e.service, path |-> e.path] \in endpoints'
             /\ ServiceOfId(e.service, e.batch) \in services'
  BY <1>1 DEF IInv, EventsAreScoped, ServiceOfId
<1>2. ASSUME NEW b \in Batches, Commits(b), services' = services \cup OwnServices(b),
             endpoints' = endpoints \cup OwnEndpoints(b), NEW e \in OwnEvents(b)
      PROVE  /\ [id |-> e.endpoint, service |-> e.service, path |-> e.path] \in endpoints'
             /\ ServiceOfId(e.service, e.batch) \in services'
  <2>1. pc[b] = "commit" /\ pos[b] = Len(PathsOf[b])
    BY <1>2, CommitWrites DEF IInv, EndpointsInTurn, Actors
  <2>2. PICK i \in 1..Len(PathsOf[b]) :
          e = [batch |-> b, service |-> svc[b], endpoint |-> eps[b][PathsOf[b][i]],
               path |-> PathsOf[b][i]]
    BY DEF OwnEvents
  <2>3. PathsOf[b][i] \in Paths
    BY Subject
  <2>4. \/ eps[b][PathsOf[b][i]] = b
        \/ [id |-> eps[b][PathsOf[b][i]], service |-> svc[b], path |-> PathsOf[b][i]]
             \in endpoints
    BY <2>1, Resolved
  <2>5. eps[b][PathsOf[b][i]] = b =>
          [id |-> b, service |-> svc[b], path |-> PathsOf[b][i]] \in OwnEndpoints(b)
    BY <2>3 DEF OwnEndpoints
  <2>6. ServiceOfId(svc[b], b) \in services \cup OwnServices(b)
    BY <2>1, Resolved DEF OwnServices, ServiceOfId
  <2>7. e.batch = b /\ e.service = svc[b] /\ e.endpoint = eps[b][PathsOf[b][i]]
        /\ e.path = PathsOf[b][i]
    BY <2>2
  <2> QED
    BY <1>2, <2>4, <2>5, <2>6, <2>7
<1>3. ASSUME services \subseteq services', endpoints \subseteq endpoints',
             NEW b, events' = events \cup OwnEvents(b),
             \A e \in OwnEvents(b) :
               /\ [id |-> e.endpoint, service |-> e.service, path |-> e.path] \in endpoints'
               /\ ServiceOfId(e.service, e.batch) \in services'
      PROVE  EventsAreScoped'
  BY <1>0, <1>1, <1>3 DEF EventsAreScoped, ServiceOfId
<1>4. ASSUME services \subseteq services', endpoints \subseteq endpoints', events' = events
      PROVE  EventsAreScoped'
  BY <1>0, <1>1, <1>4 DEF EventsAreScoped, ServiceOfId
<1>5. ASSUME NEW a \in Actors, Commits(a) PROVE EventsAreScoped'
  <2>1. CASE a \in Batches
    BY <1>2, <1>3, <1>5, <2>1, CommitWrites DEF IInv
  <2>2. CASE a \in Creators \/ a \in Revokers
    BY <1>4, <1>5, <2>2, CommitWrites DEF IInv
  <2> QED
    BY <2>1, <2>2 DEF Actors
<1> QED
  BY <1>4, <1>5, WritingSteps

(* The endpoints of the stored events of a batch.                            *)
StoredOf(b) == {e.path : e \in {x \in events : x.batch = b}}

(* The induction for what is stored of a batch.                              *)
LEMMA StoreStep == IInv /\ [Next]_vars => AcceptedIffStored'
<1> SUFFICES ASSUME IInv, [Next]_vars PROVE AcceptedIffStored'
  OBVIOUS
<1>1. CASE UNCHANGED events /\ \A b \in Batches : pc[b] = "202" <=> pc'[b] = "202"
  BY <1>1 DEF IInv, AcceptedIffStored
<1>2. ASSUME NEW a \in Actors, StepOf(a), Commits(a) PROVE AcceptedIffStored'
  <2>1. \A x \in Batches \ {a} : pc'[x] = pc[x]
    BY <1>2, OneMoves DEF IInv, Actors
  <2>2. CASE a \in Batches
    <3>1. pc[a] = "commit" /\ pc'[a] = "202" /\ events' = events \cup OwnEvents(a)
      BY <1>2, <2>2, CommitWrites DEF IInv
    <3>2. {x \in events : x.batch = a} = {}
      BY <2>2, <3>1 DEF IInv, AcceptedIffStored
    <3>3. \A e \in OwnEvents(a) : e.batch = a
      BY DEF OwnEvents
    <3>4. {x \in events' : x.batch = a} = OwnEvents(a)
      BY <3>1, <3>2, <3>3
    <3>5. {e.path : e \in OwnEvents(a)} = {PathsOf[a][i] : i \in 1..Len(PathsOf[a])}
      <4>1. \A e \in OwnEvents(a) : \E i \in 1..Len(PathsOf[a]) : e.path = PathsOf[a][i]
        BY DEF OwnEvents
      <4>2. ASSUME NEW i \in 1..Len(PathsOf[a])
            PROVE  \E e \in OwnEvents(a) : e.path = PathsOf[a][i]
        <5> DEFINE e == [batch |-> a, service |-> svc[a], endpoint |-> eps[a][PathsOf[a][i]],
                         path |-> PathsOf[a][i]]
        <5>1. e \in OwnEvents(a)
          BY DEF OwnEvents
        <5>2. e.path = PathsOf[a][i]
          OBVIOUS
        <5> QED
          BY <5>1, <5>2
      <4> QED
        BY <4>1, <4>2
    <3>6. \A b \in Batches \ {a} :
            {x \in events' : x.batch = b} = {x \in events : x.batch = b}
      BY <3>1, <3>3
    <3>7. \A b \in Batches \ {a} : StoredOf(b)' = StoredOf(b)
      BY <3>6 DEF StoredOf
    <3>8. StoredOf(a)' = {PathsOf[a][i] : i \in 1..Len(PathsOf[a])}
      BY <3>4, <3>5 DEF StoredOf
    <3>9. \A b \in Batches :
            StoredOf(b) =
              IF pc[b] = "202" THEN {PathsOf[b][i] : i \in 1..Len(PathsOf[b])} ELSE {}
      BY DEF StoredOf, IInv, AcceptedIffStored
    <3>10. \A b \in Batches :
             StoredOf(b)' =
               IF pc'[b] = "202" THEN {PathsOf[b][i] : i \in 1..Len(PathsOf[b])} ELSE {}
      BY <2>1, <3>1, <3>7, <3>8, <3>9
    <3> QED
      BY <3>10 DEF StoredOf, AcceptedIffStored
  <2>3. CASE a \notin Batches
    BY <1>1, <1>2, <2>1, <2>3, CommitWrites DEF IInv, Actors
  <2> QED
    BY <2>2, <2>3
<1> QED
  BY <1>1, <1>2, WritingSteps

(* What a commit leaves of the columns it did not mean to change.            *)
LEMMA CommitsKeep ==
    ASSUME IInv, NEW a \in Actors, Commits(a)
    PROVE  /\ UNCHANGED health
           /\ a \notin Revokers => UNCHANGED <<active, revokedBy>>
           /\ a \in Revokers => /\ active' = [active EXCEPT ![KeyOf[a]] = FALSE]
                                /\ revokedBy' = [revokedBy EXCEPT ![KeyOf[a]] = a]
<1>1. CASE a \in Batches /\ CommitBatch(a)
  BY <1>1, IngestionAssumption DEF CommitBatch, Updated, IInv, TypeOK
<1>2. CASE a \in Creators /\ CommitService(a)
  BY <1>2, IngestionAssumption DEF CommitService
<1>3. CASE a \in Revokers /\ CommitRevocation(a)
  BY <1>3, IngestionAssumption DEF CommitRevocation
<1> QED
  BY <1>1, <1>2, <1>3 DEF Commits

(* The induction for the revocations, and what it says of one step.          *)
LEMMA StampStep ==
    ASSUME IInv, [Next]_vars
    PROVE  /\ RevocationIsStamped'
           /\ \A k \in Keys : ~active[k] => ~active'[k] /\ revokedBy'[k] # None
<1>1. CASE UNCHANGED <<active, revokedBy>>
  BY <1>1 DEF IInv, RevocationIsStamped
<1>2. ASSUME NEW v \in Revokers, Commits(v)
      PROVE  /\ RevocationIsStamped'
             /\ \A k \in Keys : ~active[k] => ~active'[k] /\ revokedBy'[k] # None
  <2>1. /\ active' = [active EXCEPT ![KeyOf[v]] = FALSE]
        /\ revokedBy' = [revokedBy EXCEPT ![KeyOf[v]] = v] /\ v # None
    BY <1>2, CommitsKeep, Subject DEF Actors
  <2>2. \A k \in Keys : ~active'[k] /\ k # KeyOf[v] => ~active[k]
    BY <2>1 DEF IInv, TypeOK
  <2>3. \A k \in Keys : k # KeyOf[v] =>
          active'[k] = active[k] /\ revokedBy'[k] = revokedBy[k]
    BY <2>1 DEF IInv, TypeOK
  <2>4. ~active'[KeyOf[v]] /\ revokedBy'[KeyOf[v]] = v
    BY <2>1, IngestionAssumption DEF IInv, TypeOK
  <2> QED
    BY <2>1, <2>3, <2>4 DEF IInv, RevocationIsStamped
<1> QED
  BY <1>1, <1>2, CommitsKeep, WritingSteps

----------------------------------------------------------------------------
(* The invariant holds at the start.                                         *)
LEMMA Initially == Init => IInv
<1> SUFFICES ASSUME Init PROVE IInv
  OBVIOUS
<1> USE IngestionAssumption DEF Init
<1>1. TypeOK
  BY Subject DEF TypeOK, SeedIds, Ids, Actors
<1>2. EndpointsInTurn
  BY Subject, LenProperties DEF EndpointsInTurn, Actors
<1>3. RowsAreCommitted
  BY DEF RowsAreCommitted, SeedIds
<1>4. NamesAreOwned /\ RevocationIsStamped
  BY DEF NamesAreOwned, RevocationIsStamped
<1>5. ServiceIsResolved /\ EndpointsAreResolved
  BY DEF ServiceIsResolved, ServiceResolved, EndpointsAreResolved, EndpointsResolved,
         Writers, Actors
<1>6. NoDuplicateRows /\ EventsAreScoped /\ AcceptedIffStored
  BY DEF NoDuplicateRows, EventsAreScoped, AcceptedIffStored, Actors
<1> QED
  BY <1>1, <1>2, <1>3, <1>4, <1>5, <1>6 DEF IInv

(* The invariant is inductive.                                               *)
LEMMA Invariance == Spec => []IInv
<1>1. IInv /\ [Next]_vars => IInv'
  BY TypeStep, TurnStep, RowStep, NameStep, ServiceStep, EndpointStep, StampStep,
     DuplicateStep, ScopeStep, StoreStep DEF IInv
<1> QED
  BY <1>1, Initially, PTL DEF Spec

(* Every state of ingestion is well typed: what a transaction is about to    *)
(* write is a row of the schema, and only requests in progress hold locks.   *)
THEOREM TypeCorrect == Spec => []TypeOK
<1>1. IInv => TypeOK
  BY DEF IInv
<1> QED
  BY <1>1, Invariance, PTL

(* However many first batches, batches and registrations race for a name or  *)
(* a path, a project has one services row of a name and a service one        *)
(* endpoints row of a path.                                                  *)
THEOREM RowsAreUnique == Spec => []NoDuplicateRows
<1>1. IInv => NoDuplicateRows
  BY DEF IInv
<1> QED
  BY <1>1, Invariance, PTL

(* No event is ever stored under another project's service, or under an      *)
(* endpoint row that was not committed with it or before it.                 *)
THEOREM BatchesStayInProject == Spec => []EventsAreScoped
<1>1. IInv => EventsAreScoped
  BY DEF IInv
<1> QED
  BY <1>1, Invariance, PTL

(* A batch answered 202 is stored whole; any other answer, and any abort,    *)
(* leaves nothing of it.                                                     *)
THEOREM AcceptedIsStored == Spec => []AcceptedIffStored
<1>1. IInv => AcceptedIffStored
  BY DEF IInv
<1> QED
  BY <1>1, Invariance, PTL

(* No transaction writes back what it loaded: a revocation is never undone   *)
(* by a batch that had found the key active, and only the engine moves a     *)
(* service's health.                                                         *)
THEOREM NothingStaleIsWritten == Spec => NoStaleWrites
<1>1. ASSUME IInv, [Next]_vars
      PROVE  /\ \A k \in Keys : ~active[k] => ~active'[k] /\ revokedBy'[k] # None
             /\ \A i \in Ids : health'[i] # health[i] =>
                  UNCHANGED <<services, endpoints, events, active, pc>>
  <2>1. ASSUME NEW a \in Actors, StepOf(a) PROVE UNCHANGED health
    BY <1>1, <2>1, CommitsKeep, OnlyCommitsWrite DEF rows
  <2>2. ASSUME NEW x \in services, NEW h \in Health, SetHealth(x, h)
        PROVE  UNCHANGED <<services, endpoints, events, active, pc>>
    BY <2>2 DEF SetHealth
  <2>3. ASSUME UNCHANGED vars PROVE UNCHANGED health
    BY <2>3 DEF vars, rows
  <2>4. UNCHANGED health \/ UNCHANGED <<services, endpoints, events, active, pc>>
    <3>1. \/ \E a \in Actors : StepOf(a)
          \/ \E x \in services, h \in Health : SetHealth(x, h)
          \/ UNCHANGED vars
      BY <1>1, Steps
    <3> QED
      BY <2>1, <2>2, <2>3, <3>1
  <2>5. \A k \in Keys : ~active[k] => ~active'[k] /\ revokedBy'[k] # None
    BY <1>1, StampStep
  <2> QED
    BY <2>4, <2>5
<1> QED
  BY <1>1, Invariance, PTL DEF Spec, NoStaleWrites
=============================================================================

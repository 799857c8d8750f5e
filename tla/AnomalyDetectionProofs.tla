----------------------- MODULE AnomalyDetectionProofs -----------------------
(* Theorems about AnomalyDetection for every set of services and requests,   *)
(* every scope and every verdict of the detectors.                           *)
EXTENDS AnomalyDetection, SequenceTheorems, TLAPS

(* A request that detects has a service to go on with, and one that records  *)
(* or resolves a metric.                                                     *)
HasWork ==
    \A r \in Requests :
      /\ pc[r] \in {"detect", "record", "resolve", "lock"} => todo[r] # <<>>
      /\ pc[r] \in {"record", "resolve", "lock"} => metrics[r] # <<>>

(* Rows come from the request they are named by: the committed ones from a   *)
(* committed request.  A request sees only what was committed before it.     *)
OwnRows ==
    /\ \A row \in rows : row.by \in Committed
    /\ \A r \in Requests : \A row \in inserted[r] : row.by = r
    /\ \A r \in Requests : seen[r] \subseteq Committed \ {r}

(* Only one request at a time has resolved a row, and none resolves it again.*)
LocksAreExclusive ==
    /\ \A r \in Requests : \A row \in resolving[r] : resolvedBy[row] = None
    /\ \A q, r \in Requests : q # r => resolving[q] \cap resolving[r] = {}

(* The induction behind DuplicatesOverlap: what a request inserts has no     *)
(* active row it could have seen, other than those it has resolved itself.   *)
NoneSeenActive ==
    /\ \A r \in Requests : \A b \in inserted[r] : \A a \in rows :
         a.by \in seen[r] /\ Is(a, b.service, b.metric)
           => a \in resolving[r] \/ resolvedBy[a] # None
    /\ \A a, b \in rows :
         a.by \in seen[b.by] /\ Is(a, b.service, b.metric) => resolvedBy[a] # None

(* A service and metric that a request still has before it.                  *)
Ahead(r, s, m) ==
    /\ s = Head(todo[r])
    /\ \E i \in 1..Len(metrics[r]) : metrics[r][i] = m

(* What is recorded while a request is on its way.                           *)
FoundIsRecorded ==
    \A r \in Requests : \A t \in triggered[r] :
      \/ pc[r] = "failed"
      \/ pc[r] = "record" /\ Ahead(r, t[1], t[2])
      \/ \E row \in inserted[r] : Is(row, t[1], t[2])
      \/ \E row \in rows : Is(row, t[1], t[2]) /\ resolvedBy[row] \notin seen[r]

(* What is resolved while a request is on its way.                           *)
NormalIsResolved ==
    \A r \in Requests : \A row \in rows :
      row.service \in recovered[r] /\ row.by \in seen[r] /\ row.metric \in Statistical
      => \/ pc[r] = "failed"
         \/ resolvedBy[row] # None
         \/ row \in resolving[r]
         \/ /\ pc[r] \in {"resolve", "lock"}
            /\ Ahead(r, row.service, row.metric)
            /\ pc[r] = "lock" /\ row.metric = Head(metrics[r]) => row \in aim[r]

(* A request that has not begun has found nothing.                           *)
NothingFoundYet ==
    \A r \in Requests : pc[r] = "idle" => triggered[r] = {} /\ recovered[r] = {}

(* The inductive invariant.                                                  *)
IInv ==
    /\ TypeOK /\ HasWork /\ OwnRows /\ LocksAreExclusive /\ NothingFoundYet
    /\ NoneSeenActive /\ FoundIsRecorded /\ NormalIsResolved

----------------------------------------------------------------------------
(* What is left of a list after its first element.                           *)
LEMMA TailOf ==
    ASSUME NEW S, NEW q \in Seq(S), q # <<>>
    PROVE  /\ Len(q) \in Nat \ {0}
           /\ Head(q) \in S /\ Head(q) = q[1]
           /\ Tail(q) \in Seq(S)
           /\ Len(Tail(q)) = Len(q) - 1
           /\ \A i \in 1..Len(q) - 1 : Tail(q)[i] = q[i + 1]
           /\ Len(q) # 1 => Tail(q) # <<>>
<1>1. Len(q) \in Nat /\ Len(q) # 0
  BY EmptySeq
<1>2. /\ Head(q) \in S
      /\ Tail(q) \in Seq(S) /\ Len(Tail(q)) = Len(q) - 1
      /\ \A i \in 1..Len(Tail(q)) : Tail(q)[i] = q[i + 1]
  BY HeadTailProperties
<1>3. Head(q) = q[1]
  BY <1>1
<1>4. ASSUME Len(q) # 1 PROVE Tail(q) # <<>>
  <2>1. Len(Tail(q)) \in Nat \ {0}
    BY <1>1, <1>2, <1>4
  <2> DEFINE t == Tail(q)
  <2>2. Len(t) # 0
    BY <2>1
  <2> HIDE DEF t
  <2>3. t # <<>>
    BY <2>2
  <2> QED
    BY <2>3 DEF t
<1> QED
  BY <1>1, <1>2, <1>3, <1>4

(* A verdict names metrics of an anomaly.                                    *)
LEMMA TriggeredType == \A g \in Signals : Triggered(g) \in Seq(MetricTypes)
<1>1. ASSUME NEW g \in Signals, NEW m \in MetricTypes PROVE Fired(m, g) \in Seq(MetricTypes)
  BY <1>1 DEF Fired
<1>2. <<"multi_metric">> \in Seq(MetricTypes)
  BY DEF MetricTypes
<1>3. ASSUME NEW g \in Signals
      PROVE  Fired("latency", g) \o Fired("error_rate", g) \o Fired("throughput", g)
               \in Seq(MetricTypes)
  <2>1. /\ Fired("latency", g) \in Seq(MetricTypes)
        /\ Fired("error_rate", g) \in Seq(MetricTypes)
        /\ Fired("throughput", g) \in Seq(MetricTypes)
    BY <1>1 DEF MetricTypes, Statistical
  <2>2. Fired("latency", g) \o Fired("error_rate", g) \in Seq(MetricTypes)
    BY <2>1, ConcatProperties
  <2> QED
    BY <2>1, <2>2, ConcatProperties
<1> QED
  BY <1>2, <1>3 DEF Triggered

(* The recovery branch goes through the statistical metrics.                 *)
LEMMA ResolvableType ==
    /\ Resolvable \in Seq(MetricTypes) /\ Resolvable # <<>>
    /\ \A m \in Statistical : \E i \in 1..Len(Resolvable) : Resolvable[i] = m
<1>1. Resolvable \in Seq(MetricTypes) /\ Len(Resolvable) = 3
  BY DEF Resolvable, MetricTypes, Statistical
<1>2. /\ Resolvable[1] = "latency" /\ Resolvable[2] = "error_rate"
      /\ Resolvable[3] = "throughput"
  BY DEF Resolvable
<1>3. 1 \in 1..Len(Resolvable) /\ 2 \in 1..Len(Resolvable) /\ 3 \in 1..Len(Resolvable)
  BY <1>1
<1>4. \A m \in Statistical : \E i \in 1..Len(Resolvable) : Resolvable[i] = m
  BY <1>2, <1>3 DEF Statistical
<1>5. Resolvable # <<>>
  BY <1>1, EmptySeq
<1> QED
  BY <1>1, <1>4, <1>5

(* Going on with the next service.                                           *)
LEMMA NextServiceGoesOn ==
    ASSUME TypeOK, NEW r \in Requests, todo[r] # <<>>, NextService(r)
    PROVE  /\ todo' \in [Requests -> Seq(Services)]
           /\ pc' \in [Requests -> {"idle", "done", "failed"} \cup InProgress]
           /\ \A q \in Requests \ {r} : pc'[q] = pc[q] /\ todo'[q] = todo[q]
           /\ \/ pc'[r] = "detect" /\ todo'[r] # <<>>
              \/ pc'[r] = "commit"
<1>1. Tail(todo[r]) \in Seq(Services) /\ (Len(todo[r]) # 1 => Tail(todo[r]) # <<>>)
  BY TailOf DEF TypeOK
<1> QED
  BY <1>1 DEF NextService, Goto, TypeOK, InProgress

(* Going on with the next metric, or the next service after the last one.    *)
LEMMA NextMetricGoesOn ==
    ASSUME TypeOK, NEW r \in Requests, todo[r] # <<>>, metrics[r] # <<>>,
           NEW l \in {"record", "resolve"}, NextMetric(r, l)
    PROVE  /\ todo' \in [Requests -> Seq(Services)]
           /\ metrics' \in [Requests -> Seq(MetricTypes)]
           /\ pc' \in [Requests -> {"idle", "done", "failed"} \cup InProgress]
           /\ \A q \in Requests \ {r} :
                pc'[q] = pc[q] /\ todo'[q] = todo[q] /\ metrics'[q] = metrics[q]
           /\ \/ /\ pc'[r] = l /\ todo'[r] = todo[r]
                 /\ Len(metrics[r]) # 1
                 /\ metrics'[r] = Tail(metrics[r]) /\ metrics'[r] # <<>>
              \/ /\ Len(metrics[r]) = 1
                 /\ \/ pc'[r] = "detect" /\ todo'[r] # <<>>
                    \/ pc'[r] = "commit"
<1>1. /\ Tail(metrics[r]) \in Seq(MetricTypes)
      /\ Len(metrics[r]) # 1 => Tail(metrics[r]) # <<>>
  BY TailOf DEF TypeOK
<1>2. /\ metrics' \in [Requests -> Seq(MetricTypes)]
      /\ metrics'[r] = Tail(metrics[r])
      /\ \A q \in Requests \ {r} : metrics'[q] = metrics[q]
  BY <1>1 DEF NextMetric, TypeOK
<1>3. CASE Len(metrics[r]) = 1
  <2>1. NextService(r)
    BY <1>3 DEF NextMetric
  <2> QED
    BY <1>2, <1>3, <2>1, NextServiceGoesOn
<1>4. CASE Len(metrics[r]) # 1
  BY <1>1, <1>2, <1>4 DEF NextMetric, Goto, TypeOK, InProgress
<1> QED
  BY <1>3, <1>4

(* The typing part of the induction.                                         *)
LEMMA TypeStep == TypeOK /\ HasWork /\ OwnRows /\ [Next]_vars => TypeOK' /\ HasWork'
<1> SUFFICES ASSUME TypeOK, HasWork, OwnRows, [Next]_vars PROVE TypeOK' /\ HasWork'
  OBVIOUS
<1> USE AnomalyAssumption DEF TypeOK, HasWork, InProgress
<1>1. ASSUME NEW r \in Requests, Begin(r) PROVE TypeOK' /\ HasWork'
  <2>1. Scope[r] \in Seq(Services) /\ Scope[r] # <<>>
    OBVIOUS
  <2> QED
    BY <1>1, <2>1 DEF Begin, Goto, store, Committed
<1>2. ASSUME NEW r \in Requests, Skip(r) PROVE TypeOK' /\ HasWork'
  <2>1. /\ todo' \in [Requests -> Seq(Services)]
        /\ pc' \in [Requests -> {"idle", "done", "failed"} \cup InProgress]
        /\ \A q \in Requests \ {r} : pc'[q] = pc[q] /\ todo'[q] = todo[q]
        /\ \/ pc'[r] = "detect" /\ todo'[r] # <<>>
           \/ pc'[r] = "commit"
    BY <1>2, NextServiceGoesOn DEF Skip
  <2> QED
    BY <1>2, <2>1 DEF Skip, store, history
<1>3. ASSUME NEW r \in Requests, NEW g \in Signals, FoundAnomalous(r, g)
      PROVE  TypeOK' /\ HasWork'
  <2>1. Head(todo[r]) \in Services
    BY <1>3, TailOf DEF FoundAnomalous
  <2>2. Triggered(g) \in Seq(MetricTypes) /\ Triggered(g) # <<>>
    BY <1>3, TriggeredType DEF FoundAnomalous
  <2> QED
    BY <1>3, <2>1, <2>2 DEF FoundAnomalous, Goto, store
<1>4. ASSUME NEW r \in Requests, NEW g \in Signals, FoundNormal(r, g)
      PROVE  TypeOK' /\ HasWork'
  <2>1. Head(todo[r]) \in Services
    BY <1>4, TailOf DEF FoundNormal
  <2> QED
    BY <1>4, <2>1, ResolvableType DEF FoundNormal, Goto, store
<1>5. ASSUME NEW r \in Requests, Record(r) PROVE TypeOK' /\ HasWork'
  <2> DEFINE row == [by |-> r, service |-> Head(todo[r]), metric |-> Head(metrics[r])]
  <2>1. pc[r] = "record" /\ todo[r] # <<>> /\ metrics[r] # <<>> /\ NextMetric(r, "record")
    BY <1>5 DEF Record
  <2>2. row \in Row
    BY <2>1, TailOf DEF Row
  <2>3. row \notin rows
    BY <2>1 DEF OwnRows, Committed
  <2>4. inserted' \in [Requests -> SUBSET (Row \ rows)]
    <3> HIDE DEF row
    <3>1. inserted' = inserted \/ inserted' = [inserted EXCEPT ![r] = @ \cup {row}]
      BY <1>5 DEF Record, row
    <3>2. row \in Row \ rows
      BY <2>2, <2>3
    <3>3. inserted[r] \cup {row} \in SUBSET (Row \ rows)
      BY <3>2
    <3> QED
      BY <3>1, <3>3
  <2>5. \A q \in Requests \ {r} : inserted'[q] = inserted[q]
    BY <1>5 DEF Record
  <2>6. /\ todo' \in [Requests -> Seq(Services)]
        /\ metrics' \in [Requests -> Seq(MetricTypes)]
        /\ pc' \in [Requests -> {"idle", "done", "failed"} \cup InProgress]
        /\ \A q \in Requests \ {r} :
             pc'[q] = pc[q] /\ todo'[q] = todo[q] /\ metrics'[q] = metrics[q]
        /\ \/ pc'[r] = "record" /\ todo'[r] # <<>> /\ metrics'[r] # <<>>
           \/ pc'[r] = "detect" /\ todo'[r] # <<>>
           \/ pc'[r] = "commit"
    BY <2>1, NextMetricGoesOn
  <2> HIDE DEF row
  <2> QED
    BY <1>5, <2>4, <2>5, <2>6 DEF Record, store, history
<1>6. ASSUME NEW r \in Requests, StartResolve(r) PROVE TypeOK' /\ HasWork'
  BY <1>6 DEF StartResolve, Goto, Matching, store, history
<1>7. ASSUME NEW r \in Requests, FinishResolve(r) PROVE TypeOK' /\ HasWork'
  <2>1. pc[r] = "lock" /\ todo[r] # <<>> /\ metrics[r] # <<>> /\ NextMetric(r, "resolve")
    BY <1>7 DEF FinishResolve
  <2>2. /\ resolving' \in [Requests -> SUBSET rows]
        /\ aim' \in [Requests -> SUBSET rows]
        /\ \A q \in Requests \ {r} : resolving'[q] = resolving[q]
    BY <1>7 DEF FinishResolve, Matching
  <2>3. /\ todo' \in [Requests -> Seq(Services)]
        /\ metrics' \in [Requests -> Seq(MetricTypes)]
        /\ pc' \in [Requests -> {"idle", "done", "failed"} \cup InProgress]
        /\ \A q \in Requests \ {r} :
             pc'[q] = pc[q] /\ todo'[q] = todo[q] /\ metrics'[q] = metrics[q]
        /\ \/ pc'[r] = "resolve" /\ todo'[r] # <<>> /\ metrics'[r] # <<>>
           \/ pc'[r] = "detect" /\ todo'[r] # <<>>
           \/ pc'[r] = "commit"
    BY <2>1, NextMetricGoesOn
  <2> QED
    BY <1>7, <2>2, <2>3 DEF FinishResolve, store, history
<1>8. ASSUME NEW r \in Requests, Commit(r) PROVE TypeOK' /\ HasWork'
  <2>1. \A q \in Requests \ {r} : inserted[q] \cap inserted[r] = {}
    BY DEF OwnRows
  <2>2. /\ rows' \subseteq Row /\ rows \subseteq rows'
        /\ inserted' \in [Requests -> SUBSET (Row \ rows')]
    BY <1>8, <2>1 DEF Commit
  <2>3. resolvedBy' \in [rows' -> Requests \cup {None}]
    BY <1>8 DEF Commit
  <2> QED
    BY <1>8, <2>2, <2>3 DEF Commit, Goto, history
<1>9. ASSUME NEW r \in Requests, RollBack(r) PROVE TypeOK' /\ HasWork'
  BY <1>9 DEF RollBack, Goto, store, history
<1>10. CASE UNCHANGED vars
  BY <1>10 DEF vars, store, history
<1> QED
  BY <1>1, <1>2, <1>3, <1>4, <1>5, <1>6, <1>7, <1>8, <1>9, <1>10 DEF Next, Step
(* A request moves alone, and only to "done" by committing.                  *)
LEMMA OneMoves ==
    ASSUME TypeOK, HasWork, NEW r \in Requests, Step(r) \/ RollBack(r)
    PROVE  /\ \A q \in Requests \ {r} :
                pc'[q] = pc[q] /\ todo'[q] = todo[q] /\ metrics'[q] = metrics[q]
           /\ pc[r] # "done" /\ pc'[r] # "idle"
           /\ pc'[r] = "done" <=> Commit(r)
<1> USE DEF TypeOK, HasWork, InProgress
<1>1. CASE Begin(r) \/ StartResolve(r) \/ RollBack(r)
  BY <1>1 DEF Begin, StartResolve, Commit, RollBack, Goto
<1>2. CASE \E g \in Signals : FoundAnomalous(r, g) \/ FoundNormal(r, g)
  BY <1>2 DEF FoundAnomalous, FoundNormal, Goto, Commit
<1>3. CASE Skip(r)
  BY <1>3, NextServiceGoesOn DEF Skip, Commit
<1>4. CASE Record(r)
  BY <1>4, NextMetricGoesOn DEF Record, Commit
<1>5. CASE FinishResolve(r)
  BY <1>5, NextMetricGoesOn DEF FinishResolve, Commit
<1>6. CASE Commit(r)
  BY <1>6 DEF Commit, Goto
<1> QED
  BY <1>1, <1>2, <1>3, <1>4, <1>5, <1>6 DEF Step

(* Committed requests stay committed.                                        *)
LEMMA CommittedGrows ==
    ASSUME TypeOK, HasWork, NEW r \in Requests, Step(r) \/ RollBack(r)
    PROVE  /\ Committed' = IF Commit(r) THEN Committed \cup {r} ELSE Committed
           /\ r \notin Committed
BY OneMoves DEF Committed

(* The induction for who made a row and what a request saw.                  *)
LEMMA OwnStep == TypeOK /\ HasWork /\ OwnRows /\ [Next]_vars => OwnRows'
<1> SUFFICES ASSUME TypeOK, HasWork, OwnRows, [Next]_vars PROVE OwnRows'
  OBVIOUS
<1>1. ASSUME NEW r \in Requests, Begin(r) PROVE OwnRows'
  <2>1. Committed' = Committed /\ r \notin Committed
    BY <1>1, CommittedGrows DEF Step, Commit, Begin, TypeOK
  <2> QED
    BY <1>1, <2>1 DEF Begin, OwnRows, store, TypeOK
<1>2. ASSUME NEW r \in Requests, Record(r) PROVE OwnRows'
  <2> DEFINE row == [by |-> r, service |-> Head(todo[r]), metric |-> Head(metrics[r])]
  <2>1. Committed' = Committed
    BY <1>2, CommittedGrows DEF Step, Commit, Record
  <2>2. row.by = r
    OBVIOUS
  <2> HIDE DEF row
  <2>3. /\ \A q \in Requests \ {r} : inserted'[q] = inserted[q]
        /\ inserted'[r] \subseteq inserted[r] \cup {row}
    BY <1>2 DEF Record, TypeOK, row
  <2> QED
    BY <1>2, <2>1, <2>2, <2>3 DEF Record, OwnRows, store, history
<1>3. ASSUME NEW r \in Requests, Commit(r) PROVE OwnRows'
  <2>1. Committed' = Committed \cup {r}
    BY <1>3, CommittedGrows DEF Step
  <2> QED
    BY <1>3, <2>1 DEF Commit, OwnRows, TypeOK, history
<1>4. ASSUME NEW r \in Requests, Step(r) \/ RollBack(r),
             ~Begin(r), ~Record(r), ~Commit(r)
      PROVE  OwnRows'
  <2>1. Committed' = Committed
    BY <1>4, CommittedGrows
  <2>2. /\ UNCHANGED <<rows, seen>>
        /\ \A q \in Requests : inserted'[q] \subseteq inserted[q]
    BY <1>4 DEF Step, Skip, FoundAnomalous, FoundNormal, StartResolve, FinishResolve,
                RollBack, store, history, TypeOK
  <2> QED
    BY <2>1, <2>2 DEF OwnRows
<1>5. CASE UNCHANGED vars
  BY <1>5 DEF vars, store, history, OwnRows, Committed
<1> QED
  BY <1>1, <1>2, <1>3, <1>4, <1>5 DEF Next

(* The induction for the locks.                                              *)
LEMMA LockStep == TypeOK /\ LocksAreExclusive /\ [Next]_vars => LocksAreExclusive'
<1> SUFFICES ASSUME TypeOK, LocksAreExclusive, [Next]_vars PROVE LocksAreExclusive'
  OBVIOUS
<1> USE DEF TypeOK, LocksAreExclusive
<1>1. ASSUME NEW r \in Requests, FinishResolve(r) PROVE LocksAreExclusive'
  <2>1. /\ \A q \in Requests \ {r} : resolving'[q] = resolving[q]
        /\ \A row \in resolving'[r] : row \in resolving[r] \/ row \in aim[r]
        /\ \A row \in resolving'[r] : resolvedBy[row] = None
    BY <1>1 DEF FinishResolve, Matching
  <2>2. \A q \in Requests \ {r} : resolving[q] \cap aim[r] = {}
    BY <1>1 DEF FinishResolve, WaitsFor
  <2> QED
    BY <1>1, <2>1, <2>2 DEF FinishResolve, store
<1>2. ASSUME NEW r \in Requests, Commit(r) PROVE LocksAreExclusive'
  <2>1. /\ resolving'[r] = {}
        /\ \A q \in Requests \ {r} : resolving'[q] = resolving[q]
    BY <1>2 DEF Commit
  <2>2. ASSUME NEW q \in Requests \ {r}, NEW row \in resolving[q]
        PROVE  resolvedBy'[row] = None
    <3>1. row \in rows /\ row \in rows' /\ row \notin resolving[r] /\ resolvedBy[row] = None
      BY <1>2 DEF Commit
    <3> QED
      BY <1>2, <3>1 DEF Commit
  <2> QED
    BY <2>1, <2>2
<1>3. ASSUME NEW r \in Requests, Step(r) \/ RollBack(r), ~FinishResolve(r), ~Commit(r)
      PROVE  LocksAreExclusive'
  <2>1. /\ UNCHANGED resolvedBy
        /\ \A q \in Requests : resolving'[q] \subseteq resolving[q]
    BY <1>3 DEF Step, Begin, Skip, FoundAnomalous, FoundNormal, Record, StartResolve,
                RollBack, store, history
  <2> QED
    BY <2>1
<1>4. CASE UNCHANGED vars
  BY <1>4 DEF vars, store
<1> QED
  BY <1>1, <1>2, <1>3, <1>4 DEF Next
(* The committed rows only grow, and only a commit touches them; each row    *)
(* it resolves was active, and each it adds is.                              *)
LEMMA CommitChanges ==
    ASSUME TypeOK, LocksAreExclusive, NEW r \in Requests, Commit(r)
    PROVE  /\ rows' = rows \cup inserted[r]
           /\ \A row \in resolving[r] : row \in rows /\ resolvedBy[row] = None
           /\ \A row \in resolving[r] : resolvedBy'[row] = r
           /\ \A row \in rows \ resolving[r] : resolvedBy'[row] = resolvedBy[row]
           /\ \A row \in inserted[r] : row \notin rows /\ resolvedBy'[row] = None
<1>1. /\ rows' = rows \cup inserted[r]
      /\ \A row \in rows' : resolvedBy'[row] =
           IF row \in resolving[r] THEN r
           ELSE IF row \in rows THEN resolvedBy[row] ELSE None
  BY DEF Commit
<1>2. resolving[r] \subseteq rows /\ inserted[r] \cap rows = {}
  BY DEF TypeOK
<1> QED
  BY <1>1, <1>2 DEF LocksAreExclusive

(* No other step writes the table.                                           *)
LEMMA OnlyCommitWrites ==
    ASSUME NEW r \in Requests, Step(r) \/ RollBack(r), ~Commit(r)
    PROVE  UNCHANGED store
BY DEF Step, Begin, Skip, FoundAnomalous, FoundNormal, Record, StartResolve,
       FinishResolve, RollBack

(* The induction for the duplicates.                                         *)
LEMMA DuplicateStep ==
    TypeOK /\ HasWork /\ OwnRows /\ LocksAreExclusive /\ NoneSeenActive /\ [Next]_vars
      => NoneSeenActive'
<1> SUFFICES ASSUME TypeOK, HasWork, OwnRows, LocksAreExclusive, NoneSeenActive, [Next]_vars
             PROVE  NoneSeenActive'
  OBVIOUS
<1>1. ASSUME NEW r \in Requests, Begin(r) PROVE NoneSeenActive'
  <2>1. inserted[r] = {}
    BY <1>1 DEF Begin, TypeOK, InProgress
  <2>2. \A row \in rows : row.by # r
    BY <1>1 DEF Begin, OwnRows, Committed
  <2>3. \A q \in Requests \ {r} : seen'[q] = seen[q]
    BY <1>1 DEF Begin, TypeOK
  <2>4. \A row \in rows : row.by \in Requests
    BY DEF OwnRows, Committed
  <2> QED
    BY <1>1, <2>1, <2>2, <2>3, <2>4 DEF Begin, NoneSeenActive, store, Is
<1>2. ASSUME NEW r \in Requests, Record(r) PROVE NoneSeenActive'
  <2> DEFINE s == Head(todo[r])
             m == Head(metrics[r])
             row == [by |-> r, service |-> s, metric |-> m]
  <2>1. row.service = s /\ row.metric = m
    OBVIOUS
  <2>2. CASE HasActive(r, s, m)
    BY <1>2, <2>2 DEF Record, NoneSeenActive, store, history
  <2>3. CASE ~HasActive(r, s, m)
    <3>1. \A a \in rows : Is(a, s, m) => a \in resolving[r] \/ resolvedBy[a] # None
      BY <2>3 DEF HasActive
    <3>2. inserted' = [inserted EXCEPT ![r] = @ \cup {row}]
      BY <1>2, <2>3 DEF Record
    <3> HIDE DEF s, m, row
    <3>3. \A q \in Requests : \A b \in inserted'[q] :
            b \in inserted[q] \/ (q = r /\ b.service = s /\ b.metric = m)
      BY <2>1, <3>2 DEF TypeOK
    <3> QED
      BY <1>2, <3>1, <3>3 DEF Record, NoneSeenActive, store, history
  <2> QED
    BY <2>2, <2>3
<1>3. ASSUME NEW r \in Requests, Commit(r) PROVE NoneSeenActive'
  <2>1. /\ \A row \in inserted[r] : row.by = r
        /\ \A q \in Requests : r \notin seen[q]
        /\ r # None
    BY <1>3, AnomalyAssumption DEF OwnRows, Committed, Commit
  <2>2. /\ inserted'[r] = {} /\ seen' = seen
        /\ \A q \in Requests \ {r} :
             inserted'[q] = inserted[q] /\ resolving'[q] = resolving[q]
    BY <1>3 DEF Commit, TypeOK, history
  <2>3. ASSUME NEW q \in Requests, NEW b \in inserted'[q], NEW a \in rows',
               a.by \in seen'[q], Is(a, b.service, b.metric)
        PROVE  a \in resolving'[q] \/ resolvedBy'[a] # None
    <3>1. q # r /\ b \in inserted[q] /\ a.by # r
      BY <2>1, <2>2, <2>3
    <3>2. a \in rows
      BY <1>3, <2>1, <3>1, CommitChanges
    <3>3. a \in resolving[q] \/ resolvedBy[a] # None
      BY <2>2, <2>3, <3>1, <3>2 DEF NoneSeenActive
    <3> QED
      BY <1>3, <2>1, <2>2, <3>1, <3>2, <3>3, CommitChanges
  <2>4. ASSUME NEW a \in rows', NEW b \in rows', a.by \in seen'[b.by],
               Is(a, b.service, b.metric)
        PROVE  resolvedBy'[a] # None
    <3>1. b.by \in Requests
      BY <1>3, <2>1, CommitChanges DEF OwnRows, Committed
    <3>2. a.by # r /\ a \in rows
      BY <1>3, <2>1, <2>2, <2>4, <3>1, CommitChanges
    <3>3. CASE b \in rows
      BY <1>3, <2>1, <2>2, <2>4, <3>2, <3>3, CommitChanges DEF NoneSeenActive
    <3>4. CASE b \in inserted[r]
      <4>1. a \in resolving[r] \/ resolvedBy[a] # None
        BY <2>1, <2>2, <2>4, <3>2, <3>4 DEF NoneSeenActive
      <4> QED
        BY <1>3, <2>1, <3>2, <4>1, CommitChanges
    <3> QED
      BY <1>3, <3>3, <3>4, CommitChanges
  <2> QED
    BY <2>3, <2>4 DEF NoneSeenActive, Is
<1>4. ASSUME NEW r \in Requests, RollBack(r) PROVE NoneSeenActive'
  <2>1. /\ UNCHANGED <<store, seen>> /\ inserted'[r] = {}
        /\ \A q \in Requests \ {r} :
             inserted'[q] = inserted[q] /\ resolving'[q] = resolving[q]
    BY <1>4 DEF RollBack, TypeOK, history
  <2> QED
    BY <2>1 DEF NoneSeenActive, store
<1>5. ASSUME NEW r \in Requests, Step(r), ~Begin(r), ~Record(r), ~Commit(r)
      PROVE  NoneSeenActive'
  <2>1. /\ UNCHANGED <<store, seen, inserted>>
        /\ \A q \in Requests : resolving[q] \subseteq resolving'[q]
    BY <1>5 DEF Step, Skip, FoundAnomalous, FoundNormal, StartResolve, FinishResolve,
                history, TypeOK
  <2> QED
    BY <2>1 DEF NoneSeenActive, store
<1>6. CASE UNCHANGED vars
  BY <1>6 DEF vars, store, history, NoneSeenActive
<1> QED
  BY <1>1, <1>2, <1>3, <1>4, <1>5, <1>6 DEF Next
(* A metric that is ahead is the present one, or still ahead after it.       *)
LEMMA AheadMoves ==
    ASSUME TypeOK, NEW r \in Requests, todo[r] # <<>>, metrics[r] # <<>>,
           NEW l \in {"record", "resolve"}, NextMetric(r, l),
           NEW s, NEW m, Ahead(r, s, m), m # Head(metrics[r])
    PROVE  pc'[r] = l /\ Ahead(r, s, m)'
<1>1. PICK i \in 1..Len(metrics[r]) : metrics[r][i] = m
  BY DEF Ahead
<1>2. /\ Len(metrics[r]) \in Nat
      /\ metrics[r][1] = Head(metrics[r])
      /\ Len(Tail(metrics[r])) = Len(metrics[r]) - 1
      /\ \A j \in 1..Len(metrics[r]) - 1 : Tail(metrics[r])[j] = metrics[r][j + 1]
  BY TailOf DEF TypeOK
<1>3. i # 1 /\ i - 1 \in 1..Len(metrics[r]) - 1
  BY <1>1, <1>2
<1>4. Len(metrics[r]) # 1
  BY <1>2, <1>3
<1>5. pc'[r] = l /\ todo'[r] = todo[r] /\ metrics'[r] = Tail(metrics[r])
  BY <1>4, NextMetricGoesOn
<1>6. Tail(metrics[r])[i - 1] = m
  BY <1>1, <1>2, <1>3
<1> QED
  BY <1>2, <1>3, <1>5, <1>6 DEF Ahead

(* The induction for what is recorded.                                       *)
LEMMA RecordStep == IInv /\ [Next]_vars => FoundIsRecorded'
<1> SUFFICES ASSUME IInv, [Next]_vars PROVE FoundIsRecorded'
  OBVIOUS
<1> USE DEF IInv
<1>1. ASSUME NEW r \in Requests, Begin(r) PROVE FoundIsRecorded'
  <2>1. triggered'[r] = {}
    BY <1>1 DEF Begin, NothingFoundYet
  <2>2. \A q \in Requests \ {r} :
          /\ pc'[q] = pc[q] /\ todo'[q] = todo[q] /\ metrics'[q] = metrics[q]
          /\ seen'[q] = seen[q]
    BY <1>1, OneMoves DEF Begin, Step, TypeOK
  <2>3. UNCHANGED <<store, inserted, triggered>>
    BY <1>1 DEF Begin
  <2> QED
    BY <2>1, <2>2, <2>3 DEF FoundIsRecorded, Ahead, store
<1>2. ASSUME NEW r \in Requests, NEW g \in Signals, FoundAnomalous(r, g)
      PROVE  FoundIsRecorded'
  <2>1. /\ pc[r] = "detect" /\ pc'[r] = "record" /\ todo'[r] = todo[r]
        /\ metrics'[r] = Triggered(g)
        /\ UNCHANGED <<store, inserted, seen>>
    BY <1>2 DEF FoundAnomalous, Goto, TypeOK
  <2>2. \A q \in Requests \ {r} :
          /\ pc'[q] = pc[q] /\ todo'[q] = todo[q] /\ metrics'[q] = metrics[q]
          /\ triggered'[q] = triggered[q]
    BY <1>2, OneMoves DEF FoundAnomalous, Step, TypeOK
  <2>3. \A t \in triggered'[r] :
          \/ t \in triggered[r]
          \/ t[1] = Head(todo[r]) /\ \E i \in 1..Len(Triggered(g)) : Triggered(g)[i] = t[2]
    BY <1>2 DEF FoundAnomalous, TypeOK
  <2> QED
    BY <2>1, <2>2, <2>3 DEF FoundIsRecorded, Ahead, store
<1>3. ASSUME NEW r \in Requests, Record(r) PROVE FoundIsRecorded'
  <2> DEFINE s == Head(todo[r])
             m == Head(metrics[r])
             row == [by |-> r, service |-> s, metric |-> m]
  <2>1. /\ pc[r] = "record" /\ todo[r] # <<>> /\ metrics[r] # <<>>
        /\ NextMetric(r, "record") /\ UNCHANGED <<store, history>>
    BY <1>3 DEF Record, HasWork
  <2>2. /\ \A q \in Requests \ {r} :
             /\ pc'[q] = pc[q] /\ todo'[q] = todo[q] /\ metrics'[q] = metrics[q]
             /\ inserted'[q] = inserted[q]
        /\ inserted[r] \subseteq inserted'[r]
    BY <1>3, OneMoves DEF Record, Step, TypeOK
  <2>3. \/ \E a \in inserted'[r] : Is(a, s, m)
        \/ \E a \in rows : Is(a, s, m) /\ resolvedBy[a] \notin seen[r]
    <3>1. CASE HasActive(r, s, m)
      <4>1. None \notin seen[r]
        BY AnomalyAssumption DEF TypeOK
      <4> QED
        BY <2>2, <3>1, <4>1 DEF HasActive
    <3>2. CASE ~HasActive(r, s, m)
      <4>1. Is(row, s, m) /\ row \in inserted'[r]
        BY <1>3, <3>2 DEF Record, Is, TypeOK
      <4> QED
        BY <4>1
    <3> QED
      BY <3>1, <3>2
  <2>4. ASSUME NEW t \in triggered[r], Ahead(r, t[1], t[2]), t[2] # m
        PROVE  pc'[r] = "record" /\ Ahead(r, t[1], t[2])'
    BY <2>1, <2>4, AheadMoves
  <2>5. ASSUME NEW t \in triggered[r], Ahead(r, t[1], t[2]), t[2] = m
        PROVE  \/ \E a \in inserted'[r] : Is(a, t[1], t[2])
               \/ \E a \in rows : Is(a, t[1], t[2]) /\ resolvedBy[a] \notin seen[r]
    BY <2>3, <2>5 DEF Ahead
  <2> HIDE DEF s, m, row
  <2>6. ASSUME NEW t \in triggered[r]
        PROVE  \/ pc'[r] = "record" /\ Ahead(r, t[1], t[2])'
               \/ \E a \in inserted'[r] : Is(a, t[1], t[2])
               \/ \E a \in rows : Is(a, t[1], t[2]) /\ resolvedBy[a] \notin seen[r]
    <3>1. \/ Ahead(r, t[1], t[2])
          \/ \E a \in inserted[r] : Is(a, t[1], t[2])
          \/ \E a \in rows : Is(a, t[1], t[2]) /\ resolvedBy[a] \notin seen[r]
      BY <2>1 DEF FoundIsRecorded
    <3> QED
      BY <2>2, <2>4, <2>5, <3>1
  <2>7. ASSUME NEW q \in Requests \ {r}, NEW t \in triggered[q]
        PROVE  Ahead(q, t[1], t[2])' <=> Ahead(q, t[1], t[2])
    BY <2>2 DEF Ahead
  <2> QED
    BY <2>1, <2>2, <2>6, <2>7 DEF FoundIsRecorded, store, history
<1>4. ASSUME NEW r \in Requests, Commit(r) PROVE FoundIsRecorded'
  <2>1. /\ pc[r] = "commit" /\ UNCHANGED history
        /\ \A q \in Requests \ {r} :
             /\ pc'[q] = pc[q] /\ todo'[q] = todo[q] /\ metrics'[q] = metrics[q]
             /\ inserted'[q] = inserted[q]
    BY <1>4, OneMoves DEF Commit, Step, TypeOK
  <2>2. \A q \in Requests : r \notin seen[q] /\ None \notin seen[q]
    BY <1>4, AnomalyAssumption DEF OwnRows, Committed, Commit, TypeOK
  <2>3. ASSUME NEW q \in Requests, NEW a \in rows, resolvedBy[a] \notin seen[q]
        PROVE  a \in rows' /\ resolvedBy'[a] \notin seen[q]
    BY <1>4, <2>2, <2>3, CommitChanges
  <2>4. ASSUME NEW a \in inserted[r]
        PROVE  a \in rows' /\ resolvedBy'[a] \notin seen[r]
    BY <1>4, <2>2, CommitChanges
  <2>5. ASSUME NEW q \in Requests \ {r}, NEW t \in triggered[q]
        PROVE  Ahead(q, t[1], t[2])' <=> Ahead(q, t[1], t[2])
    BY <2>1 DEF Ahead
  <2> QED
    BY <2>1, <2>3, <2>4, <2>5 DEF FoundIsRecorded, history
<1>5. ASSUME NEW r \in Requests, RollBack(r) PROVE FoundIsRecorded'
  <2>1. /\ pc'[r] = "failed" /\ UNCHANGED <<store, history>>
        /\ \A q \in Requests \ {r} :
             /\ pc'[q] = pc[q] /\ todo'[q] = todo[q] /\ metrics'[q] = metrics[q]
             /\ inserted'[q] = inserted[q]
    BY <1>5, OneMoves DEF RollBack, Goto, TypeOK
  <2> QED
    BY <2>1 DEF FoundIsRecorded, Ahead, store, history
<1>6. ASSUME NEW r \in Requests,
             \/ Skip(r) \/ StartResolve(r) \/ FinishResolve(r)
             \/ \E g \in Signals : FoundNormal(r, g)
      PROVE  FoundIsRecorded'
  <2>1. /\ pc[r] # "record" /\ pc[r] # "failed"
        /\ UNCHANGED <<store, inserted, triggered, seen>>
    BY <1>6 DEF Skip, StartResolve, FinishResolve, FoundNormal, history
  <2>2. \A q \in Requests \ {r} :
          pc'[q] = pc[q] /\ todo'[q] = todo[q] /\ metrics'[q] = metrics[q]
    BY <1>6, OneMoves DEF Step
  <2> QED
    BY <2>1, <2>2 DEF FoundIsRecorded, Ahead, store
<1>7. CASE UNCHANGED vars
  BY <1>7 DEF vars, store, history, FoundIsRecorded, Ahead
<1> QED
  BY <1>1, <1>2, <1>3, <1>4, <1>5, <1>6, <1>7 DEF Next, Step
(* The induction for what is resolved.                                       *)
LEMMA RecoveryStep == IInv /\ [Next]_vars => NormalIsResolved'
<1> SUFFICES ASSUME IInv, [Next]_vars PROVE NormalIsResolved'
  OBVIOUS
<1> USE DEF IInv
<1>1. ASSUME NEW r \in Requests, Begin(r) PROVE NormalIsResolved'
  <2>1. recovered'[r] = {}
    BY <1>1 DEF Begin, NothingFoundYet
  <2>2. \A q \in Requests \ {r} :
          /\ pc'[q] = pc[q] /\ todo'[q] = todo[q] /\ metrics'[q] = metrics[q]
          /\ seen'[q] = seen[q]
    BY <1>1, OneMoves DEF Begin, Step, TypeOK
  <2>3. UNCHANGED <<store, resolving, recovered, aim>>
    BY <1>1 DEF Begin
  <2> QED
    BY <2>1, <2>2, <2>3 DEF NormalIsResolved, Ahead, store
<1>2. ASSUME NEW r \in Requests, NEW g \in Signals, FoundNormal(r, g)
      PROVE  NormalIsResolved'
  <2>1. /\ pc[r] = "detect" /\ pc'[r] = "resolve" /\ todo'[r] = todo[r]
        /\ metrics'[r] = Resolvable
        /\ recovered'[r] = recovered[r] \cup {Head(todo[r])}
        /\ UNCHANGED <<store, resolving, seen, aim>>
    BY <1>2 DEF FoundNormal, Goto, TypeOK
  <2>2. \A q \in Requests \ {r} :
          /\ pc'[q] = pc[q] /\ todo'[q] = todo[q] /\ metrics'[q] = metrics[q]
          /\ recovered'[q] = recovered[q]
    BY <1>2, OneMoves DEF FoundNormal, Step, TypeOK
  <2>3. \A m \in Statistical : Ahead(r, Head(todo[r]), m)'
    BY <2>1, ResolvableType DEF Ahead
  <2> QED
    BY <2>1, <2>2, <2>3 DEF NormalIsResolved, Ahead, store
<1>3. ASSUME NEW r \in Requests, StartResolve(r) PROVE NormalIsResolved'
  <2>1. /\ pc[r] = "resolve" /\ pc'[r] = "lock"
        /\ UNCHANGED <<store, todo, metrics, resolving, recovered, seen>>
        /\ aim'[r] = Matching(Head(todo[r]), Head(metrics[r]))
    BY <1>3 DEF StartResolve, Goto, TypeOK, history
  <2>2. \A q \in Requests \ {r} : pc'[q] = pc[q] /\ aim'[q] = aim[q]
    BY <1>3 DEF StartResolve, Goto, TypeOK
  <2>3. \A row \in rows :
          \/ resolvedBy[row] # None
          \/ row.service # Head(todo[r]) \/ row.metric # Head(metrics[r])
          \/ row \in aim'[r]
    BY <2>1 DEF Matching, Is
  <2> QED
    BY <2>1, <2>2, <2>3 DEF NormalIsResolved, Ahead, store
<1>4. ASSUME NEW r \in Requests, FinishResolve(r) PROVE NormalIsResolved'
  <2>1. /\ pc[r] = "lock" /\ todo[r] # <<>> /\ metrics[r] # <<>>
        /\ NextMetric(r, "resolve") /\ UNCHANGED <<store, history>>
        /\ resolving'[r] =
             resolving[r] \cup (aim[r] \cap Matching(Head(todo[r]), Head(metrics[r])))
    BY <1>4 DEF FinishResolve, HasWork, TypeOK
  <2>2. \A q \in Requests \ {r} :
          /\ pc'[q] = pc[q] /\ todo'[q] = todo[q] /\ metrics'[q] = metrics[q]
          /\ resolving'[q] = resolving[q] /\ aim'[q] = aim[q]
    BY <1>4, OneMoves DEF FinishResolve, Step, TypeOK
  <2>3. ASSUME NEW row \in rows, Ahead(r, row.service, row.metric),
               row.metric = Head(metrics[r]), row \in aim[r]
        PROVE  resolvedBy[row] # None \/ row \in resolving'[r]
    BY <2>1, <2>3 DEF Matching, Is, Ahead
  <2>4. ASSUME NEW row \in rows, Ahead(r, row.service, row.metric),
               row.metric # Head(metrics[r])
        PROVE  pc'[r] = "resolve" /\ Ahead(r, row.service, row.metric)'
    BY <2>1, <2>4, AheadMoves
  <2>5. ASSUME NEW row \in rows, row.service \in recovered[r], row.by \in seen[r],
               row.metric \in Statistical
        PROVE  \/ resolvedBy[row] # None
               \/ row \in resolving'[r]
               \/ pc'[r] = "resolve" /\ Ahead(r, row.service, row.metric)'
    <3>1. \/ resolvedBy[row] # None
          \/ row \in resolving[r]
          \/ /\ Ahead(r, row.service, row.metric)
             /\ row.metric = Head(metrics[r]) => row \in aim[r]
      BY <2>1, <2>5 DEF NormalIsResolved
    <3> QED
      BY <2>1, <2>3, <2>4, <3>1
  <2>6. ASSUME NEW q \in Requests \ {r}, NEW row \in rows
        PROVE  Ahead(q, row.service, row.metric)' <=> Ahead(q, row.service, row.metric)
    BY <2>2 DEF Ahead
  <2>7. UNCHANGED <<rows, resolvedBy, seen, recovered>>
    BY <2>1 DEF store, history
  <2>8. ASSUME NEW q \in Requests, NEW row \in rows,
               row.service \in recovered[q], row.by \in seen[q],
               row.metric \in Statistical
        PROVE  \/ pc'[q] = "failed"
               \/ resolvedBy[row] # None
               \/ row \in resolving'[q]
               \/ /\ pc'[q] \in {"resolve", "lock"}
                  /\ Ahead(q, row.service, row.metric)'
                  /\ pc'[q] = "lock" /\ row.metric = Head(metrics'[q]) => row \in aim'[q]
    <3>1. CASE q = r
      BY <2>5, <2>8, <3>1
    <3>2. CASE q # r
      BY <2>2, <2>6, <2>8, <3>2 DEF NormalIsResolved
    <3> QED
      BY <3>1, <3>2
  <2> QED
    BY <2>7, <2>8 DEF NormalIsResolved
<1>5. ASSUME NEW r \in Requests, Commit(r) PROVE NormalIsResolved'
  <2>1. /\ pc[r] = "commit" /\ UNCHANGED <<history, aim>>
        /\ \A q \in Requests \ {r} :
             /\ pc'[q] = pc[q] /\ todo'[q] = todo[q] /\ metrics'[q] = metrics[q]
             /\ resolving'[q] = resolving[q]
    BY <1>5, OneMoves DEF Commit, Step, TypeOK
  <2>2. /\ \A q \in Requests : r \notin seen[q]
        /\ \A row \in inserted[r] : row.by = r
        /\ r # None
    BY <1>5, AnomalyAssumption DEF OwnRows, Committed, Commit
  <2>3. \A q \in Requests : \A row \in rows' : row.by \in seen[q] => row \in rows
    BY <1>5, <2>2, CommitChanges
  <2>4. \A row \in rows :
          resolvedBy[row] # None \/ row \in resolving[r] => resolvedBy'[row] # None
    BY <1>5, <2>2, CommitChanges
  <2>5. ASSUME NEW q \in Requests \ {r}, NEW row \in rows
        PROVE  Ahead(q, row.service, row.metric)' <=> Ahead(q, row.service, row.metric)
    BY <2>1 DEF Ahead
  <2> QED
    BY <2>1, <2>3, <2>4, <2>5 DEF NormalIsResolved, history
<1>6. ASSUME NEW r \in Requests, RollBack(r) PROVE NormalIsResolved'
  <2>1. /\ pc'[r] = "failed" /\ UNCHANGED <<store, history>>
        /\ \A q \in Requests \ {r} :
             /\ pc'[q] = pc[q] /\ todo'[q] = todo[q] /\ metrics'[q] = metrics[q]
             /\ resolving'[q] = resolving[q] /\ aim'[q] = aim[q]
    BY <1>6, OneMoves DEF RollBack, Goto, TypeOK
  <2> QED
    BY <2>1 DEF NormalIsResolved, Ahead, store, history
<1>7. ASSUME NEW r \in Requests,
             \/ Skip(r) \/ Record(r)
             \/ \E g \in Signals : FoundAnomalous(r, g)
      PROVE  NormalIsResolved'
  <2>1. /\ pc[r] \notin {"resolve", "lock", "failed"}
        /\ UNCHANGED <<store, resolving, recovered, seen, aim>>
    BY <1>7 DEF Skip, Record, FoundAnomalous, history
  <2>2. \A q \in Requests \ {r} :
          pc'[q] = pc[q] /\ todo'[q] = todo[q] /\ metrics'[q] = metrics[q]
    BY <1>7, OneMoves DEF Step
  <2> QED
    BY <2>1, <2>2 DEF NormalIsResolved, Ahead, store
<1>8. CASE UNCHANGED vars
  BY <1>8 DEF vars, store, history, NormalIsResolved, Ahead
<1> QED
  BY <1>1, <1>2, <1>3, <1>4, <1>5, <1>6, <1>7, <1>8 DEF Next, Step

(* A request that has not begun has found nothing.                           *)
LEMMA IdleStep ==
    TypeOK /\ HasWork /\ NothingFoundYet /\ [Next]_vars => NothingFoundYet'
<1> SUFFICES ASSUME TypeOK, HasWork, NothingFoundYet, [Next]_vars PROVE NothingFoundYet'
  OBVIOUS
<1>1. ASSUME NEW r \in Requests, Step(r) \/ RollBack(r) PROVE NothingFoundYet'
  <2>1. /\ pc'[r] # "idle"
        /\ \A q \in Requests \ {r} : pc'[q] = pc[q]
    BY <1>1, OneMoves
  <2>2. \A q \in Requests \ {r} :
          triggered'[q] = triggered[q] /\ recovered'[q] = recovered[q]
    BY <1>1 DEF Step, Begin, Skip, FoundAnomalous, FoundNormal, Record, StartResolve,
                FinishResolve, Commit, RollBack, history, TypeOK
  <2> QED
    BY <2>1, <2>2 DEF NothingFoundYet
<1>2. CASE UNCHANGED vars
  BY <1>2 DEF vars, history, NothingFoundYet
<1> QED
  BY <1>1, <1>2 DEF Next

----------------------------------------------------------------------------

(* The inductive invariant holds in every reachable state.                   *)
LEMMA Invariance == Spec => []IInv
<1>1. Init => IInv
  BY DEF Init, IInv, TypeOK, HasWork, OwnRows, LocksAreExclusive, NothingFoundYet,
         NoneSeenActive, FoundIsRecorded, NormalIsResolved, InProgress
<1>2. IInv /\ [Next]_vars => IInv'
  BY TypeStep, OwnStep, LockStep, DuplicateStep, RecordStep, RecoveryStep, IdleStep
     DEF IInv
<1> QED
  BY <1>1, <1>2, PTL DEF Spec

(* Every reachable state is well typed: only a request in progress holds row *)
(* locks or uncommitted rows.                                                *)
THEOREM TypeCorrect == Spec => []TypeOK
<1>1. IInv => TypeOK
  BY DEF IInv
<1> QED
  BY <1>1, Invariance, PTL

(* Two active rows for one service and metric come from overlapping requests.*)
THEOREM OnlyRacesDuplicate == Spec => []DuplicatesOverlap
<1>1. IInv => DuplicatesOverlap
  BY DEF IInv, NoneSeenActive, DuplicatesOverlap, Active, Is
<1> QED
  BY <1>1, Invariance, PTL

(* What a committed request found anomalous has a row no earlier request     *)
(* resolved.                                                                 *)
THEOREM IncidentsAreRecorded == Spec => []TriggeredIsRecorded
<1>1. IInv => TriggeredIsRecorded
  BY DEF IInv, FoundIsRecorded, TriggeredIsRecorded, Committed, TypeOK, InProgress
<1> QED
  BY <1>1, Invariance, PTL

(* A committed request that found a service normal leaves none of its        *)
(* earlier statistical anomalies active.                                     *)
THEOREM RecoveriesResolve == Spec => []RecoveryResolves
<1>1. IInv => RecoveryResolves
  BY DEF IInv, NormalIsResolved, RecoveryResolves, Active, Committed, TypeOK, InProgress
<1> QED
  BY <1>1, Invariance, PTL

(* The time of recovery is written once: the row locks and the second        *)
(* evaluation of the WHERE see to it.                                        *)
THEOREM RecoveryTimeIsFinal == Spec => ResolvedOnce
<1>1. IInv /\ [Next]_vars =>
        [\A row \in rows : resolvedBy[row] # None =>
           resolvedBy'[row] = resolvedBy[row]]_store
  <2> SUFFICES ASSUME IInv, [Next]_vars
               PROVE  [\A row \in rows : resolvedBy[row] # None =>
                         resolvedBy'[row] = resolvedBy[row]]_store
    OBVIOUS
  <2>1. ASSUME NEW r \in Requests, Commit(r), NEW row \in rows, resolvedBy[row] # None
        PROVE  resolvedBy'[row] = resolvedBy[row]
    BY <2>1, CommitChanges DEF IInv
  <2>2. CASE UNCHANGED vars
    BY <2>2 DEF vars
  <2> QED
    BY <2>1, <2>2, OnlyCommitWrites DEF Next
<1> QED
  BY <1>1, Invariance, PTL DEF Spec, ResolvedOnce
=============================================================================

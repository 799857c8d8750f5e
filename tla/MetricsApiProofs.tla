-------------------------- MODULE MetricsApiProofs --------------------------
(* Theorems about MetricsApi for every set of services and reads, every      *)
(* order of the services and every TTL.                                      *)
EXTENDS MetricsApi, FiniteSetTheorems, SequenceTheorems, TLAPS

Working == {"aggregate", "snapshot", "invalidate", "endpoints"}
Aggregating == {"snapshot", "invalidate", "endpoints"}
Answering == {"invalidateOverview", "report", "store", "commit"}

(* The services a read has not finished.                                     *)
Remaining(r) == {todo[r][i] : i \in 1..Len(todo[r])}

(* What r has aggregated for s reflects the telemetry there was when it      *)
(* began: its own rows and health, or those of a read that came first.       *)
Aggregated(r, s) ==
    /\ Bigger(newest[s], own[r][s]) >= floor[r][s]
    /\ assigned[r][s].of >= floor[r][s]

(* A read works on its services one after the other, and answers after that. *)
InTurn(r) ==
    /\ pc[r] \in Working => todo[r] # <<>> /\ Kind[r] # "health"
    /\ pc[r] \in Answering => todo[r] = <<>>
    /\ pc[r] = "store" => response[r] \in Entry

(* What there was when a read began is there as long as it runs.             *)
FloorIsPast(r) ==
    pc[r] \in InProgress => \A s \in Services : floor[r][s] <= version[s]

(* What it has finished, and what it is about to store, is aggregated.       *)
FinishedIsAggregated(r) ==
    pc[r] \in Working \cup Answering =>
      \A s \in About(r) : Aggregated(r, s) \/ s \in Remaining(r)

HeadIsAggregated(r) ==
    pc[r] \in Aggregating =>
      Aggregated(r, Head(todo[r])) /\ assigned[r][Head(todo[r])].of > 0

AsFreshAsPromised(r, e, s) ==
    IF Kind[r] = "overview" THEN FreshOrAnothers(e, s) ELSE Fresh(e, s)

AnswerIsFresh(r) ==
    pc[r] = "store" => \A s \in About(r) : AsFreshAsPromised(r, response[r], s)

(* A health that was never computed is the one of the service's creation,    *)
(* and a session that holds it has not changed it.                           *)
SessionIsComputed(r) ==
    \A s \in Services : assigned[r][s].of = 0 =>
      assigned[r][s] = loaded[r][s] /\ assigned[r][s].at = 0

ReadIsRight(r) ==
    /\ InTurn(r) /\ FloorIsPast(r) /\ SessionIsComputed(r)
    /\ Kind[r] # "health" =>
         FinishedIsAggregated(r) /\ HeadIsAggregated(r) /\ AnswerIsFresh(r)

ReadsAreRight == \A r \in Reads : ReadIsRight(r)

ColumnIsComputed == \A s \in Services : column[s].of = 0 => column[s].at = 0

(* A services row is held by a read that has looked its answer up in vain.   *)
LocksAreHeld ==
    \A s \in Services :
      rowLock[s] # None => rowLock[s] \in Reads /\ pc[rowLock[s]] \in Working \cup Answering

(* The inductive invariant.                                                  *)
IInv ==
    /\ TypeOK /\ ReadsAreRight /\ ColumnIsComputed /\ LocksAreHeld
    /\ CachedAnswersAreFresh

----------------------------------------------------------------------------
(* A step of one read, its handler's or a failure.                           *)
StepOf(r) == Step(r) \/ RollBack(r)

(* What the step of r leaves of the other reads.                             *)
OthersStay(r) ==
    \A q \in Reads \ {r} :
      /\ pc'[q] = pc[q] /\ todo'[q] = todo[q] /\ floor'[q] = floor[q]
      /\ loaded'[q] = loaded[q] /\ assigned'[q] = assigned[q] /\ own'[q] = own[q]
      /\ response'[q] = response[q]

(* The services in the order of their names are a sequence of all services.  *)
LEMMA AllServices ==
    /\ ByName \in Seq(Services)
    /\ {ByName[i] : i \in 1..Len(ByName)} = Services
    /\ Services # {} => ByName # <<>>
<1>1. Cardinality(Services) \in Nat
  BY FS_CardinalityType, MetricsAssumption
<1>2. ByName \in Seq(Services) /\ Len(ByName) = Cardinality(Services)
  <2> DEFINE n == Cardinality(Services)
  <2>1. n \in Nat /\ ByName \in [1..n -> Services]
    BY <1>1, MetricsAssumption
  <2> HIDE DEF n
  <2>2. ByName \in Seq(Services)
    BY <2>1, SeqDef
  <2>3. Len(ByName) = n
    BY <2>1, <2>2
  <2> QED
    BY <2>2, <2>3 DEF n
<1>3. \A i \in 1..Len(ByName) : ByName[i] \in Services
  BY <1>2
<1>4. \A s \in Services : \E i \in 1..Len(ByName) : ByName[i] = s
  BY <1>2, MetricsAssumption
<1>5. {ByName[i] : i \in 1..Len(ByName)} = Services
  BY <1>3, <1>4
<1>6. ByName = <<>> => 1..Len(ByName) = {}
  OBVIOUS
<1>7. Services # {} => ByName # <<>>
  BY <1>4, <1>6, Zenon
<1> QED
  BY <1>2, <1>5, <1>7

(* The services of a list are its first one and those of its tail.           *)
LEMMA TailOf ==
    ASSUME NEW q \in Seq(Services), q # <<>>
    PROVE  /\ Head(q) \in Services /\ Tail(q) \in Seq(Services)
           /\ Len(Tail(q)) = Len(q) - 1 /\ Len(q) \in Nat \ {0}
           /\ \A i \in 1..Len(q) : q[i] # Head(q) =>
                \E j \in 1..Len(Tail(q)) : Tail(q)[j] = q[i]
<1>1. /\ Head(q) \in Services /\ Tail(q) \in Seq(Services)
      /\ Len(Tail(q)) = Len(q) - 1
      /\ \A i \in 1..Len(Tail(q)) : Tail(q)[i] = q[i + 1]
  BY HeadTailProperties
<1>2. Len(q) \in Nat \ {0} /\ Head(q) = q[1]
  OBVIOUS
<1>3. ASSUME NEW i \in 1..Len(q), q[i] # Head(q)
      PROVE  \E j \in 1..Len(Tail(q)) : Tail(q)[j] = q[i]
  <2>1. i - 1 \in 1..Len(Tail(q)) /\ (i - 1) + 1 = i
    BY <1>1, <1>2, <1>3
  <2> QED
    BY <1>1, <2>1
<1> QED
  BY <1>1, <1>2, <1>3

(* A list is over when its tail is empty.                                    *)
LEMMA EmptyTail ==
    ASSUME NEW q \in Seq(Services), q # <<>>
    PROVE  Tail(q) = <<>> <=> Len(q) = 1
<1>1. Tail(q) \in Seq(Services) /\ Len(Tail(q)) = Len(q) - 1 /\ Len(q) \in Nat \ {0}
  BY TailOf
<1>2. Tail(q) = <<>> <=> Len(Tail(q)) = 0
  BY <1>1
<1> QED
  BY <1>1, <1>2

(* The specification begins in the invariant.                                *)
LEMMA InitIInv == Init => IInv
<1> SUFFICES ASSUME Init PROVE IInv
  OBVIOUS
<1>1. 0 \in Versions /\ 0 \in 0..MaxTime
  BY MetricsAssumption DEF Versions
<1>2. column \in [Services -> Computed] /\ newest \in [Services -> Versions]
  BY <1>1, MetricsAssumption DEF Init, Computed, Versions
<1>u. Unread \in [Services -> Computed] /\ NoVersion \in [Services -> Versions]
  BY <1>1 DEF Unread, NoVersion, Computed
<1>3. version \in [Services -> Versions]
  BY MetricsAssumption DEF Init, Versions
<1>4. TypeOK
  BY <1>1, <1>2, <1>3, <1>u DEF Init, TypeOK, Closed
<1>5. \A r \in Reads : pc[r] \notin InProgress /\ pc[r] \notin Working /\ pc[r] \notin Answering
  BY DEF Init, InProgress, Working, Answering
<1>6. \A r \in Reads : pc[r] # "store" /\ pc[r] \notin Aggregating /\ pc[r] \notin Working \cup Answering
  BY <1>5 DEF Aggregating, Working, Answering
<1>7. \A r \in Reads : assigned[r] = Unread /\ loaded[r] = Unread
  BY DEF Init
<1>z. \A s \in Services : Unread[s].at = 0
  BY DEF Unread
<1>8. \A s \in Services : column[s].at = 0
  BY DEF Init
<1>9. ReadsAreRight
  BY <1>5, <1>6, <1>7, <1>z, Zenon
  DEF ReadsAreRight, ReadIsRight, InTurn, FloorIsPast, SessionIsComputed,
      FinishedIsAggregated, HeadIsAggregated, AnswerIsFresh
<1>10. LocksAreHeld /\ CachedAnswersAreFresh
  BY DEF Init, LocksAreHeld, CachedAnswersAreFresh
<1> QED
  BY <1>4, <1>8, <1>9, <1>10 DEF IInv, ColumnIsComputed

(* A step of one read leaves the others where they are.                      *)
LEMMA OthersAreLeft ==
    ASSUME TypeOK, NEW r \in Reads, StepOf(r)
    PROVE  OthersStay(r)
<1>1. CASE Begin(r)
  BY <1>1 DEF Begin, Load, Goto, OthersStay, TypeOK
<1>2. CASE Hit(r)
  BY <1>2 DEF Hit, Close, Goto, OthersStay, TypeOK
<1>3. CASE Miss(r)
  BY <1>3 DEF Miss, Load, Goto, OthersStay, TypeOK
<1>4. CASE AggregateNothing(r)
  BY <1>4 DEF AggregateNothing, NextService, Goto, OthersStay, TypeOK
<1>5. CASE Aggregate(r)
  BY <1>5 DEF Aggregate, Goto, OthersStay, TypeOK
<1>6. CASE WriteSnapshot(r)
  BY <1>6 DEF WriteSnapshot, Goto, OthersStay, TypeOK
<1>7. CASE Invalidate(r)
  BY <1>7 DEF Invalidate, Goto, OthersStay, TypeOK, session
<1>8. CASE AggregateEndpoints(r)
  BY <1>8 DEF AggregateEndpoints, NextService, Goto, OthersStay, TypeOK
<1>9. CASE InvalidateOverview(r)
  BY <1>9 DEF InvalidateOverview, Goto, OthersStay, TypeOK, session
<1>10. CASE Report(r)
  BY <1>10 DEF Report, Goto, OthersStay, TypeOK, session
<1>11. CASE Store(r)
  BY <1>11 DEF Store, Goto, OthersStay, TypeOK, session
<1>12. CASE Commit(r)
  BY <1>12 DEF Commit, Close, Goto, OthersStay, TypeOK
<1>13. CASE RollBack(r)
  BY <1>13 DEF RollBack, Close, Goto, OthersStay, TypeOK
<1> QED
  BY <1>1, <1>2, <1>3, <1>4, <1>5, <1>6, <1>7, <1>8, <1>9, <1>10, <1>11, <1>12, <1>13
  DEF StepOf, Step

(* Telemetry and newer rows do not make a read that stays where it is wrong. *)
LEMMA StayingRight ==
    ASSUME TypeOK, TypeOK', NEW q \in Reads, ReadIsRight(q),
           pc'[q] = pc[q], todo'[q] = todo[q], floor'[q] = floor[q],
           loaded'[q] = loaded[q], assigned'[q] = assigned[q], own'[q] = own[q],
           response'[q] = response[q],
           \A s \in Services : version'[s] >= version[s] /\ newest'[s] >= newest[s]
    PROVE  ReadIsRight(q)'
<1>1. InTurn(q)' /\ SessionIsComputed(q)' /\ AnswerIsFresh(q) = AnswerIsFresh(q)'
  BY DEF ReadIsRight, InTurn, SessionIsComputed, AnswerIsFresh, AsFreshAsPromised, About,
     Fresh, FreshOrAnothers, CountsAll, ShowsFresh, ShowsAnothers, Level
<1>2. \A s \in Services : /\ floor[q][s] \in Nat /\ version[s] \in Nat /\ version'[s] \in Nat
                          /\ newest[s] \in Nat /\ newest'[s] \in Nat /\ own[q][s] \in Nat
  BY MetricsAssumption DEF TypeOK, Versions
<1>3. FloorIsPast(q)'
  BY <1>2 DEF ReadIsRight, FloorIsPast
<1>4. ASSUME NEW s \in Services, Aggregated(q, s) PROVE Aggregated(q, s)'
  BY <1>2, <1>4 DEF Aggregated, Bigger
<1>5. About(q) \subseteq Services
  BY MetricsAssumption DEF About
<1>6. FinishedIsAggregated(q) => FinishedIsAggregated(q)'
  <2> SUFFICES ASSUME FinishedIsAggregated(q), (pc[q] \in Working \cup Answering)',
                      NEW s \in About(q)
               PROVE  Aggregated(q, s)' \/ s \in Remaining(q)'
    BY DEF FinishedIsAggregated, About
  <2>1. Aggregated(q, s) \/ s \in Remaining(q)
    BY DEF FinishedIsAggregated
  <2>2. Remaining(q)' = Remaining(q)
    BY DEF Remaining
  <2> QED
    BY <1>4, <1>5, <2>1, <2>2
<1>7. ASSUME Kind[q] # "health", HeadIsAggregated(q) PROVE HeadIsAggregated(q)'
  <2> SUFFICES ASSUME (pc[q] \in Aggregating)'
               PROVE  Aggregated(q, Head(todo[q]))' /\ (assigned[q][Head(todo[q])].of > 0)'
    BY DEF HeadIsAggregated
  <2>1. todo[q] \in Seq(Services) /\ todo[q] # <<>>
    BY DEF ReadIsRight, InTurn, Aggregating, Working, TypeOK
  <2>2. Head(todo[q]) \in Services /\ Head(todo'[q]) = Head(todo[q])
    BY <2>1, TailOf
  <2>3. Aggregated(q, Head(todo[q])) /\ assigned[q][Head(todo[q])].of > 0
    BY <1>7 DEF HeadIsAggregated
  <2> DEFINE h == Head(todo[q])
  <2>4. \A s \in Services : Aggregated(q, s) => Bigger(newest'[s], own'[q][s]) >= floor'[q][s] /\ assigned'[q][s].of >= floor'[q][s]
    BY <1>4 DEF Aggregated
  <2> QED
    BY <2>2, <2>3, <2>4 DEF Aggregated
<1> QED
  BY <1>1, <1>3, <1>6, <1>7 DEF ReadIsRight

----------------------------------------------------------------------------
(* The types, but for the holders of the rows.                               *)
TablesAreTyped ==
    /\ now \in 0..MaxTime
    /\ version \in [Services -> Versions]
    /\ newest \in [Services -> Versions]
    /\ column \in [Services -> Computed]
    /\ metrics \in [Services -> Entry \cup {None}]
    /\ overview \in Entry \cup {None}
    /\ health \in [Services -> Snapshot \cup {None}]

SessionsAreTyped ==
    /\ pc \in [Reads -> Closed \cup InProgress]
    /\ todo \in [Reads -> Seq(Services)]
    /\ floor \in [Reads -> [Services -> Versions]]
    /\ loaded \in [Reads -> [Services -> Computed]]
    /\ assigned \in [Reads -> [Services -> Computed]]
    /\ own \in [Reads -> [Services -> Versions]]
    /\ response \in [Reads -> Entry \cup {None}]

(* The next service of the list, or the answer.                              *)
LEMMA NextServiceMoves ==
    ASSUME TypeOK, NEW r \in Reads, todo[r] # <<>>, NextService(r)
    PROVE  /\ todo' \in [Reads -> Seq(Services)]
           /\ pc' \in [Reads -> Closed \cup InProgress]
           /\ pc'[r] \in Working \cup Answering
           /\ pc'[r] \in {"aggregate", "invalidateOverview", "report"}
           /\ pc'[r] = "aggregate" <=> todo'[r] # <<>>
           /\ todo'[r] = Tail(todo[r])
           /\ \A q \in Reads \ {r} : pc'[q] = pc[q]
<1>1. todo[r] \in Seq(Services) /\ todo' = [todo EXCEPT ![r] = Tail(todo[r])]
  BY DEF TypeOK, NextService
<1>2. Tail(todo[r]) \in Seq(Services) /\ (Tail(todo[r]) = <<>> <=> Len(todo[r]) = 1)
  BY <1>1, TailOf, EmptyTail
<1>3. todo' \in [Reads -> Seq(Services)] /\ todo'[r] = Tail(todo[r])
  BY <1>1, <1>2 DEF TypeOK
<1>4. Finished(r) \in {"invalidateOverview", "report"}
  BY DEF Finished
<1>5. /\ pc'[r] = IF Len(todo[r]) = 1 THEN Finished(r) ELSE "aggregate"
      /\ \A q \in Reads \ {r} : pc'[q] = pc[q]
  BY DEF TypeOK, NextService, Goto
<1>6. pc'[r] \in {"aggregate", "invalidateOverview", "report"}
  BY <1>4, <1>5
<1>7. pc' \in [Reads -> Closed \cup InProgress]
  BY <1>4 DEF TypeOK, NextService, Goto, InProgress
<1> QED
  BY <1>2, <1>3, <1>4, <1>5, <1>6, <1>7 DEF Working, Answering

(* Publishing a health changes its time and nothing else of the session.     *)
LEMMA Published ==
    ASSUME TypeOK, NEW r \in Reads, NEW h \in Services,
           assigned' = [assigned EXCEPT ![r][h].at = now]
    PROVE  /\ assigned' \in [Reads -> [Services -> Computed]]
           /\ assigned'[r][h].of = assigned[r][h].of
           /\ \A s \in Services \ {h} : assigned'[r][s] = assigned[r][s]
<1> DEFINE e == [assigned[r][h] EXCEPT !.at = now]
           f == [assigned[r] EXCEPT ![h] = e]
<1>1. assigned[r] \in [Services -> Computed] /\ assigned[r][h] \in Computed
  BY DEF TypeOK
<1>2. e \in Computed /\ e.of = assigned[r][h].of
  BY <1>1 DEF Computed, TypeOK
<1>3. assigned' = [assigned EXCEPT ![r] = f]
  OBVIOUS
<1> HIDE DEF e
<1>4. f \in [Services -> Computed] /\ f[h] = e /\ \A s \in Services \ {h} : f[s] = assigned[r][s]
  BY <1>1, <1>2
<1> HIDE DEF f
<1>5. assigned'[r] = f /\ assigned' \in [Reads -> [Services -> Computed]]
  BY <1>3, <1>4 DEF TypeOK
<1> QED
  BY <1>2, <1>4, <1>5

(* What an answer shows is a health.                                         *)
LEMMA ShownIsTyped ==
    ASSUME TypeOK, NEW r \in Reads
    PROVE  Shown(r) \in [Services -> Computed]
<1>1. /\ assigned[r] \in [Services -> Computed] /\ column \in [Services -> Computed]
  BY DEF TypeOK
<1>2. \A s \in Services : Reloaded(r, s) \in Computed
  BY <1>1 DEF Reloaded
<1> QED
  BY <1>1, <1>2 DEF Shown

(* What a session selects.                                                   *)
LEMMA LoadIsTyped ==
    ASSUME TypeOK, NEW r \in Reads, Load(r)
    PROVE  /\ loaded' \in [Reads -> [Services -> Computed]]
           /\ assigned' \in [Reads -> [Services -> Computed]]
           /\ assigned'[r] = loaded'[r]
           /\ \A s \in Services : loaded'[r][s] = IF s \in About(r) THEN column[s] ELSE Unread[s]
<1> DEFINE rows == [s \in Services |-> IF s \in About(r) THEN column[s] ELSE Unread[s]]
<1>1. Unread \in [Services -> Computed]
  BY MetricsAssumption DEF Unread, Computed, Versions
<1>2. rows \in [Services -> Computed]
  BY <1>1 DEF TypeOK
<1>3. loaded' = [loaded EXCEPT ![r] = rows] /\ assigned' = [assigned EXCEPT ![r] = rows]
  BY DEF Load
<1>4. \A s \in Services : rows[s] = IF s \in About(r) THEN column[s] ELSE Unread[s]
  OBVIOUS
<1> HIDE DEF rows
<1> QED
  BY <1>2, <1>3, <1>4 DEF TypeOK

(* A session that is closed holds nothing.                                   *)
LEMMA CloseIsTyped ==
    ASSUME TypeOK, NEW r \in Reads, NEW o \in Closed, Close(r, o)
    PROVE  /\ SessionsAreTyped' /\ pc'[r] = o
           /\ loaded'[r] = Unread /\ assigned'[r] = Unread
<1>1. Unread \in [Services -> Computed] /\ NoVersion \in [Services -> Versions]
  BY MetricsAssumption DEF Unread, NoVersion, Computed, Versions
<1>2. <<>> \in Seq(Services)
  OBVIOUS
<1> QED
  BY <1>1, <1>2 DEF Close, Goto, TypeOK, SessionsAreTyped

(* The reads' steps keep the types of their sessions.                        *)
LEMMA SessionsStayTyped ==
    ASSUME IInv, NEW r \in Reads, StepOf(r)
    PROVE  SessionsAreTyped'
<1> USE DEF SessionsAreTyped, TypeOK, Closed, InProgress, Goto
<1>1. CASE Begin(r)
  <2> DEFINE f == [s \in Services |-> IF s \in About(r) THEN version[s] ELSE 0]
  <2>1. f \in [Services -> Versions]
    BY DEF IInv, Versions
  <2>2. floor' = [floor EXCEPT ![r] = f]
    BY <1>1 DEF Begin
  <2> HIDE DEF f
  <2>3. floor' \in [Reads -> [Services -> Versions]]
    BY <2>1, <2>2 DEF IInv
  <2>4. loaded' \in [Reads -> [Services -> Computed]] /\ assigned' \in [Reads -> [Services -> Computed]]
    BY <1>1, LoadIsTyped DEF IInv, Begin
  <2> QED
    BY <1>1, <2>3, <2>4 DEF IInv, Begin
<1>2. CASE Hit(r)
  BY <1>2, CloseIsTyped DEF IInv, Hit
<1>3. CASE Miss(r)
  <2>1. /\ <<Target[r]>> \in Seq(Services) /\ Order(r) \in Seq(Services)
        /\ <<>> \in Seq(Services)
    BY MetricsAssumption, AllServices DEF Order
  <2>2. todo' \in [Reads -> Seq(Services)]
    BY <1>3, <2>1, MetricsAssumption DEF IInv, Miss
  <2>3. loaded' \in [Reads -> [Services -> Computed]] /\ assigned' \in [Reads -> [Services -> Computed]]
    BY <1>3, LoadIsTyped DEF IInv, Miss
  <2>4. pc' \in [Reads -> Closed \cup InProgress]
    BY <1>3 DEF IInv, Miss
  <2> QED
    BY <1>3, <2>2, <2>3, <2>4 DEF IInv, Miss
<1>4. CASE AggregateNothing(r)
  <2>1. todo[r] # <<>>
    BY <1>4 DEF IInv, ReadsAreRight, ReadIsRight, InTurn, AggregateNothing, Working
  <2>2. todo' \in [Reads -> Seq(Services)] /\ pc' \in [Reads -> Closed \cup InProgress]
    BY <1>4, <2>1, NextServiceMoves DEF IInv, AggregateNothing
  <2> QED
    BY <1>4, <2>2 DEF IInv, AggregateNothing
<1>5. CASE Aggregate(r)
  <2>1. todo[r] # <<>>
    BY <1>5 DEF IInv, ReadsAreRight, ReadIsRight, InTurn, Aggregate, Working
  <2>2. Head(todo[r]) \in Services
    BY <2>1, TailOf DEF IInv
  <2>3. [of |-> version[Head(todo[r])], at |-> now] \in Computed
    BY <2>2 DEF IInv, Computed
  <2> QED
    BY <1>5, <2>2, <2>3 DEF IInv, Aggregate
<1>6. CASE WriteSnapshot(r)
  <2>1. todo[r] # <<>>
    BY <1>6 DEF IInv, ReadsAreRight, ReadIsRight, InTurn, WriteSnapshot, Working
  <2>2. Head(todo[r]) \in Services
    BY <2>1, TailOf DEF IInv
  <2>3. assigned' \in [Reads -> [Services -> Computed]]
    BY <1>6, <2>2, Published DEF IInv, WriteSnapshot
  <2> QED
    BY <1>6, <2>3 DEF IInv, WriteSnapshot
<1>7. CASE Invalidate(r)
  BY <1>7 DEF IInv, Invalidate, session
<1>8. CASE AggregateEndpoints(r)
  <2>1. todo[r] # <<>>
    BY <1>8 DEF IInv, ReadsAreRight, ReadIsRight, InTurn, AggregateEndpoints, Working
  <2>2. todo' \in [Reads -> Seq(Services)] /\ pc' \in [Reads -> Closed \cup InProgress]
    BY <1>8, <2>1, NextServiceMoves DEF IInv, AggregateEndpoints
  <2> QED
    BY <1>8, <2>2 DEF IInv, AggregateEndpoints
<1>9. CASE InvalidateOverview(r)
  BY <1>9 DEF IInv, InvalidateOverview, session
<1>10. CASE Report(r)
  <2> DEFINE e == [shows |-> [s \in Services |-> IF s \in About(r)
                                             THEN Bigger(newest[s], own[r][s]) ELSE 0],
                   floor |-> floor[r], health |-> Shown(r), began |-> loaded[r], drop |-> 0]
  <2>1. e \in Entry
    BY ShownIsTyped DEF IInv, Entry, Bigger, Versions
  <2>2. response' = [response EXCEPT ![r] = e]
    BY <1>10 DEF Report
  <2> HIDE DEF e
  <2> QED
    BY <1>10, <2>1, <2>2 DEF IInv, Report, session
<1>11. CASE Store(r)
  BY <1>11 DEF IInv, Store, session
<1>12. CASE Commit(r)
  BY <1>12, CloseIsTyped DEF IInv, Commit
<1>13. CASE RollBack(r)
  BY <1>13, CloseIsTyped DEF IInv, RollBack
<1> QED
  BY <1>1, <1>2, <1>3, <1>4, <1>5, <1>6, <1>7, <1>8, <1>9, <1>10, <1>11, <1>12, <1>13
  DEF StepOf, Step

(* What a read may write to Redis.                                           *)
LEMMA EntryIsTyped ==
    ASSUME IInv, NEW r \in Reads, pc[r] = "store"
    PROVE  /\ EntryOf(r) \in Entry
           /\ EntryOf(r).drop = now + MetricsTTL
           /\ \A s \in Services : AsFreshAsPromised(r, EntryOf(r), s)
                                   = AsFreshAsPromised(r, response[r], s)
           /\ \A s \in Services :
                [health |-> response[r].health[s], drop |-> now + HealthTTL] \in Snapshot
<1>1. response[r] \in Entry
  BY DEF IInv, ReadsAreRight, ReadIsRight, InTurn
<1>2. now + MetricsTTL \in Nat /\ now + HealthTTL \in Nat
  BY MetricsAssumption DEF IInv, TypeOK
<1>3. \A s \in Services : response[r].health[s] \in Computed
  BY <1>1 DEF Entry
<1>4. \A s \in Services :
        [health |-> response[r].health[s], drop |-> now + HealthTTL] \in Snapshot
  BY <1>2, <1>3 DEF Snapshot
<1> QED
  BY <1>1, <1>2, <1>4 DEF EntryOf, Entry, AsFreshAsPromised,
     Fresh, FreshOrAnothers, CountsAll, ShowsFresh, ShowsAnothers, Level

(* The reads' steps keep the types of the tables and the caches.             *)
LEMMA TablesStayTyped ==
    ASSUME IInv, NEW r \in Reads, StepOf(r)
    PROVE  TablesAreTyped'
<1> USE DEF TablesAreTyped, TypeOK
<1>1. CASE Begin(r)
  BY <1>1 DEF IInv, Begin, store, cache
<1>2. CASE Hit(r)
  BY <1>2 DEF IInv, Hit, store, cache
<1>3. CASE Miss(r)
  BY <1>3 DEF IInv, Miss, store, cache
<1>4. CASE AggregateNothing(r)
  BY <1>4 DEF IInv, AggregateNothing, store, cache
<1>5. CASE Aggregate(r)
  BY <1>5 DEF IInv, Aggregate, store, cache
<1>6. CASE WriteSnapshot(r)
  <2>0. Head(todo[r]) \in Services
    BY <1>6, TailOf DEF IInv, ReadsAreRight, ReadIsRight, InTurn, WriteSnapshot, Working
  <2>1. assigned'[r] \in [Services -> Computed]
    BY <1>6, SessionsStayTyped DEF SessionsAreTyped, StepOf, Step
  <2>2. now + HealthTTL \in Nat
    BY MetricsAssumption DEF IInv
  <2>3. [health |-> assigned'[r][Head(todo[r])], drop |-> now + HealthTTL] \in Snapshot
    BY <2>0, <2>1, <2>2 DEF Snapshot
  <2>4. health' \in [Services -> Snapshot \cup {None}]
    BY <1>6, <2>3 DEF IInv, WriteSnapshot
  <2> QED
    BY <1>6, <2>4 DEF IInv, WriteSnapshot, store
<1>7. CASE Invalidate(r)
  <2>1. metrics' \in [Services -> Entry \cup {None}]
    BY <1>7 DEF IInv, Invalidate
  <2> QED
    BY <1>7, <2>1 DEF IInv, Invalidate, store
<1>8. CASE AggregateEndpoints(r)
  BY <1>8 DEF IInv, AggregateEndpoints, store, cache
<1>9. CASE InvalidateOverview(r)
  BY <1>9 DEF IInv, InvalidateOverview, store
<1>10. CASE Report(r)
  BY <1>10 DEF IInv, Report, store, cache
<1>11. CASE Store(r)
  <2>1. /\ EntryOf(r) \in Entry
        /\ [health |-> response[r].health[Target[r]], drop |-> now + HealthTTL] \in Snapshot
    BY <1>11, EntryIsTyped, MetricsAssumption DEF Store
  <2>2. metrics' \in [Services -> Entry \cup {None}]
    BY <1>11, <2>1, MetricsAssumption DEF IInv, Store, cache
  <2>3. overview' \in Entry \cup {None}
    BY <1>11, <2>1, MetricsAssumption DEF IInv, Store, cache
  <2>4. health' \in [Services -> Snapshot \cup {None}]
    BY <1>11, <2>1, MetricsAssumption DEF IInv, Store, cache
  <2> QED
    BY <1>11, <2>2, <2>3, <2>4 DEF IInv, Store, store
<1>12. CASE Commit(r)
  <2>1. newest' \in [Services -> Versions]
    BY <1>12 DEF IInv, Commit, Bigger
  <2>2. \A s \in Services : Written(r, s) \in Computed
    BY DEF IInv, Written, Later
  <2>3. column' \in [Services -> Computed]
    BY <1>12, <2>2 DEF Commit
  <2> QED
    BY <1>12, <2>1, <2>3 DEF IInv, Commit, cache
<1>13. CASE RollBack(r)
  BY <1>13 DEF IInv, RollBack, store, cache
<1> QED
  BY <1>1, <1>2, <1>3, <1>4, <1>5, <1>6, <1>7, <1>8, <1>9, <1>10, <1>11, <1>12, <1>13
  DEF StepOf, Step

(* A read that ends holds no row, one that takes or keeps one works on.      *)
LEMMA LocksStayHeld ==
    ASSUME IInv, NEW r \in Reads, StepOf(r)
    PROVE  LocksAreHeld' /\ rowLock' = [s \in Services |-> rowLock'[s]]
<1> USE DEF TypeOK
<1>0. rowLock = [s \in Services |-> rowLock[s]] /\ LocksAreHeld
  BY DEF IInv
<1>1. \A q \in Reads \ {r} : pc'[q] = pc[q]
  BY OthersAreLeft DEF IInv, OthersStay
<1>2. CASE Begin(r) \/ Hit(r) \/ Miss(r)
  <2>1. pc[r] \notin Working \cup Answering /\ rowLock' = rowLock
    BY <1>2 DEF Begin, Hit, Miss, Working, Answering
  <2> QED
    BY <1>0, <1>1, <2>1 DEF LocksAreHeld
<1>3. CASE AggregateNothing(r) \/ AggregateEndpoints(r)
  <2>1. todo[r] # <<>> /\ NextService(r)
    BY <1>3 DEF IInv, ReadsAreRight, ReadIsRight, InTurn, AggregateNothing, AggregateEndpoints, Working
  <2>2. pc'[r] \in Working \cup Answering
    BY <2>1, NextServiceMoves DEF IInv
  <2>3. \A s \in Services : rowLock'[s] \in {rowLock[s], r}
    BY <1>0, <1>3 DEF AggregateNothing, AggregateEndpoints
  <2>4. rowLock' = [s \in Services |-> rowLock'[s]]
    BY <1>0, <1>3 DEF AggregateNothing, AggregateEndpoints
  <2> QED
    BY <1>0, <1>1, <2>2, <2>3, <2>4 DEF LocksAreHeld
<1>4. CASE Aggregate(r) \/ WriteSnapshot(r) \/ Invalidate(r) \/ InvalidateOverview(r)
             \/ Report(r) \/ Store(r)
  <2>1. pc'[r] \in Working \cup Answering
    BY <1>4 DEF IInv, Aggregate, WriteSnapshot, Invalidate, InvalidateOverview, Report, Store,
       Goto, Working, Answering
  <2>2. rowLock' = rowLock
    BY <1>4 DEF Aggregate, WriteSnapshot, Invalidate, InvalidateOverview, Report, Store
  <2> QED
    BY <1>0, <1>1, <2>1, <2>2 DEF LocksAreHeld
<1>5. CASE Commit(r) \/ RollBack(r)
  <2>1. Release(r)
    BY <1>5 DEF Commit, RollBack
  <2> QED
    BY <1>0, <1>1, <2>1 DEF LocksAreHeld, Release
<1> QED
  BY <1>2, <1>3, <1>4, <1>5 DEF StepOf, Step

(* So every step keeps the types and the holders of the rows.                *)
LEMMA TypeStep ==
    ASSUME IInv, [Next]_vars
    PROVE  TypeOK' /\ LocksAreHeld'
<1>1. ASSUME TablesAreTyped', SessionsAreTyped', LocksAreHeld',
             rowLock' = [s \in Services |-> rowLock'[s]]
      PROVE  TypeOK'
  <2>1. Working \cup Answering \subseteq InProgress
    BY DEF Working, Answering, InProgress
  <2>2. rowLock' \in [Services -> {r \in Reads : pc'[r] \in InProgress} \cup {None}]
    BY <1>1, <2>1 DEF LocksAreHeld
  <2> QED
    BY <1>1, <2>2 DEF TypeOK, TablesAreTyped, SessionsAreTyped
<1>2. ASSUME NEW r \in Reads, Step(r) \/ RollBack(r) PROVE TypeOK' /\ LocksAreHeld'
  BY <1>1, <1>2, SessionsStayTyped, TablesStayTyped, LocksStayHeld DEF StepOf
<1>3. ASSUME NEW s \in Services, NewTelemetry(s) PROVE TypeOK' /\ LocksAreHeld'
  <2>1. version' \in [Services -> Versions]
    BY <1>3, MetricsAssumption DEF IInv, TypeOK, NewTelemetry, Versions
  <2>2. TypeOK'
    BY <1>3, <2>1 DEF IInv, TypeOK, NewTelemetry, cache, session
  <2> QED
    BY <1>3, <2>2 DEF IInv, LocksAreHeld, NewTelemetry
<1>4. CASE Tick
  <2>1. now' \in 0..MaxTime
    BY <1>4, MetricsAssumption DEF IInv, TypeOK, Tick
  <2>2. /\ \A e \in Entry \cup {None} : Kept(e) \in Entry \cup {None}
        /\ \A e \in Snapshot \cup {None} : Kept(e) \in Snapshot \cup {None}
    BY DEF Kept
  <2>3. /\ metrics' \in [Services -> Entry \cup {None}] /\ overview' \in Entry \cup {None}
        /\ health' \in [Services -> Snapshot \cup {None}]
    BY <1>4, <2>2 DEF IInv, TypeOK, Tick
  <2>4. TypeOK'
    BY <1>4, <2>1, <2>3 DEF IInv, TypeOK, Tick, store, session
  <2> QED
    BY <1>4, <2>4 DEF IInv, LocksAreHeld, Tick
<1>5. CASE UNCHANGED vars
  BY <1>5 DEF IInv, TypeOK, LocksAreHeld, vars, store, cache, session
<1> QED
  BY <1>2, <1>3, <1>4, <1>5 DEF Next

----------------------------------------------------------------------------
(* The versions a read compares are numbers.                                 *)
LEMMA VersionsAreNumbers ==
    ASSUME TypeOK, NEW r \in Reads, NEW s \in Services
    PROVE  /\ version[s] \in Nat /\ newest[s] \in Nat /\ floor[r][s] \in Nat
           /\ own[r][s] \in Nat /\ assigned[r][s].of \in Nat /\ column[s].of \in Nat
           /\ column[s].at \in Nat /\ assigned[r][s].at \in Nat /\ now \in Nat
<1>1. Versions \subseteq Nat /\ 0..MaxTime \subseteq Nat
  BY MetricsAssumption DEF Versions
<1>2. \A h \in Computed : h.of \in Nat /\ h.at \in Nat
  BY <1>1 DEF Computed
<1>3. column[s] \in Computed /\ assigned[r][s] \in Computed
  BY DEF TypeOK
<1> QED
  BY <1>1, <1>2, <1>3 DEF TypeOK

(* A step of a read leaves the telemetry alone and loses no aggregate row.   *)
LEMMA RowsOnlyGrow ==
    ASSUME TypeOK, NEW r \in Reads, StepOf(r)
    PROVE  \A s \in Services : version'[s] >= version[s] /\ newest'[s] >= newest[s]
<1> SUFFICES ASSUME NEW s \in Services
             PROVE  version'[s] >= version[s] /\ newest'[s] >= newest[s]
  OBVIOUS
<1>0. version[s] \in Nat /\ newest[s] \in Nat /\ own[r][s] \in Nat
  BY VersionsAreNumbers
<1>1. CASE Commit(r)
  BY <1>0, <1>1 DEF Commit, Bigger
<1>2. CASE ~Commit(r)
  <2>1. UNCHANGED store
    BY <1>2 DEF StepOf, Step, Begin, Hit, Miss, AggregateNothing, Aggregate, WriteSnapshot,
       Invalidate, AggregateEndpoints, InvalidateOverview, Report, Store, RollBack, store
  <2> QED
    BY <1>0, <2>1 DEF store
<1> QED
  BY <1>1, <1>2

(* The read that moves goes on in turn.                                      *)
LEMMA StaysInTurn ==
    ASSUME IInv, NEW r \in Reads, StepOf(r), TypeOK'
    PROVE  InTurn(r)'
<1> USE DEF InTurn, Working, Answering
<1>0. InTurn(r) /\ pc[r] \in Closed \cup InProgress /\ pc = [q \in Reads |-> pc[q]]
      /\ todo = [q \in Reads |-> todo[q]] /\ response = [q \in Reads |-> response[q]]
  BY DEF IInv, ReadsAreRight, ReadIsRight, TypeOK
<1>1. CASE Begin(r) \/ Hit(r) \/ Commit(r) \/ RollBack(r)
  <2>1. pc'[r] \in {"lookup", "done", "failed"}
    BY <1>0, <1>1 DEF Begin, Hit, Commit, RollBack, Close, Goto
  <2> QED
    BY <2>1
<1>2. CASE Miss(r)
  <2>1. CASE Kind[r] = "health"
    BY <1>0, <1>2, <2>1 DEF Miss, Goto
  <2>2. CASE Kind[r] = "metrics"
    BY <1>0, <1>2, <2>2 DEF Miss, Goto
  <2>3. CASE Kind[r] = "overview"
    <3>1. todo'[r] = ByName /\ pc'[r] = "aggregate"
      BY <1>0, <1>2, <2>3 DEF Miss, Goto, Order
    <3> QED
      BY <2>3, <3>1, AllServices, MetricsAssumption
  <2> QED
    BY <2>1, <2>2, <2>3, MetricsAssumption
<1>3. CASE AggregateNothing(r) \/ AggregateEndpoints(r)
  <2>1. todo[r] # <<>> /\ NextService(r) /\ Kind[r] # "health"
    BY <1>0, <1>3 DEF AggregateNothing, AggregateEndpoints
  <2>2. /\ pc'[r] \in {"aggregate", "invalidateOverview", "report"}
        /\ pc'[r] = "aggregate" <=> todo'[r] # <<>>
    BY <2>1, NextServiceMoves DEF IInv
  <2> QED
    BY <2>1, <2>2
<1>4. CASE Aggregate(r) \/ WriteSnapshot(r) \/ Invalidate(r)
  <2>1. pc'[r] \in {"snapshot", "invalidate", "endpoints"} /\ todo'[r] = todo[r]
    BY <1>0, <1>4 DEF Aggregate, WriteSnapshot, Invalidate, Goto, session
  <2>2. pc[r] \in Working
    BY <1>4 DEF Aggregate, WriteSnapshot, Invalidate
  <2> QED
    BY <1>0, <2>1, <2>2
<1>5. CASE InvalidateOverview(r) \/ Store(r)
  <2>1. pc'[r] \in {"report", "commit"} /\ todo'[r] = todo[r] /\ pc[r] \in Answering
    BY <1>0, <1>5 DEF InvalidateOverview, Store, Goto, session
  <2> QED
    BY <1>0, <2>1
<1>6. CASE Report(r)
  <2> DEFINE e == [shows |-> [s \in Services |-> IF s \in About(r)
                                             THEN Bigger(newest[s], own[r][s]) ELSE 0],
                   floor |-> floor[r], health |-> Shown(r), began |-> loaded[r], drop |-> 0]
  <2>1. e \in Entry
    <3>1. \A s \in Services : newest[s] \in Nat /\ own[r][s] \in Nat
      BY VersionsAreNumbers DEF IInv
    <3>2. [s \in Services |-> IF s \in About(r) THEN Bigger(newest[s], own[r][s]) ELSE 0]
             \in [Services -> Versions]
      BY <3>1 DEF Bigger, Versions
    <3>3. /\ floor[r] \in [Services -> Versions] /\ loaded[r] \in [Services -> Computed]
          /\ Shown(r) \in [Services -> Computed]
      BY ShownIsTyped DEF IInv, TypeOK
    <3> QED
      BY <3>2, <3>3 DEF Entry
  <2>2. response'[r] = e /\ pc'[r] = "store" /\ todo'[r] = todo[r] /\ pc[r] \in Answering
    BY <1>0, <1>6 DEF Report, Goto, session
  <2> HIDE DEF e
  <2> QED
    BY <1>0, <2>1, <2>2
<1> QED
  BY <1>1, <1>2, <1>3, <1>4, <1>5, <1>6 DEF StepOf, Step

(* What it found when it began stays behind it.                              *)
LEMMA FloorStaysPast ==
    ASSUME IInv, NEW r \in Reads, StepOf(r), TypeOK'
    PROVE  FloorIsPast(r)'
<1> SUFFICES ASSUME pc'[r] \in InProgress, NEW s \in Services
             PROVE  floor'[r][s] <= version'[s]
  BY DEF FloorIsPast
<1>0. /\ floor = [q \in Reads |-> floor[q]] /\ version[s] \in Nat /\ pc = [q \in Reads |-> pc[q]]
      /\ FloorIsPast(r)
  BY VersionsAreNumbers DEF IInv, TypeOK, ReadsAreRight, ReadIsRight
<1>1. CASE Begin(r)
  BY <1>0, <1>1 DEF Begin, store
<1>2. CASE ~Begin(r)
  <2>0. ~(Hit(r) \/ Commit(r) \/ RollBack(r))
    <3>1. pc'[r] \notin {"done", "failed"}
      BY DEF InProgress
    <3> QED
      BY <1>0, <3>1 DEF Hit, Commit, RollBack, Close, Goto
  <2>1. floor' = floor /\ version' = version
    BY <1>2, <2>0 DEF StepOf, Step, Miss, AggregateNothing, Aggregate, WriteSnapshot, Invalidate,
       AggregateEndpoints, InvalidateOverview, Report, Store, session, store
  <2>2. pc[r] \in InProgress
    BY <1>2 DEF StepOf, Step, Hit, Miss, AggregateNothing, Aggregate, WriteSnapshot, Invalidate,
       AggregateEndpoints, InvalidateOverview, Report, Store, Commit, RollBack, InProgress
  <2> QED
    BY <1>0, <2>1, <2>2 DEF FloorIsPast
<1> QED
  BY <1>1, <1>2

(* Its session holds a computed health, or the one it loaded.                *)
LEMMA SessionStaysComputed ==
    ASSUME IInv, NEW r \in Reads, StepOf(r), TypeOK'
    PROVE  SessionIsComputed(r)'
<1>0. /\ loaded = [q \in Reads |-> loaded[q]] /\ assigned = [q \in Reads |-> assigned[q]]
      /\ SessionIsComputed(r) /\ ColumnIsComputed
  BY DEF IInv, TypeOK, ReadsAreRight, ReadIsRight
<1>z. \A s \in Services : Unread[s].at = 0
  BY DEF Unread
<1>1. CASE Load(r)
  BY <1>0, <1>1, <1>z, LoadIsTyped DEF IInv, SessionIsComputed, ColumnIsComputed
<1>2. CASE Hit(r) \/ Commit(r) \/ RollBack(r)
  <2>1. assigned'[r] = Unread /\ loaded'[r] = Unread
    BY <1>0, <1>2 DEF Hit, Commit, RollBack, Close
  <2> QED
    BY <1>z, <2>1 DEF SessionIsComputed
<1>3. CASE Aggregate(r)
  <2> DEFINE h == Head(todo[r])
  <2>1. h \in Services
    BY <1>3, TailOf DEF IInv, TypeOK, ReadsAreRight, ReadIsRight, InTurn, Aggregate, Working
  <2>2. version[h] > 0 /\ loaded' = loaded
        /\ assigned' = [assigned EXCEPT ![r][h] = [of |-> version[h], at |-> now]]
    BY <1>3 DEF Aggregate
  <2> HIDE DEF h
  <2>3. assigned'[r] = [assigned[r] EXCEPT ![h] = [of |-> version[h], at |-> now]]
    BY <1>0, <2>2
  <2>4. assigned[r] \in [Services -> Computed] /\ version[h] \in Nat
    BY <2>1, VersionsAreNumbers DEF IInv, TypeOK
  <2>5. assigned'[r][h].of = version[h] /\ \A s \in Services \ {h} : assigned'[r][s] = assigned[r][s]
    BY <2>1, <2>3, <2>4
  <2> QED
    BY <1>0, <2>2, <2>4, <2>5 DEF SessionIsComputed
<1>4. CASE WriteSnapshot(r)
  <2> DEFINE h == Head(todo[r])
  <2>1. h \in Services
    BY <1>4, TailOf DEF IInv, TypeOK, ReadsAreRight, ReadIsRight, InTurn, WriteSnapshot, Working
  <2>2. loaded' = loaded /\ assigned' = [assigned EXCEPT ![r][h].at = now]
    BY <1>4 DEF WriteSnapshot
  <2>3. assigned[r][h].of > 0
    BY <1>4 DEF IInv, ReadsAreRight, ReadIsRight, InTurn, HeadIsAggregated, WriteSnapshot,
       Working, Aggregating
  <2> HIDE DEF h
  <2>4. assigned'[r][h].of = assigned[r][h].of
        /\ \A s \in Services \ {h} : assigned'[r][s] = assigned[r][s]
    BY <2>1, <2>2, Published DEF IInv
  <2>5. assigned'[r][h].of # 0
    BY <2>1, <2>3, <2>4, VersionsAreNumbers DEF IInv
  <2> QED
    BY <1>0, <2>2, <2>4, <2>5 DEF SessionIsComputed
<1>5. CASE UNCHANGED <<loaded, assigned>>
  BY <1>0, <1>5 DEF SessionIsComputed
<1> QED
  BY <1>1, <1>2, <1>3, <1>4, <1>5
  DEF StepOf, Step, Begin, Miss, AggregateNothing, Invalidate, AggregateEndpoints,
      InvalidateOverview, Report, Store, session

(* What a read has aggregated does not depend on what stays the same.        *)
LEMMA AggregatedStays ==
    ASSUME TypeOK, NEW r \in Reads, NEW s \in Services, Aggregated(r, s),
           newest' = newest, floor'[r] = floor[r], own'[r][s] = own[r][s],
           assigned'[r][s].of = assigned[r][s].of
    PROVE  Aggregated(r, s)'
BY DEF Aggregated, Bigger

(* The services of the read.                                                 *)
LEMMA AboutServices ==
    ASSUME NEW r \in Reads
    PROVE  About(r) \subseteq Services /\ Target[r] \in Services
           /\ (Kind[r] # "health" => Target[r] \in About(r))
           /\ (Kind[r] = "overview" => About(r) = Services)
BY MetricsAssumption DEF About

(* Dropping an aggregated service from the list leaves the others on it.     *)
LEMMA DroppingTheHead ==
    ASSUME TypeOK, NEW r \in Reads, todo[r] # <<>>, todo'[r] = Tail(todo[r]),
           NEW s \in Remaining(r), s # Head(todo[r])
    PROVE  s \in Remaining(r)'
<1>1. todo[r] \in Seq(Services)
  BY DEF TypeOK
<1>2. PICK i \in 1..Len(todo[r]) : s = todo[r][i]
  BY DEF Remaining
<1>3. \E j \in 1..Len(Tail(todo[r])) : Tail(todo[r])[j] = s
  BY <1>1, <1>2, TailOf
<1> QED
  BY <1>3 DEF Remaining

(* The read that moves leaves no service behind, and answers with all.       *)
LEMMA StaysAggregated ==
    ASSUME IInv, NEW r \in Reads, StepOf(r), TypeOK', Kind[r] # "health"
    PROVE  FinishedIsAggregated(r)' /\ HeadIsAggregated(r)' /\ AnswerIsFresh(r)'
<1>0. /\ InTurn(r) /\ FloorIsPast(r) /\ FinishedIsAggregated(r) /\ HeadIsAggregated(r)
      /\ TypeOK
  BY DEF IInv, ReadsAreRight, ReadIsRight
<1>t. /\ pc = [q \in Reads |-> pc[q]] /\ todo = [q \in Reads |-> todo[q]]
      /\ floor = [q \in Reads |-> floor[q]] /\ own = [q \in Reads |-> own[q]]
      /\ assigned = [q \in Reads |-> assigned[q]] /\ response = [q \in Reads |-> response[q]]
      /\ todo[r] \in Seq(Services) /\ own[r] \in [Services -> Versions]
  BY <1>0 DEF TypeOK
<1>r. About(r) \subseteq Services /\ About(r)' = About(r)
  BY AboutServices DEF About
<1>1. CASE Begin(r) \/ Hit(r) \/ Commit(r) \/ RollBack(r)
  <2>1. pc'[r] \in {"lookup", "done", "failed"}
    BY <1>t, <1>1 DEF Begin, Hit, Commit, RollBack, Close, Goto
  <2> QED
    BY <2>1 DEF FinishedIsAggregated, HeadIsAggregated, AnswerIsFresh, Working, Answering, Aggregating
<1>2. CASE Miss(r)
  <2>1. pc'[r] = "aggregate"
    BY <1>t, <1>2 DEF Miss, Goto
  <2>2. CASE Kind[r] = "overview"
    <3>1. todo'[r] = ByName
      BY <1>t, <1>2, <2>2 DEF Miss, Order
    <3>2. Remaining(r)' = {todo'[r][i] : i \in 1..Len(todo'[r])}
      BY DEF Remaining
    <3>3. Remaining(r)' = Services
      BY <3>1, <3>2, AllServices, Zenon
    <3> QED
      BY <1>r, <2>1, <3>3 DEF FinishedIsAggregated, HeadIsAggregated, AnswerIsFresh, Aggregating
  <2>3. CASE Kind[r] = "metrics"
    <3>1. todo'[r] = <<Target[r]>>
      BY <1>t, <1>2, <2>3 DEF Miss
    <3>2. Target[r] \in Remaining(r)'
      BY <3>1 DEF Remaining
    <3> QED
      BY <1>r, <2>1, <2>3, <3>2
      DEF FinishedIsAggregated, HeadIsAggregated, AnswerIsFresh, Aggregating, About
  <2> QED
    BY <2>2, <2>3, MetricsAssumption
<1>3. CASE AggregateNothing(r) \/ AggregateEndpoints(r)
  <2>h. PICK h \in Services : h = Head(todo[r])
    BY <1>0, <1>3, TailOf DEF AggregateNothing, AggregateEndpoints, InTurn, Working, TypeOK
  <2>1. pc[r] \in Working /\ todo[r] # <<>> /\ NextService(r)
    BY <1>0, <1>3, TailOf DEF AggregateNothing, AggregateEndpoints, InTurn, Working, TypeOK
  <2>2. /\ newest' = newest /\ floor' = floor /\ own' = own /\ assigned' = assigned
    BY <1>3 DEF AggregateNothing, AggregateEndpoints, store
  <2>3. todo'[r] = Tail(todo[r]) /\ pc'[r] \in {"aggregate", "invalidateOverview", "report"}
    BY <1>0, <2>1, NextServiceMoves
  <2>4. Aggregated(r, h)
    <3>1. CASE AggregateEndpoints(r)
      BY <1>0, <2>h, <3>1 DEF AggregateEndpoints, HeadIsAggregated, Aggregating
    <3>2. CASE AggregateNothing(r)
      <4>1. version[h] = 0 /\ pc[r] \in InProgress
        BY <2>h, <3>2 DEF AggregateNothing, InProgress
      <4>2. floor[r][h] <= version[h]
        BY <1>0, <2>1, <4>1 DEF FloorIsPast
      <4> QED
        BY <1>0, <2>1, <4>1, <4>2, VersionsAreNumbers DEF Aggregated, Bigger
    <3> QED
      BY <1>3, <3>1, <3>2
  <2>5. ASSUME NEW s \in About(r) PROVE Aggregated(r, s)' \/ s \in Remaining(r)'
    <3>1. Aggregated(r, s) \/ s \in Remaining(r)
      BY <1>0, <2>1 DEF FinishedIsAggregated
    <3>2. s \in Services
      BY <1>r
    <3>3. CASE Aggregated(r, s)
      BY <1>0, <2>2, <3>2, <3>3, AggregatedStays
    <3>4. CASE s \in Remaining(r) /\ s # h
      BY <1>0, <2>h, <2>1, <2>3, <3>4, DroppingTheHead
    <3>5. CASE s = h
      BY <1>0, <2>2, <2>4, <3>2, <3>5, AggregatedStays
    <3> QED
      BY <3>1, <3>3, <3>4, <3>5
  <2>6. FinishedIsAggregated(r)'
    BY <1>r, <2>5 DEF FinishedIsAggregated
  <2> QED
    BY <2>3, <2>6 DEF HeadIsAggregated, AnswerIsFresh, Aggregating
<1>4. CASE Aggregate(r)
  <2>h. PICK h \in Services : h = Head(todo[r])
    BY <1>0, <1>4, TailOf DEF Aggregate, InTurn, Working, TypeOK
  <2>1. pc[r] \in Working /\ pc[r] \in InProgress /\ todo[r] # <<>>
    BY <1>0, <1>4, TailOf DEF Aggregate, InTurn, Working, InProgress, TypeOK
  <2>2. /\ newest' = newest /\ floor' = floor /\ todo' = todo /\ version[h] > 0
        /\ own' = [own EXCEPT ![r][h] = version[h]]
        /\ assigned' = [assigned EXCEPT ![r][h] = [of |-> version[h], at |-> now]]
        /\ pc'[r] = "snapshot"
    BY <1>t, <1>4, <2>h DEF Aggregate, store, Goto
  <2>t. Head(todo'[r]) = h
    BY <2>h, <2>2
  <2>3. assigned'[r] = [assigned[r] EXCEPT ![h] = [of |-> version[h], at |-> now]]
        /\ own'[r] = [own[r] EXCEPT ![h] = version[h]]
    BY <1>t, <2>2
  <2>4. assigned[r] \in [Services -> Computed]
    BY <1>0 DEF TypeOK
  <2>5. /\ assigned'[r][h].of = version[h] /\ own'[r][h] = version[h]
        /\ \A s \in Services \ {h} : assigned'[r][s] = assigned[r][s] /\ own'[r][s] = own[r][s]
    BY <1>t, <2>1, <2>3, <2>4
  <2>6. Aggregated(r, h)'
    <3>1. floor[r][h] <= version[h]
      BY <1>0, <2>1 DEF FloorIsPast
    <3>2. newest'[h] = newest[h] /\ floor'[r][h] = floor[r][h]
      BY <2>2
    <3>3. Bigger(newest[h], version[h]) >= floor[r][h]
      BY <1>0, <2>1, <3>1, VersionsAreNumbers DEF Bigger
    <3>4. Bigger(newest'[h], own'[r][h]) >= floor'[r][h] /\ assigned'[r][h].of >= floor'[r][h]
      BY <2>5, <3>1, <3>2, <3>3, <1>0, <2>1, VersionsAreNumbers
    <3> QED
      BY <3>4 DEF Aggregated
  <2>7. ASSUME NEW s \in About(r) PROVE Aggregated(r, s)' \/ s \in Remaining(r)'
    <3>1. Aggregated(r, s) \/ s \in Remaining(r)
      BY <1>0, <2>1 DEF FinishedIsAggregated
    <3>2. CASE s = h
      BY <2>6, <3>2
    <3>3. CASE s # h /\ Aggregated(r, s)
      BY <1>0, <1>r, <2>2, <2>5, <3>3, AggregatedStays
    <3>4. CASE s \in Remaining(r)
      BY <2>2, <3>4 DEF Remaining
    <3> QED
      BY <3>1, <3>2, <3>3, <3>4
  <2>8. Aggregated(r, Head(todo[r]))' /\ assigned'[r][Head(todo'[r])].of > 0
    BY <2>2, <2>5, <2>6, <2>t DEF Aggregated
  <2>9. FinishedIsAggregated(r)'
    BY <1>r, <2>7 DEF FinishedIsAggregated
  <2>10. HeadIsAggregated(r)'
    BY <2>8 DEF HeadIsAggregated
  <2> QED
    BY <2>2, <2>9, <2>10 DEF AnswerIsFresh
<1>5. CASE WriteSnapshot(r) \/ Invalidate(r)
  <2>h. PICK h \in Services : h = Head(todo[r])
    BY <1>0, <1>5, TailOf DEF WriteSnapshot, Invalidate, InTurn, Working, TypeOK
  <2>1. pc[r] \in Working /\ pc[r] \in Aggregating /\ todo[r] # <<>>
    BY <1>0, <1>5, TailOf DEF WriteSnapshot, Invalidate, InTurn, Working, Aggregating, TypeOK
  <2>2. /\ newest' = newest /\ floor' = floor /\ todo' = todo /\ own' = own
        /\ pc'[r] \in {"invalidate", "endpoints"}
    BY <1>t, <1>5 DEF WriteSnapshot, Invalidate, store, session, Goto
  <2>3. \A s \in Services : assigned'[r][s].of = assigned[r][s].of
    <3>1. CASE WriteSnapshot(r)
      <4>1. assigned' = [assigned EXCEPT ![r][h].at = now]
        BY <2>h, <3>1 DEF WriteSnapshot
      <4> QED
        BY <1>0, <2>1, <4>1, Published
    <3>2. CASE Invalidate(r)
      BY <3>2 DEF Invalidate, session
    <3> QED
      BY <1>5, <3>1, <3>2
  <2>t. Head(todo'[r]) = h
    BY <2>h, <2>2
  <2>4. Aggregated(r, h) /\ assigned[r][h].of > 0
    BY <1>0, <2>h, <2>1 DEF HeadIsAggregated
  <2>5. Aggregated(r, h)'
    BY <1>0, <2>1, <2>2, <2>3, <2>4, AggregatedStays
  <2>6. ASSUME NEW s \in About(r) PROVE Aggregated(r, s)' \/ s \in Remaining(r)'
    <3>1. CASE Aggregated(r, s)
      BY <1>0, <1>r, <2>2, <2>3, <3>1, AggregatedStays
    <3>2. CASE s \in Remaining(r)
      BY <2>2, <3>2 DEF Remaining
    <3> QED
      BY <1>0, <2>1, <3>1, <3>2 DEF FinishedIsAggregated
  <2>7. Aggregated(r, Head(todo[r]))' /\ assigned'[r][Head(todo'[r])].of > 0
    BY <2>1, <2>3, <2>4, <2>5, <2>t DEF Aggregated
  <2>8. FinishedIsAggregated(r)'
    BY <1>r, <2>6 DEF FinishedIsAggregated
  <2>9. HeadIsAggregated(r)'
    BY <2>7 DEF HeadIsAggregated
  <2> QED
    BY <2>2, <2>8, <2>9 DEF AnswerIsFresh
<1>6. CASE InvalidateOverview(r) \/ Report(r) \/ Store(r)
  <2>1. /\ pc[r] \in Answering /\ todo[r] = <<>>
    BY <1>0, <1>6 DEF InvalidateOverview, Report, Store, InTurn, Answering
  <2>2. /\ newest' = newest /\ floor' = floor /\ own' = own /\ assigned' = assigned
        /\ pc'[r] \in {"report", "store", "commit"}
    BY <1>t, <1>6 DEF InvalidateOverview, Report, Store, store, session, Goto
  <2>3. ASSUME NEW s \in About(r) PROVE Aggregated(r, s)
    <3>1. s \notin Remaining(r)
      BY <2>1 DEF Remaining
    <3> QED
      BY <1>0, <2>1, <3>1 DEF FinishedIsAggregated
  <2>4. FinishedIsAggregated(r)'
    BY <1>0, <1>r, <2>2, <2>3, AggregatedStays DEF FinishedIsAggregated
  <2>5. HeadIsAggregated(r)'
    BY <2>2 DEF HeadIsAggregated, Aggregating
  <2>6. AnswerIsFresh(r)'
    <3>1. CASE Report(r)
      <4>1. ASSUME NEW s \in About(r) PROVE AsFreshAsPromised(r, response'[r], s)
        <5>1. response'[r] =
                [shows |-> [x \in Services |-> IF x \in About(r)
                                               THEN Bigger(newest[x], own[r][x]) ELSE 0],
                 floor |-> floor[r], health |-> Shown(r), began |-> loaded[r], drop |-> 0]
          BY <1>t, <3>1 DEF Report
        <5>2. s \in Services
          BY <1>r
        <5>3. /\ response'[r].shows[s] = Bigger(newest[s], own[r][s])
              /\ response'[r].floor[s] = floor[r][s] /\ response'[r].health[s] = Shown(r)[s]
              /\ response'[r].began[s] = loaded[r][s]
          BY <5>1, <5>2
        <5>4. CASE Shown(r)[s] = assigned[r][s]
          BY <2>3, <5>3, <5>4
          DEF Aggregated, AsFreshAsPromised, Fresh, FreshOrAnothers, CountsAll, ShowsFresh, ShowsAnothers, Level
        <5>5. CASE Kind[r] = "overview" /\ Level(Shown(r)[s]) # Level(loaded[r][s])
          BY <2>3, <5>3, <5>5
          DEF Aggregated, AsFreshAsPromised, FreshOrAnothers, CountsAll, ShowsAnothers
        <5> QED
          BY <5>2, <5>4, <5>5 DEF Shown, Reloaded
      <4> QED
        BY <1>r, <4>1
        DEF AnswerIsFresh, AsFreshAsPromised, Fresh, FreshOrAnothers, CountsAll, ShowsFresh, ShowsAnothers, Level
    <3>2. CASE InvalidateOverview(r) \/ Store(r)
      BY <1>t, <3>2 DEF InvalidateOverview, Store, Goto, AnswerIsFresh
    <3> QED
      BY <1>6, <3>1, <3>2
  <2> QED
    BY <2>4, <2>5, <2>6
<1> QED
  BY <1>1, <1>2, <1>3, <1>4, <1>5, <1>6 DEF StepOf, Step

----------------------------------------------------------------------------
(* What CachedAnswersAreFresh says of one entry.                             *)
MetricsEntryIsFresh(s) ==
    metrics[s] # None => Fresh(metrics[s], s) /\ metrics[s].drop <= now + MetricsTTL

OverviewEntryIsFresh ==
    overview # None =>
      (\A s \in Services : FreshOrAnothers(overview, s)) /\ overview.drop <= now + MetricsTTL

(* An entry that stays, or goes, while time does not run back stays fresh.   *)
LEMMA EntriesStayFresh ==
    ASSUME IInv, TypeOK', now' \in {now, now + 1}
    PROVE  /\ \A s \in Services :
                metrics'[s] \in {metrics[s], None} => MetricsEntryIsFresh(s)'
           /\ overview' \in {overview, None} => OverviewEntryIsFresh'
<1>0. now \in Nat /\ MetricsTTL \in Nat
  BY MetricsAssumption DEF IInv, TypeOK
<1>1. \A e \in Entry : e.drop \in Nat
  BY DEF Entry
<1>2. ASSUME NEW s \in Services, metrics'[s] \in {metrics[s], None}
      PROVE  MetricsEntryIsFresh(s)'
  <2> SUFFICES ASSUME metrics'[s] # None
               PROVE  Fresh(metrics'[s], s) /\ metrics'[s].drop <= now' + MetricsTTL
    BY DEF MetricsEntryIsFresh, Fresh, CountsAll, ShowsFresh
  <2>1. metrics'[s] = metrics[s] /\ metrics[s] # None
    BY <1>2
  <2>2. metrics[s] \in Entry
    BY <2>1 DEF IInv, TypeOK
  <2>3. Fresh(metrics[s], s) /\ metrics[s].drop <= now + MetricsTTL
    BY <2>1 DEF IInv, CachedAnswersAreFresh
  <2>4. metrics[s].drop <= now' + MetricsTTL
    BY <1>0, <1>1, <2>2, <2>3
  <2> QED
    BY <2>1, <2>3, <2>4
<1>3. ASSUME overview' \in {overview, None}
      PROVE  OverviewEntryIsFresh'
  <2> SUFFICES ASSUME overview' # None
               PROVE  /\ \A s \in Services : FreshOrAnothers(overview', s)
                      /\ overview'.drop <= now' + MetricsTTL
    BY DEF OverviewEntryIsFresh, FreshOrAnothers, CountsAll, ShowsFresh, ShowsAnothers, Level
  <2>1. overview' = overview /\ overview # None
    BY <1>3
  <2>2. overview \in Entry
    BY <2>1 DEF IInv, TypeOK
  <2>3. (\A s \in Services : FreshOrAnothers(overview, s)) /\ overview.drop <= now + MetricsTTL
    BY <2>1 DEF IInv, CachedAnswersAreFresh
  <2>4. overview.drop <= now' + MetricsTTL
    BY <1>0, <1>1, <2>2, <2>3
  <2> QED
    BY <2>1, <2>3, <2>4
<1> QED
  BY <1>2, <1>3

(* What a read stores is fresh.                                              *)
LEMMA StoredIsFresh ==
    ASSUME IInv, TypeOK', NEW r \in Reads, Store(r)
    PROVE  /\ \A s \in Services : MetricsEntryIsFresh(s)'
           /\ OverviewEntryIsFresh'
<1>0. /\ now' = now /\ now \in Nat /\ MetricsTTL \in Nat /\ pc[r] = "store"
      /\ metrics = [s \in Services |-> metrics[s]]
  BY MetricsAssumption DEF IInv, TypeOK, Store
<1>1. \A s \in Services : MetricsEntryIsFresh(s)' <=>
        (metrics'[s] # None =>
           Fresh(metrics'[s], s) /\ metrics'[s].drop <= now' + MetricsTTL)
  BY DEF MetricsEntryIsFresh, Fresh, CountsAll, ShowsFresh
<1>2. OverviewEntryIsFresh' <=>
        (overview' # None => (\A s \in Services : FreshOrAnothers(overview', s))
                             /\ overview'.drop <= now' + MetricsTTL)
  BY DEF OverviewEntryIsFresh, FreshOrAnothers, CountsAll, ShowsFresh, ShowsAnothers, Level
<1> DEFINE e == EntryOf(r)
<1>3. /\ e.drop = now + MetricsTTL
      /\ \A s \in Services : AsFreshAsPromised(r, e, s) = AsFreshAsPromised(r, response[r], s)
  BY <1>0, EntryIsTyped
<1>4. Kind[r] # "health" => \A s \in About(r) : AsFreshAsPromised(r, response[r], s)
  BY <1>0 DEF IInv, ReadsAreRight, ReadIsRight, AnswerIsFresh
<1>5. CASE Kind[r] = "metrics" /\ metrics' = [metrics EXCEPT ![Target[r]] = e]
                                /\ overview' = overview
  <2>1. Fresh(e, Target[r])
    BY <1>3, <1>4, <1>5, AboutServices DEF AsFreshAsPromised
  <2>2. metrics'[Target[r]] = e /\ \A s \in Services \ {Target[r]} : metrics'[s] = metrics[s]
    BY <1>0, <1>5, AboutServices
  <2> HIDE DEF e
  <2>3. e.drop <= now' + MetricsTTL
    BY <1>0, <1>3
  <2>4. MetricsEntryIsFresh(Target[r])'
    BY <1>1, <2>1, <2>2, <2>3, AboutServices
  <2> QED
    BY <1>0, <1>5, <2>2, <2>4, EntriesStayFresh
<1>6. CASE Kind[r] = "overview" /\ overview' = e /\ metrics' = metrics
  <2>1. \A s \in Services : FreshOrAnothers(e, s)
    BY <1>3, <1>4, <1>6, AboutServices DEF AsFreshAsPromised
  <2> HIDE DEF e
  <2>2. OverviewEntryIsFresh'
    BY <1>0, <1>2, <1>3, <1>6, <2>1
  <2> QED
    BY <1>0, <1>6, <2>2, EntriesStayFresh
<1>7. CASE metrics' = metrics /\ overview' = overview
  BY <1>0, <1>7, EntriesStayFresh
<1> QED
  <2>1. Kind[r] \in {"metrics", "health", "overview"}
    BY MetricsAssumption
  <2> QED
    BY <1>5, <1>6, <1>7, <2>1 DEF Store, cache

(* Every step keeps the cached answers fresh.                                *)
LEMMA CacheStep ==
    ASSUME IInv, TypeOK', [Next]_vars
    PROVE  CachedAnswersAreFresh'
<1> SUFFICES (\A s \in Services : MetricsEntryIsFresh(s)') /\ OverviewEntryIsFresh'
  BY DEF CachedAnswersAreFresh, MetricsEntryIsFresh, OverviewEntryIsFresh
<1>0. metrics = [s \in Services |-> metrics[s]]
  BY DEF IInv, TypeOK
<1>1. ASSUME NEW r \in Reads, Step(r) \/ RollBack(r), ~Store(r)
      PROVE  (\A s \in Services : MetricsEntryIsFresh(s)') /\ OverviewEntryIsFresh'
  <2>1. CASE Invalidate(r)
    <3>1. now' = now /\ overview' = overview
      BY <2>1 DEF Invalidate
    <3>2. \A s \in Services : metrics'[s] \in {metrics[s], None}
      BY <1>0, <2>1 DEF Invalidate
    <3> QED
      BY <3>1, <3>2, EntriesStayFresh
  <2>2. CASE InvalidateOverview(r)
    <3>1. now' = now /\ metrics' = metrics /\ overview' \in {overview, None}
      BY <2>2 DEF InvalidateOverview
    <3> QED
      BY <3>1, EntriesStayFresh
  <2>3. CASE now' = now /\ metrics' = metrics /\ overview' = overview
    BY <2>3, EntriesStayFresh
  <2> QED
    BY <1>1, <2>1, <2>2, <2>3
    DEF Step, Begin, Hit, Miss, AggregateNothing, Aggregate, WriteSnapshot, AggregateEndpoints,
        Report, Commit, RollBack, cache
<1>2. ASSUME NEW r \in Reads, Store(r)
      PROVE  (\A s \in Services : MetricsEntryIsFresh(s)') /\ OverviewEntryIsFresh'
  BY <1>2, StoredIsFresh
<1>3. ASSUME NEW s \in Services, NewTelemetry(s)
      PROVE  (\A x \in Services : MetricsEntryIsFresh(x)') /\ OverviewEntryIsFresh'
  BY <1>3, EntriesStayFresh DEF NewTelemetry, cache
<1>4. CASE Tick
  <2>1. /\ now' = now + 1 /\ overview' \in {overview, None}
        /\ \A s \in Services : metrics'[s] \in {metrics[s], None}
    BY <1>4 DEF Tick, Kept
  <2> QED
    BY <2>1, EntriesStayFresh
<1>5. CASE UNCHANGED vars
  BY <1>5, EntriesStayFresh DEF vars, cache
<1> QED
  BY <1>1, <1>2, <1>3, <1>4, <1>5 DEF Next

----------------------------------------------------------------------------
(* What a commit writes to a services row is a health that was computed, if  *)
(* it replaces one that was.                                                 *)
LEMMA WrittenIsComputed ==
    ASSUME TypeOK, NEW r \in Reads, SessionIsComputed(r), ColumnIsComputed, NEW s \in Services
    PROVE  /\ Written(r, s).of = 0 => Written(r, s).at = 0
           /\ column[s].of > 0 => Written(r, s).of > 0
<1>0. /\ column[s].of \in Nat /\ assigned[r][s].of \in Nat
      /\ column[s].at \in Nat /\ assigned[r][s].at \in Nat
  BY VersionsAreNumbers
<1>1. assigned[r][s].of = 0 => assigned[r][s] = loaded[r][s] /\ assigned[r][s].at = 0
  BY DEF SessionIsComputed
<1>2. column[s].of = 0 => column[s].at = 0
  BY DEF ColumnIsComputed
<1>3. Written(r, s) \in {assigned[r][s], column[s]}
  BY DEF Written, Later
<1>4. CASE assigned[r][s].of = 0
  <2>1. Written(r, s) = column[s]
    BY <1>0, <1>1, <1>4 DEF Written, Later
  <2> QED
    BY <1>2, <2>1
<1>5. CASE assigned[r][s].of # 0
  BY <1>0, <1>2, <1>3, <1>5
<1> QED
  BY <1>4, <1>5

(* So every step keeps a service's health a computed one.                    *)
LEMMA ColumnStep ==
    ASSUME IInv, [Next]_vars
    PROVE  /\ ColumnIsComputed'
           /\ \A s \in Services : column[s].of > 0 => column'[s].of > 0
<1>1. ASSUME NEW r \in Reads, Commit(r)
      PROVE  /\ ColumnIsComputed'
             /\ \A s \in Services : column[s].of > 0 => column'[s].of > 0
  <2>1. \A s \in Services : column'[s] = Written(r, s)
    BY <1>1 DEF Commit
  <2>2. TypeOK /\ SessionIsComputed(r) /\ ColumnIsComputed
    BY DEF IInv, ReadsAreRight, ReadIsRight
  <2> QED
    BY <2>1, <2>2, WrittenIsComputed DEF ColumnIsComputed
<1>2. CASE column' = column
  BY <1>2 DEF IInv, ColumnIsComputed
<1> QED
  <2>1. ASSUME NEW r \in Reads, Step(r) \/ RollBack(r), ~Commit(r) PROVE column' = column
    BY <2>1 DEF Step, Begin, Hit, Miss, AggregateNothing, Aggregate, WriteSnapshot, Invalidate,
       AggregateEndpoints, InvalidateOverview, Report, Store, RollBack, store
  <2>2. (\E s \in Services : NewTelemetry(s)) \/ Tick \/ UNCHANGED vars => column' = column
    BY DEF NewTelemetry, Tick, vars, store
  <2> QED
    BY <1>1, <1>2, <2>1, <2>2 DEF Next

(* Every step keeps every read right.                                        *)
LEMMA ReadsStep ==
    ASSUME IInv, TypeOK', [Next]_vars
    PROVE  ReadsAreRight'
<1> SUFFICES ASSUME NEW q \in Reads PROVE ReadIsRight(q)'
  BY DEF ReadsAreRight
<1>0. TypeOK /\ ReadIsRight(q) /\ \A s \in Services : version[s] \in Nat /\ newest[s] \in Nat
  BY VersionsAreNumbers DEF IInv, ReadsAreRight
<1>1. ASSUME NEW r \in Reads, StepOf(r), r = q PROVE ReadIsRight(q)'
  BY <1>1, StaysInTurn, FloorStaysPast, SessionStaysComputed, StaysAggregated DEF ReadIsRight
<1>2. ASSUME NEW r \in Reads, StepOf(r), r # q PROVE ReadIsRight(q)'
  <2>1. OthersStay(r) /\ \A s \in Services : version'[s] >= version[s] /\ newest'[s] >= newest[s]
    BY <1>0, <1>2, OthersAreLeft, RowsOnlyGrow
  <2> QED
    BY <1>0, <1>2, <2>1, StayingRight DEF OthersStay
<1>3. ASSUME NEW s \in Services, NewTelemetry(s) PROVE ReadIsRight(q)'
  <2>1. /\ newest' = newest /\ pc' = pc /\ response' = response /\ UNCHANGED session
        /\ version' = [version EXCEPT ![s] = version[s] + 1]
    BY <1>3 DEF NewTelemetry
  <2>2. \A x \in Services : version'[x] >= version[x] /\ newest'[x] >= newest[x]
    BY <1>0, <2>1 DEF TypeOK
  <2> QED
    BY <1>0, <2>1, <2>2, StayingRight DEF session
<1>4. CASE Tick \/ UNCHANGED vars
  <2>1. UNCHANGED <<store, pc, session, response>>
    BY <1>4 DEF Tick, vars
  <2> QED
    BY <1>0, <2>1, StayingRight DEF store, session
<1> QED
  BY <1>1, <1>2, <1>3, <1>4 DEF Next, StepOf

(* The invariant is inductive.                                               *)
LEMMA NextIInv == IInv /\ [Next]_vars => IInv'
<1> SUFFICES ASSUME IInv, [Next]_vars PROVE IInv'
  OBVIOUS
<1>1. TypeOK' /\ LocksAreHeld'
  BY TypeStep
<1>2. ReadsAreRight' /\ CachedAnswersAreFresh'
  BY <1>1, ReadsStep, CacheStep
<1>3. ColumnIsComputed'
  BY ColumnStep
<1> QED
  BY <1>1, <1>2, <1>3 DEF IInv

(* It holds in every reachable state.                                        *)
LEMMA Invariant == Spec => []IInv
<1> QED
  BY InitIInv, NextIInv, PTL DEF Spec

----------------------------------------------------------------------------
(* The variables have their types, and a services row is held only by a read *)
(* in progress: what a read answers from, what it writes and when it ends.   *)
THEOREM TypeCorrect == Spec => []TypeOK
<1>1. IInv => TypeOK
  BY DEF IInv
<1> QED
  BY Invariant, <1>1, PTL

(* However the reads interleave, whether Redis answers or fails and whoever  *)
(* rolls back: a cached metrics or overview answer counts the telemetry of   *)
(* the moment its read began and expires in its TTL.  The health it shows    *)
(* was computed from no less, except that an overview, which lists the       *)
(* services again after it has aggregated them, may show a level that        *)
(* another read has committed since the overview loaded them.                *)
THEOREM CachedAnswersStayFresh == Spec => []CachedAnswersAreFresh
<1>1. IInv => CachedAnswersAreFresh
  BY DEF IInv
<1> QED
  BY Invariant, <1>1, PTL

(* A read that began before a service had a health does not take it back: a  *)
(* commit writes services.health_status only if its session changed it.      *)
THEOREM HealthIsKept == Spec => HealthIsNotForgotten
<1>1. IInv /\ [Next]_vars =>
        [\A s \in Services : column[s].of > 0 => column'[s].of > 0]_column
  BY ColumnStep
<1> QED
  BY Invariant, <1>1, PTL DEF Spec, HealthIsNotForgotten
=============================================================================

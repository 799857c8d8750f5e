----------------------- MODULE TelemetryClientProofs -----------------------
(* Theorems about TelemetryClient for every finite set of requests, every    *)
(* exclusion list and every batch size.                                      *)
EXTENDS TelemetryClient, FiniteSetTheorems, TLAPS

(* A task posts only in its time: the periodic one after start(), the one of *)
(* stop() after the periodic one has ended, and the one of a request after   *)
(* that request has recorded its event.                                      *)
InItsTime ==
    /\ phase = "new" => task[Loop] # "posting"
    /\ phase \in {"new", "running", "stopping"} => task[Stop] # "posting"
    /\ \A r \in Requests :
         req[r] # "recorded" => task[r] \notin {"ready", "posting"}

(* What is buffered, posted or stored was recorded before.                   *)
OnlyRecorded ==
    \A r \in Requests : req[r] # "recorded" =>
      /\ r \notin buffer
      /\ ingested[r] = 0
      /\ \A B \in wire : r \notin B

(* The inductive invariant.                                                  *)
IInv == TypeOK /\ InItsTime /\ OnlyRecorded /\ InOnePlace

----------------------------------------------------------------------------

(* The typing part of the induction.                                         *)
LEMMA TypeStep == TypeOK /\ InItsTime /\ [Next]_vars => TypeOK' /\ InItsTime'
<1> SUFFICES ASSUME TypeOK, InItsTime, [Next]_vars PROVE TypeOK' /\ InItsTime'
  OBVIOUS
<1> USE ClientAssumption DEF TypeOK, InItsTime, Tasks, Phases
<1>1. ASSUME NEW r \in Requests, BeginExcluded(r) PROVE TypeOK' /\ InItsTime'
  BY <1>1 DEF BeginExcluded
<1>2. ASSUME NEW r \in Requests, Begin(r) PROVE TypeOK' /\ InItsTime'
  <2>1. CASE phase = "new"
    BY <1>2, <2>1 DEF Begin, Start
  <2>2. CASE phase # "new"
    BY <1>2, <2>2 DEF Begin, Start
  <2> QED
    BY <2>1, <2>2
<1>3. ASSUME NEW r \in Requests, Finish(r) PROVE TypeOK' /\ InItsTime'
  BY <1>3 DEF Finish
<1>4. ASSUME NEW r \in Requests, Cancel(r) PROVE TypeOK' /\ InItsTime'
  BY <1>4 DEF Cancel
<1>5. CASE Tick
  BY <1>5 DEF Tick, Flush, Idle
<1>6. ASSUME NEW r \in Requests, RunTask(r) PROVE TypeOK' /\ InItsTime'
  BY <1>6 DEF RunTask, Flush, Idle
<1>7. ASSUME NEW t \in Tasks, PostEnds(t) PROVE TypeOK' /\ InItsTime'
  BY <1>7 DEF PostEnds, Idle
<1>8. CASE StopCalled
  BY <1>8 DEF StopCalled
<1>9. CASE LoopCancelled
  BY <1>9 DEF LoopCancelled
<1>10. CASE FinalFlush
  BY <1>10 DEF FinalFlush, Flush, Idle
<1>11. CASE Close
  BY <1>11 DEF Close
<1>12. CASE Exit
  BY <1>12 DEF Exit
<1>13. ASSUME NEW B \in wire, ServerStores(B) PROVE TypeOK' /\ InItsTime'
  BY <1>13 DEF ServerStores
<1>14. ASSUME NEW B \in wire, ServerDoesNot(B) PROVE TypeOK' /\ InItsTime'
  BY <1>14 DEF ServerDoesNot
<1>15. CASE UNCHANGED vars
  BY <1>15 DEF vars
<1> QED
  BY <1>1, <1>2, <1>3, <1>4, <1>5, <1>6, <1>7, <1>8, <1>9, <1>10, <1>11,
     <1>12, <1>13, <1>14, <1>15 DEF Next

(* Every reachable state is well typed.                                      *)
THEOREM TypeCorrect == Spec => []TypeOK
<1>1. Init => TypeOK /\ InItsTime
  BY ClientAssumption DEF Init, TypeOK, InItsTime, Tasks, Phases
<1> QED
  BY <1>1, TypeStep, PTL DEF Spec

----------------------------------------------------------------------------

(* A flush takes the buffer away: it either forgets the events or puts them  *)
(* on the wire, where none of them was.                                      *)
LEMMA FlushMoves ==
    ASSUME IInv, NEW t \in Tasks, Flush(t), ingested' = ingested, req' = req
    PROVE  OnlyRecorded' /\ InOnePlace'
BY DEF IInv, TypeOK, OnlyRecorded, InOnePlace, Flush

(* The induction step for the places an event can be in.                     *)
LEMMA PlaceStep == IInv /\ [Next]_vars => OnlyRecorded' /\ InOnePlace'
<1> SUFFICES ASSUME IInv, [Next]_vars PROVE OnlyRecorded' /\ InOnePlace'
  OBVIOUS
<1> USE DEF IInv, TypeOK, OnlyRecorded, InOnePlace
<1>1. ASSUME NEW r \in Requests,
             BeginExcluded(r) \/ Begin(r) \/ Cancel(r)
      PROVE  OnlyRecorded' /\ InOnePlace'
  BY <1>1 DEF BeginExcluded, Begin, Cancel
<1>2. ASSUME NEW r \in Requests, Finish(r) PROVE OnlyRecorded' /\ InOnePlace'
  BY <1>2 DEF Finish
<1>3. CASE Tick
  BY <1>3, FlushMoves DEF Tick, Tasks
<1>4. ASSUME NEW r \in Requests, RunTask(r) PROVE OnlyRecorded' /\ InOnePlace'
  BY <1>4, FlushMoves DEF RunTask, Tasks
<1>5. CASE FinalFlush
  BY <1>5, FlushMoves DEF FinalFlush, Tasks
<1>6. ASSUME NEW t \in Tasks, PostEnds(t) PROVE OnlyRecorded' /\ InOnePlace'
  BY <1>6 DEF PostEnds
<1>7. CASE StopCalled \/ LoopCancelled \/ Close
  BY <1>7 DEF StopCalled, LoopCancelled, Close
<1>8. CASE Exit
  BY <1>8 DEF Exit
<1>9. ASSUME NEW B \in wire, ServerStores(B) PROVE OnlyRecorded' /\ InOnePlace'
  <2>1. OnlyRecorded'
    BY <1>9 DEF ServerStores
  <2>2. \A r \in B : ingested[r] = 0 /\ r \notin buffer
    OBVIOUS
  <2>3. \A r \in Requests : ingested'[r] = IF r \in B THEN 1 ELSE ingested[r]
    BY <1>9, <2>2 DEF ServerStores
  <2> QED
    BY <1>9, <2>1, <2>2, <2>3 DEF ServerStores
<1>10. ASSUME NEW B \in wire, ServerDoesNot(B) PROVE OnlyRecorded' /\ InOnePlace'
  BY <1>10 DEF ServerDoesNot
<1>11. CASE UNCHANGED vars
  BY <1>11 DEF vars
<1> QED
  BY <1>1, <1>2, <1>3, <1>4, <1>5, <1>6, <1>7, <1>8, <1>9, <1>10, <1>11 DEF Next

(* The inductive invariant holds in every reachable state.                   *)
LEMMA Invariance == Spec => []IInv
<1>1. Init => IInv
  BY ClientAssumption
     DEF Init, IInv, TypeOK, InItsTime, OnlyRecorded, InOnePlace, Tasks, Phases
<1>2. IInv /\ [Next]_vars => IInv'
  BY TypeStep, PlaceStep DEF IInv
<1> QED
  BY <1>1, <1>2, PTL DEF Spec

(* No event is ever in two places, nor stored twice: neither the concurrent  *)
(* flushes nor a POST the client gave up on can duplicate one.               *)
THEOREM NothingTwice == Spec => []InOnePlace
<1>1. IInv => InOnePlace
  BY DEF IInv
<1> QED
  BY <1>1, Invariance, PTL

----------------------------------------------------------------------------

(* A full buffer always has a task about to take it.                         *)
THEOREM FullBufferIsTaken == Spec => []FullBufferHasTask
<1>1. Init => FullBufferHasTask
  BY ClientAssumption, FS_EmptySet DEF Init, FullBufferHasTask
<1>2. TypeOK /\ TypeOK' /\ FullBufferHasTask /\ [Next]_vars => FullBufferHasTask'
  <2> SUFFICES ASSUME TypeOK, TypeOK', FullBufferHasTask, [Next]_vars
               PROVE  FullBufferHasTask'
    OBVIOUS
  <2>e. buffer' = {} => FullBufferHasTask'
    BY ClientAssumption, FS_EmptySet DEF FullBufferHasTask
  <2>k. buffer' = buffer /\ (\A r \in Requests : task[r] = "ready" => task'[r] = "ready")
          => FullBufferHasTask'
    BY DEF FullBufferHasTask
  <2> USE ClientAssumption DEF TypeOK, Tasks
  <2>1. ASSUME NEW r \in Requests,
               BeginExcluded(r) \/ Begin(r) \/ Cancel(r)
        PROVE  FullBufferHasTask'
    BY <2>1, <2>k DEF BeginExcluded, Begin, Start, Cancel
  <2>2. ASSUME NEW r \in Requests, Finish(r) PROVE FullBufferHasTask'
    BY <2>2 DEF Finish, FullBufferHasTask
  <2>3. CASE Tick
    BY <2>3, <2>e DEF Tick, Flush
  <2>4. ASSUME NEW r \in Requests, RunTask(r) PROVE FullBufferHasTask'
    BY <2>4, <2>e DEF RunTask, Flush
  <2>5. CASE FinalFlush
    BY <2>5, <2>e DEF FinalFlush, Flush
  <2>6. CASE Exit
    BY <2>6, <2>e DEF Exit
  <2>7. ASSUME NEW t \in Tasks, PostEnds(t) PROVE FullBufferHasTask'
    BY <2>7, <2>k DEF PostEnds
  <2>8. CASE StopCalled \/ LoopCancelled \/ Close
    BY <2>8, <2>k DEF StopCalled, LoopCancelled, Close
  <2>9. ASSUME NEW B \in wire, ServerStores(B) \/ ServerDoesNot(B)
        PROVE  FullBufferHasTask'
    BY <2>9, <2>k DEF ServerStores, ServerDoesNot
  <2>10. CASE UNCHANGED vars
    BY <2>10, <2>k DEF vars
  <2> QED
    BY <2>1, <2>2, <2>3, <2>4, <2>5, <2>6, <2>7, <2>8, <2>9, <2>10 DEF Next
<1> QED
  BY <1>1, <1>2, TypeCorrect, PTL DEF Spec

----------------------------------------------------------------------------
(* The refinement of TelemetryDelivery.                                      *)

(* The events on the wire.                                                   *)
Travelling == {r \in Requests : \E B \in wire : r \in B}

(* Under the invariant the mapping never yields "duplicated".                *)
LEMMA StatusIs ==
    ASSUME IInv
    PROVE  EventStatus =
             [r \in Requests |->
                IF req[r] # "recorded" THEN "unrecorded"
                ELSE IF ingested[r] = 1 THEN "delivered"
                ELSE IF r \in buffer \cup Travelling THEN "pending"
                ELSE "dropped"]
BY DEF IInv, TypeOK, InOnePlace, EventStatus, Travelling

(* A step that leaves stored and recorded events alone, and takes no event   *)
(* out of the buffer or the network, is a stuttering step of the promise.    *)
LEMMA Stutters ==
    ASSUME IInv, IInv', ingested' = ingested,
           \A r \in Requests : req'[r] = "recorded" <=> req[r] = "recorded",
           buffer' \cup Travelling' = buffer \cup Travelling
    PROVE  EventStatus' = EventStatus
<1>1. EventStatus' =
        [r \in Requests |->
           IF req'[r] # "recorded" THEN "unrecorded"
           ELSE IF ingested'[r] = 1 THEN "delivered"
           ELSE IF r \in buffer' \cup Travelling' THEN "pending"
           ELSE "dropped"]
  BY DEF IInv, TypeOK, InOnePlace, EventStatus, Travelling
<1> QED
  BY <1>1, StatusIs

(* Settling a set of pending events one way or the other is a step of the    *)
(* promise.                                                                  *)
LEMMA Settles ==
    ASSUME IInv, IInv', NEW S \in SUBSET Requests,
           S \subseteq buffer \cup Travelling,
           \A r \in Requests : req'[r] = "recorded" <=> req[r] = "recorded",
           buffer' \cup Travelling' = (buffer \cup Travelling) \ S,
           \/ ingested' = ingested
           \/ ingested' = [r \in Requests |-> IF r \in S THEN ingested[r] + 1 ELSE ingested[r]]
    PROVE  Delivery!Deliver(S) \/ Delivery!Drop(S)
<1>1. EventStatus' =
        [r \in Requests |->
           IF req'[r] # "recorded" THEN "unrecorded"
           ELSE IF ingested'[r] = 1 THEN "delivered"
           ELSE IF r \in buffer' \cup Travelling' THEN "pending"
           ELSE "dropped"]
  BY DEF IInv, TypeOK, InOnePlace, EventStatus, Travelling
<1>2. \A r \in S : req[r] = "recorded" /\ ingested[r] = 0
  BY DEF IInv, InOnePlace, OnlyRecorded, Travelling
<1>3. \A r \in S : EventStatus[r] = "pending"
  BY <1>2, StatusIs
<1>4. CASE ingested' = ingested
  <2>1. EventStatus' =
          [r \in Requests |-> IF r \in S THEN "dropped" ELSE EventStatus[r]]
    BY <1>1, <1>2, <1>4, StatusIs
  <2> QED
    BY <1>3, <2>1 DEF Delivery!Drop, Delivery!Move
<1>5. CASE ingested' = [r \in Requests |-> IF r \in S THEN ingested[r] + 1 ELSE ingested[r]]
  <2>1. EventStatus' =
          [r \in Requests |-> IF r \in S THEN "delivered" ELSE EventStatus[r]]
    BY <1>1, <1>2, <1>5, StatusIs
  <2> QED
    BY <1>3, <2>1 DEF Delivery!Deliver, Delivery!Move
<1> QED
  BY <1>4, <1>5

(* A flush is a stutter, or drops the whole buffer when the client is closed.*)
LEMMA FlushRefines ==
    ASSUME IInv, IInv', NEW t \in Tasks, Flush(t), ingested' = ingested, req' = req
    PROVE  [Delivery!Next]_EventStatus
<1>1. CASE buffer = {} \/ phase \in {"new", "closed"}
  <2>1. buffer' = {} /\ wire' = wire
    BY <1>1 DEF Flush
  <2> DEFINE S == buffer \ Travelling
  <2>2. buffer' \cup Travelling' = (buffer \cup Travelling) \ S
    BY <2>1 DEF Travelling
  <2>3. S \in SUBSET Requests
    BY DEF IInv, TypeOK
  <2>4. Delivery!Deliver(S) \/ Delivery!Drop(S)
    <3> HIDE DEF S
    <3>1. S \subseteq buffer \cup Travelling
      BY DEF S
    <3> QED
      BY <2>2, <2>3, <3>1, Settles
  <2> QED
    BY <2>3, <2>4 DEF Delivery!Next
<1>2. CASE ~(buffer = {} \/ phase \in {"new", "closed"})
  <2>1. buffer' = {} /\ wire' = wire \cup {buffer}
    BY <1>2 DEF Flush
  <2>2. buffer' \cup Travelling' = buffer \cup Travelling
    BY <2>1 DEF Travelling, IInv, TypeOK
  <2> QED
    BY <2>2, Stutters
<1> QED
  BY <1>1, <1>2

(* Every step of the client is a step of the promise, or a stutter.          *)
LEMMA RefinementStep ==
    IInv /\ IInv' /\ [Next]_vars => [Delivery!Next]_EventStatus
<1> SUFFICES ASSUME IInv, IInv', [Next]_vars PROVE [Delivery!Next]_EventStatus
  OBVIOUS
<1>1. ASSUME NEW r \in Requests,
             BeginExcluded(r) \/ Begin(r) \/ Cancel(r)
      PROVE  EventStatus' = EventStatus
  <2>1. \A q \in Requests : req'[q] = "recorded" <=> req[q] = "recorded"
    BY <1>1 DEF BeginExcluded, Begin, Cancel, IInv, TypeOK
  <2>2. ingested' = ingested /\ buffer' \cup Travelling' = buffer \cup Travelling
    BY <1>1 DEF BeginExcluded, Begin, Cancel, Travelling
  <2> QED
    BY <2>1, <2>2, Stutters
<1>2. ASSUME NEW r \in Requests, Finish(r) PROVE Delivery!Record(r)
  <2>1. /\ req' = [req EXCEPT ![r] = "recorded"]
        /\ ingested' = ingested
        /\ buffer' \cup Travelling' = (buffer \cup Travelling) \cup {r}
        /\ req[r] = "running"
    BY <1>2 DEF Finish, Travelling
  <2>2. ingested[r] = 0
    BY <2>1 DEF IInv, OnlyRecorded
  <2>3. EventStatus' =
          [q \in Requests |->
             IF req'[q] # "recorded" THEN "unrecorded"
             ELSE IF ingested'[q] = 1 THEN "delivered"
             ELSE IF q \in buffer' \cup Travelling' THEN "pending"
             ELSE "dropped"]
    BY DEF IInv, TypeOK, InOnePlace, EventStatus, Travelling
  <2>4. EventStatus[r] = "unrecorded"
    BY <2>1 DEF EventStatus
  <2>5. EventStatus' =
          [q \in Requests |-> IF q \in {r} THEN "pending" ELSE EventStatus[q]]
    BY <2>1, <2>2, <2>3, StatusIs DEF IInv, TypeOK
  <2> QED
    BY <2>4, <2>5 DEF Delivery!Record, Delivery!Move
<1>3. CASE Tick
  BY <1>3, FlushRefines DEF Tick, Tasks
<1>4. ASSUME NEW r \in Requests, RunTask(r) PROVE [Delivery!Next]_EventStatus
  BY <1>4, FlushRefines DEF RunTask, Tasks
<1>5. CASE FinalFlush
  BY <1>5, FlushRefines DEF FinalFlush, Tasks
<1>6. ASSUME NEW t \in Tasks,
             PostEnds(t) \/ StopCalled \/ LoopCancelled \/ Close \/ UNCHANGED vars
      PROVE  EventStatus' = EventStatus
  <2>1. req' = req /\ ingested' = ingested /\ buffer' = buffer /\ wire' = wire
    BY <1>6 DEF PostEnds, StopCalled, LoopCancelled, Close, vars
  <2> QED
    BY <2>1, Stutters DEF Travelling
<1>7. CASE Exit
  <2> DEFINE S == buffer \ Travelling
  <2>1. ingested' = ingested /\ buffer' = {} /\ wire' = wire
    BY <1>7 DEF Exit
  <2>2. \A q \in Requests : req'[q] = "recorded" <=> req[q] = "recorded"
    BY <1>7 DEF Exit, IInv, TypeOK
  <2>3. buffer' \cup Travelling' = (buffer \cup Travelling) \ S
    BY <2>1 DEF Travelling
  <2>4. S \in SUBSET Requests /\ S \subseteq buffer \cup Travelling
    BY DEF IInv, TypeOK
  <2>5. Delivery!Deliver(S) \/ Delivery!Drop(S)
    <3> HIDE DEF S
    <3> QED
      BY <2>1, <2>2, <2>3, <2>4, Settles
  <2> QED
    BY <2>4, <2>5 DEF Delivery!Next
<1>8. ASSUME NEW B \in wire, ServerStores(B) \/ ServerDoesNot(B)
      PROVE  [Delivery!Next]_EventStatus
  <2>1. B \in SUBSET Requests /\ B \subseteq buffer \cup Travelling
    BY DEF IInv, TypeOK, Travelling
  <2>2. buffer' = buffer /\ wire' = wire \ {B} /\ req' = req
    BY <1>8 DEF ServerStores, ServerDoesNot
  <2>3. Travelling' = Travelling \ B /\ buffer \cap B = {}
    BY <2>2 DEF Travelling, IInv, InOnePlace, TypeOK
  <2>4. buffer' \cup Travelling' = (buffer \cup Travelling) \ B
    BY <2>2, <2>3
  <2>5. \/ ingested' = ingested
        \/ ingested' = [r \in Requests |-> IF r \in B THEN ingested[r] + 1 ELSE ingested[r]]
    BY <1>8 DEF ServerStores, ServerDoesNot
  <2>6. Delivery!Deliver(B) \/ Delivery!Drop(B)
    BY <2>1, <2>2, <2>4, <2>5, Settles
  <2> QED
    BY <2>1, <2>6 DEF Delivery!Next
<1> QED
  <2>1. Loop \in Tasks
    BY DEF Tasks
  <2> QED
    BY <1>1, <1>2, <1>3, <1>4, <1>5, <1>6, <1>7, <1>8, <2>1 DEF Next, Delivery!Next

(* The client implements the promise of TelemetryDelivery, with any number   *)
(* of flushes in flight, however stop() and the server interleave with them. *)
THEOREM ImplementsDelivery == Spec => DeliversAtMostOnce
<1>1. Init => Delivery!Init
  BY DEF Init, Delivery!Init, EventStatus
<1> QED
  BY <1>1, RefinementStep, Invariance, PTL DEF Spec, DeliversAtMostOnce, Delivery!Spec
=============================================================================

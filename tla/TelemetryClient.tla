-------------------------- MODULE TelemetryClient --------------------------
(* The SDK of PulseOps: the Starlette middleware that records one event per  *)
(* instrumented request (sdk/pulseops_sdk/middleware.py) and the client that *)
(* batches events and posts them (sdk/pulseops_sdk/client.py).               *)
(*                                                                           *)
(* Everything runs on one asyncio loop, so the code between two awaits is    *)
(* one action.  The `async with self._lock` of _flush holds no await: taking *)
(* the buffer and clearing it is one step, and the lock is never contended.  *)
(* The awaits that matter are the sleep of the periodic loop, the POST, and  *)
(* the three awaits of stop().                                               *)
(*                                                                           *)
(* An event is named by the request it describes.  The task an enqueue       *)
(* creates is named by the request whose event filled the batch.             *)
EXTENDS Naturals, FiniteSets

CONSTANTS
    Requests,   \* the requests the instrumented application serves
    Excluded,   \* those on a path of config.excluded_paths
    BatchSize,  \* config.batch_size
    Loop,       \* the task running _flush_loop
    Stop        \* the coroutine running stop(), as the caller of _flush

ASSUME ClientAssumption ==
    /\ IsFiniteSet(Requests)
    /\ Excluded \subseteq Requests
    /\ BatchSize \in Nat \ {0}
    /\ Loop \notin Requests
    /\ Stop \notin Requests
    /\ Loop # Stop

VARIABLES
    phase,      \* what start() and stop() have done so far
    req,        \* where each request is in dispatch()
    buffer,     \* _buffer: the events waiting for a flush
    task,       \* what each flushing task is doing
    batch,      \* the local `batch` of a task inside the POST
    wire,       \* the batches posted and not yet settled by the server
    ingested,   \* how many times the server has stored each event
    cut         \* the events of POSTs that stop() broke off

vars == <<phase, req, buffer, task, batch, wire, ingested, cut>>

Tasks == Requests \cup {Loop, Stop}
Phases == {"new", "running", "stopping", "flushing", "closed", "exited"}

(* Types; and a task holds a batch exactly while it is inside the POST.      *)
TypeOK ==
    /\ phase \in Phases
    /\ req \in [Requests -> {"idle", "running", "recorded", "skipped"}]
    /\ buffer \subseteq Requests
    /\ task \in [Tasks -> {"none", "sleeping", "ready", "posting", "ended"}]
    /\ batch \in [Tasks -> SUBSET Requests]
    /\ wire \subseteq SUBSET Requests
    /\ ingested \in [Requests -> Nat]
    /\ cut \subseteq Requests
    /\ \A t \in Tasks : batch[t] # {} <=> task[t] = "posting"

Init ==
    /\ phase = "new"
    /\ req = [r \in Requests |-> "idle"]
    /\ buffer = {}
    /\ task = [t \in Tasks |-> "none"]
    /\ batch = [t \in Tasks |-> {}]
    /\ wire = {}
    /\ ingested = [r \in Requests |-> 0]
    /\ cut = {}

----------------------------------------------------------------------------
(* The middleware.  start() has no await, so the double-checked start under  *)
(* _start_lock completes in the step that finds the client not started.      *)

Start ==
    IF phase = "new"
      THEN phase' = "running" /\ task' = [task EXCEPT ![Loop] = "sleeping"]
      ELSE UNCHANGED <<phase, task>>

BeginExcluded(r) ==
    /\ phase # "exited"
    /\ req[r] = "idle"
    /\ r \in Excluded
    /\ req' = [req EXCEPT ![r] = "skipped"]
    /\ UNCHANGED <<phase, buffer, task, batch, wire, ingested, cut>>

Begin(r) ==
    /\ phase # "exited"
    /\ req[r] = "idle"
    /\ r \notin Excluded
    /\ Start
    /\ req' = [req EXCEPT ![r] = "running"]
    /\ UNCHANGED <<buffer, batch, wire, ingested, cut>>

FinishUnlessAtSize(r) ==
    /\ phase # "exited"
    /\ req[r] = "running"
    /\ req' = [req EXCEPT ![r] = "recorded"]
    /\ buffer' = buffer \cup {r}
    /\ task' = IF Cardinality(buffer) >= BatchSize
                 THEN [task EXCEPT ![r] = "ready"] ELSE task
    /\ UNCHANGED <<phase, batch, wire, ingested, cut>>

(* call_next returned, or raised an Exception: either way one event, and a   *)
(* flush at once when it fills the batch.                                    *)
Finish(r) ==
    /\ phase # "exited"
    /\ req[r] = "running"
    /\ req' = [req EXCEPT ![r] = "recorded"]
    /\ buffer' = buffer \cup {r}
    /\ task' = IF Cardinality(buffer') >= BatchSize
                 THEN [task EXCEPT ![r] = "ready"] ELSE task
    /\ UNCHANGED <<phase, batch, wire, ingested, cut>>

(* A CancelledError (the caller went away) is no Exception: no event.        *)
Cancel(r) ==
    /\ phase # "exited"
    /\ req[r] = "running"
    /\ req' = [req EXCEPT ![r] = "skipped"]
    /\ UNCHANGED <<phase, buffer, task, batch, wire, ingested, cut>>

----------------------------------------------------------------------------
(* _flush: take the buffer and clear it, then POST what was taken.  Once the *)
(* HTTP client is closed the POST raises at once and the batch is discarded. *)

IdleOneShot(t) == "ended"

Idle(t) == IF t = Loop THEN "sleeping" ELSE "ended"

FlushKeepingBuffer(t) ==
    IF buffer = {} \/ phase \in {"new", "closed"}
      THEN /\ buffer' = {}
           /\ task' = [task EXCEPT ![t] = Idle(t)]
           /\ UNCHANGED <<batch, wire>>
      ELSE /\ task' = [task EXCEPT ![t] = "posting"]
           /\ batch' = [batch EXCEPT ![t] = buffer]
           /\ wire' = wire \cup {buffer}
           /\ UNCHANGED buffer

Flush(t) ==
    IF buffer = {} \/ phase \in {"new", "closed"}
      THEN /\ buffer' = {}
           /\ task' = [task EXCEPT ![t] = Idle(t)]
           /\ UNCHANGED <<batch, wire>>
      ELSE /\ buffer' = {}
           /\ task' = [task EXCEPT ![t] = "posting"]
           /\ batch' = [batch EXCEPT ![t] = buffer]
           /\ wire' = wire \cup {buffer}

(* The sleep of _flush_loop is over.                                         *)
Tick ==
    /\ phase = "running"
    /\ task[Loop] = "sleeping"
    /\ Flush(Loop)
    /\ UNCHANGED <<phase, req, ingested, cut>>

(* The event loop runs a task that enqueue() created.                        *)
RunTask(r) ==
    /\ phase # "exited"
    /\ task[r] = "ready"
    /\ Flush(r)
    /\ UNCHANGED <<phase, req, ingested, cut>>

PostEndsWithRetry(t) ==
    /\ phase # "exited"
    /\ t = Loop => phase = "running"
    /\ task[t] = "posting"
    /\ task' = [task EXCEPT ![t] = Idle(t)]
    /\ batch' = [batch EXCEPT ![t] = {}]
    /\ buffer' = buffer \cup batch[t]
    /\ UNCHANGED <<phase, req, wire, ingested, cut>>

PostEndsKeepingBatch(t) ==
    /\ phase # "exited"
    /\ t = Loop => phase = "running"
    /\ task[t] = "posting"
    /\ task' = [task EXCEPT ![t] = Idle(t)]
    /\ UNCHANGED <<phase, req, buffer, batch, wire, ingested, cut>>

(* The POST is over: a response of any status, a timeout, a network or any   *)
(* other error.  All of them are only logged, and the batch is forgotten.    *)
PostEnds(t) ==
    /\ phase # "exited"
    /\ t = Loop => phase = "running"
    /\ task[t] = "posting"
    /\ task' = [task EXCEPT ![t] = Idle(t)]
    /\ batch' = [batch EXCEPT ![t] = {}]
    /\ UNCHANGED <<phase, req, buffer, wire, ingested, cut>>

----------------------------------------------------------------------------
(* stop(): cancel the periodic task and wait for it, flush once more, close  *)
(* the HTTP client.  Requests are served and tasks run between its awaits.   *)

StopCalled ==
    /\ phase = "running"
    /\ phase' = "stopping"
    /\ UNCHANGED <<req, buffer, task, batch, wire, ingested, cut>>

LoopCancelledAsleep ==
    /\ phase = "stopping"
    /\ task[Loop] = "sleeping"
    /\ task' = [task EXCEPT ![Loop] = "ended"]
    /\ UNCHANGED <<phase, req, buffer, batch, wire, ingested, cut>>

(* CancelledError ends the periodic task in its sleep, or inside its POST,   *)
(* where no handler of _flush catches it.                                    *)
LoopCancelled ==
    /\ phase = "stopping"
    /\ task[Loop] \in {"sleeping", "posting"}
    /\ task' = [task EXCEPT ![Loop] = "ended"]
    /\ batch' = [batch EXCEPT ![Loop] = {}]
    /\ cut' = cut \cup batch[Loop]
    /\ UNCHANGED <<phase, req, buffer, wire, ingested>>

FinalFlush ==
    /\ phase = "stopping"
    /\ task[Loop] = "ended"
    /\ phase' = "flushing"
    /\ Flush(Stop)
    /\ UNCHANGED <<req, ingested, cut>>

(* aclose() takes the connections from the POSTs still in flight.            *)
Close ==
    /\ phase = "flushing"
    /\ task[Stop] = "ended"
    /\ phase' = "closed"
    /\ cut' = cut \cup UNION {batch[t] : t \in {u \in Tasks : task[u] = "posting"}}
    /\ UNCHANGED <<req, buffer, task, batch, wire, ingested>>

(* The process ends, with or without stop(): nothing is persisted.           *)
Exit ==
    /\ phase # "exited"
    /\ phase' = "exited"
    /\ req' = [r \in Requests |-> IF req[r] = "running" THEN "skipped" ELSE req[r]]
    /\ buffer' = {}
    /\ task' = [t \in Tasks |-> "ended"]
    /\ batch' = [t \in Tasks |-> {}]
    /\ UNCHANGED <<wire, ingested, cut>>

----------------------------------------------------------------------------
(* The ingestion API, as the client sees it: a posted batch is stored whole, *)
(* perhaps after the client has given up waiting, or it never is (refused,   *)
(* failed or lost).                                                          *)

ServerStores(B) ==
    /\ wire' = wire \ {B}
    /\ ingested' = [r \in Requests |-> IF r \in B THEN ingested[r] + 1 ELSE ingested[r]]
    /\ UNCHANGED <<phase, req, buffer, task, batch, cut>>

ServerDoesNot(B) ==
    /\ wire' = wire \ {B}
    /\ UNCHANGED <<phase, req, buffer, task, batch, ingested, cut>>

----------------------------------------------------------------------------

Next ==
    \/ \E r \in Requests : BeginExcluded(r) \/ Begin(r) \/ Finish(r) \/ Cancel(r)
    \/ Tick
    \/ \E r \in Requests : RunTask(r)
    \/ \E t \in Tasks : PostEnds(t)
    \/ StopCalled \/ LoopCancelled \/ FinalFlush \/ Close \/ Exit
    \/ \E B \in wire : ServerStores(B) \/ ServerDoesNot(B)

(* The event loop runs every task that is ready, the timer of the periodic   *)
(* loop fires, and config.timeout_seconds ends every POST.  Nothing is asked *)
(* of the application, of the caller of stop() or of the server.             *)
Fairness ==
    /\ WF_vars(Tick)
    /\ \A r \in Requests : WF_vars(RunTask(r))
    /\ \A t \in Tasks : WF_vars(PostEnds(t))
    /\ WF_vars(LoopCancelled) /\ WF_vars(FinalFlush) /\ WF_vars(Close)

Spec == Init /\ [][Next]_vars

FairSpec == Spec /\ Fairness

----------------------------------------------------------------------------
(* Properties *)

(* A recorded event is in one place at most: the buffer, one batch on the    *)
(* wire, or the server's store, and there once.  Neither the tasks that      *)
(* flush concurrently nor a POST the client gave up on duplicate it.         *)
InOnePlace ==
    /\ \A r \in buffer : ingested[r] = 0 /\ \A B \in wire : r \notin B
    /\ \A B \in wire : \A r \in B :
         ingested[r] = 0 /\ \A C \in wire : r \in C => C = B
    /\ \A r \in Requests : ingested[r] <= 1

(* A full buffer always has a task that is about to take it: enqueue() never *)
(* leaves batch_size events to wait for the timer, not even after stop().    *)
FullBufferHasTask ==
    Cardinality(buffer) >= BatchSize => \E r \in Requests : task[r] = "ready"

(* An event buffered while the periodic loop lives, or while stop() has yet  *)
(* to do its final flush, leaves the buffer.                                 *)
BufferIsFlushed ==
    \A r \in Requests :
      (r \in buffer /\ phase \in {"running", "stopping"}) ~> r \notin buffer

(* stop() returns: neither the cancelled task nor the final POST holds it.   *)
StopReturns == phase = "stopping" ~> phase \in {"closed", "exited"}

(* The docstring of stop(): "Flush remaining events and shut down cleanly".  *)
(* Read as: stop() itself breaks off no POST of events it found recorded.    *)
StopFlushesRemaining == cut = {}

(* The mapping to the abstract specification: an event is pending while some *)
(* part of the program or the network could still deliver it.                *)
EventStatus ==
    [r \in Requests |->
       IF req[r] # "recorded" THEN "unrecorded"
       ELSE IF ingested[r] > 1 THEN "duplicated"
       ELSE IF ingested[r] = 1 THEN "delivered"
       ELSE IF r \in buffer \/ \E B \in wire : r \in B THEN "pending"
       ELSE "dropped"]

Delivery == INSTANCE TelemetryDelivery WITH Events <- Requests, status <- EventStatus

(* The client implements the promise: at most once, batch by batch, and      *)
(* nothing given up is delivered later.                                      *)
DeliversAtMostOnce == Delivery!Spec
=============================================================================

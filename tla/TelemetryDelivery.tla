------------------------- MODULE TelemetryDelivery -------------------------
(* What the SDK promises of a recorded telemetry event, and all it promises: *)
(* it is delivered at most once, together with the rest of its batch, and    *)
(* once it has been given up it is never delivered.  There is no             *)
(* retry: "if the ingestion API is down, we log the error and discard the    *)
(* batch" (sdk/pulseops_sdk/client.py).                                      *)
CONSTANT Events

VARIABLE status

Statuses == {"unrecorded", "pending", "delivered", "dropped"}

Init == status = [e \in Events |-> "unrecorded"]

Move(S, from, to) ==
    /\ \A e \in S : status[e] = from
    /\ status' = [e \in Events |-> IF e \in S THEN to ELSE status[e]]

Record(e) == Move({e}, "unrecorded", "pending")

Deliver(S) == Move(S, "pending", "delivered")

Drop(S) == Move(S, "pending", "dropped")

Next ==
    \/ \E e \in Events : Record(e)
    \/ \E S \in SUBSET Events : Deliver(S) \/ Drop(S)

Spec == Init /\ [][Next]_status
=============================================================================

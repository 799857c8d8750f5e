-------------------------- MODULE MCAnomalyDetection --------------------------
(* Instances of AnomalyDetection for TLC: p1 and p2 list the project of s1   *)
(* and s2, q1 and q2 list s1 only.                                           *)
EXTENDS AnomalyDetection

CONSTANTS s1, s2, p1, p2, q1, q2

MCByName == <<s1, s2>>
MCScope == [r \in Requests |-> IF r \in {p1, p2} THEN ByName ELSE <<s1>>]

Verdict(stats, forest) == [stats |-> stats, forest |-> forest]
MCSignals == {Verdict({}, FALSE), Verdict({}, TRUE), Verdict({"latency", "throughput"}, FALSE)}
=============================================================================

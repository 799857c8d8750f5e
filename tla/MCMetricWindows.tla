--------------------------- MODULE MCMetricWindows ---------------------------
(* Instances of MetricWindows for TLC: a fast successful request of one      *)
(* endpoint, and a slow failing one of the other.  One of each has a p95 of  *)
(* 81.9 ms, of which 30 windows have an inexact mean in numpy's arithmetic;  *)
(* here it is inexact for every number of windows.                           *)
EXTENDS MetricWindows

CONSTANTS e1, e2

MCSamples == {[endpoint |-> e1, latency |-> 40, error |-> FALSE],
              [endpoint |-> e2, latency |-> 41, error |-> TRUE]}
MCInexact == {<<n, 819>> : n \in 1..12}
=============================================================================

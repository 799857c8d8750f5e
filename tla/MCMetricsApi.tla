---------------------------- MODULE MCMetricsApi ----------------------------
(* Instances of MetricsApi for TLC: s1 has been aggregated when it was       *)
(* critical, has become healthy and may be critical again, s2 has telemetry  *)
(* that nobody has aggregated, s3 has none; two overviews o1 and o2, a       *)
(* metrics read m1 of s1 and a health read h1 of s2 (MCOneTarget: both of    *)
(* s2).                                                                      *)
EXTENDS MetricsApi, TLC

CONSTANTS s1, s2, s3, o1, o2, m1, h1

MCByName == <<s1, s2, s3>>
MCUnordered == [r \in Reads |-> IF r = o1 THEN <<s1, s2, s3>> ELSE <<s2, s1, s3>>]
MCKind == [r \in Reads |-> CASE r \in {o1, o2} -> "overview"
                             [] r = m1 -> "metrics"
                             [] r = h1 -> "health"]
MCTarget == [r \in Reads |-> IF r = m1 THEN s1 ELSE s2]
MCOneTarget == [r \in Reads |-> s2]
MCFirstVersion == (s1 :> 2) @@ (s2 :> 1) @@ (s3 :> 0)
MCFirstHealth == (s1 :> 1) @@ (s2 :> 0) @@ (s3 :> 0)
MCMaxVersion == (s1 :> 3) @@ (s2 :> 1) @@ (s3 :> 0)
MCHealthAt == (0 :> "unknown") @@ (1 :> "critical") @@ (2 :> "healthy") @@ (3 :> "critical")
=============================================================================

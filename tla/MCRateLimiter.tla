--------------------------- MODULE MCRateLimiter ---------------------------
EXTENDS RateLimiter, TLC

CONSTANTS r1, r2, r3, r4, k1, k2

MCIdOf == (r1 :> k1) @@ (r2 :> k1) @@ (r3 :> k1) @@ (r4 :> k2)

(* The requests of k1 are interchangeable.                                   *)
Symmetric == Permutations({r1, r2, r3})
=============================================================================

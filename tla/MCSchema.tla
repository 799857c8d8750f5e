------------------------------ MODULE MCSchema ------------------------------
(* Instances of Schema for TLC: two anomalies, one row in every other table, *)
(* so that an incident and its service can keep anomalies of several kinds.  *)
EXTENDS Schema

CONSTANTS m1, m2

MCTwice == {"anomalies"}

MCSymmetry == Permutations({m1, m2})
=============================================================================

---------------------------- MODULE MCIngestion ----------------------------
(* Project P holds the service "web" from the start or gets it from the      *)
(* racing requests; project Q always has a service of the same name.         *)
EXTENDS Ingestion, TLC

CONSTANTS b1, b2, c1, v1, q0, k1, k2, P, Q, web, A, B

MCKeyOf == (b1 :> k1) @@ (b2 :> k2) @@ (v1 :> k1)
MCProjectOf == (k1 :> P) @@ (k2 :> P)
MCServiceOf == (b1 :> web) @@ (b2 :> web)
MCPathsOf == (b1 :> <<A, B>>) @@ (b2 :> <<B, A>>)
MCRegisters == c1 :> <<P, web>>
MCSeed == {[id |-> q0, project |-> Q, name |-> web]}
=============================================================================

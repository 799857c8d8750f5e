----------------------------- MODULE MCAccounts -----------------------------
(* Two registrations of one address typed differently and a third, whose     *)
(* organizations have one long name that is cut to "acme", an organization   *)
(* "acme", two projects of the long name, and API keys for one's own and for *)
(* another tenant's project.                                                 *)
EXTENDS Accounts, TLC

CONSTANTS r1, r2, r3, o1, p1, p2, k1, k2, acme, long

MCEmailOf == (r1 :> "ann") @@ (r2 :> "Ann") @@ (r3 :> "bob")
MCLower == [e \in Emails |-> IF e = "Ann" THEN "ann" ELSE e]
MCBaseOf == [a \in Named |-> IF a = o1 THEN <<acme>> ELSE <<long>>]
MCSize == (acme :> 1) @@ (long :> 3)
MCCut == [b \in {acme, long} |-> acme]
MCUserOf == [a \in {o1, p1, p2, k1, k2} |-> IF a = k2 THEN r3 ELSE r1]
MCOrgOf == [a \in {p1, p2, k1, k2} |-> IF a = k2 THEN r3 ELSE r1]
MCProjectOf == [k \in {k1, k2} |-> p1]
=============================================================================

---------------------------- MODULE MCProductApi ----------------------------
(***************************************************************************)
(* Small instances of ProductApi: q1 and q2 summarise on two processes     *)
(* with the same key, q3 analyses with that key too.                       *)
(***************************************************************************)
EXTENDS ProductApiProperties, TLC

CONSTANTS q1, q2, q3, g1, s1, k1, o1, p1, p2

MCOrgOf == [r \in SeedRows \cup Grants \cup Requests |-> o1]
MCProcOf == [q \in Requests |-> IF q = q2 THEN p2 ELSE p1]
MCEndpoint == [q \in Requests |-> IF q = q3 THEN "analyse" ELSE "summarise"]
MCKeyOf == [r \in SeedRows \cup Grants \cup Requests |-> IF r \in Requests THEN k1 ELSE None]
MCCredit == s1 :> 3 @@ [g \in Grants |-> 1]
MCGrantRole == [g \in Grants |-> "admin"]
=============================================================================

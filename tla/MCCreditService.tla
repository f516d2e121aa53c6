-------------------------- MODULE MCCreditService --------------------------
(***************************************************************************)
(* Small instances of CreditService.  Every request and row that a         *)
(* configuration may use is described once; the configuration chooses the  *)
(* sets.                                                                   *)
(*                                                                         *)
(* q1 and q2 carry the key k1, which the seed row s2 used before, and q4   *)
(* the unused key k2; q3 is an analysis without a key; q5 and q6 carry no  *)
(* key.  The seed row s3 holds k1 for the organisation o2.  A member asks  *)
(* for g2.                                                                 *)
(***************************************************************************)
EXTENDS CreditServiceProperties, FiniteSetsExt, TLC

CONSTANTS q1, q2, q3, q4, q5, q6, g1, g2, g3, s1, s2, s3, k1, k2, o1, o2, p1, p2

\* The value f gives to x, or d when f has no value for x.
Pick(f, S, d) == [x \in S |-> IF x \in DOMAIN f THEN f[x] ELSE d]

MCOrgOf == Pick(s3 :> o2, SeedRows \cup Grants \cup Requests, o1)
MCProcOf == Pick(q2 :> p2 @@ q4 :> p2 @@ q6 :> p2, Requests, p1)
OneProc == Pick(<<>>, Requests, p1)
MCEndpoint == Pick(q3 :> "analyse", Requests, "summarise")
MCKeyOf == Pick(q1 :> k1 @@ q2 :> k1 @@ q4 :> k2 @@ s2 :> k1 @@ s3 :> k1,
                SeedRows \cup Grants \cup Requests, None)
MCCredit == Pick(s1 :> 4 @@ s2 :> -1 @@ s3 :> 2 @@ g1 :> 1 @@ g2 :> 2 @@ g3 :> 2,
                 SeedRows \cup Grants, 0)
MCGrantRole == Pick(g2 :> "member", Grants, "admin")

\* The counting definition of the sum is the sum.
ASSUME \A S \in SUBSET Rows :
          SumAmount(S, Amount) = MapThenSumSet(LAMBDA r : Amount[r], S)
=============================================================================

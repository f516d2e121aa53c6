---------------------------- MODULE MCRateLimit ----------------------------
(***************************************************************************)
(* Three interchangeable requests of o1 on a process that fails open, one  *)
(* of o2 on a process that fails closed, one without a token.              *)
(***************************************************************************)
EXTENDS RateLimitProperties, TLC

CONSTANTS r1, r2, r3, r5, r6, o1, o2, p1, p2

MCOrgOf == [r \in Requests |-> CASE r = r5 -> o2 [] r = r6 -> None [] OTHER -> o1]
MCProcOf == [r \in Requests |-> IF r = r5 THEN p2 ELSE p1]
MCFailOpen == [p \in Procs |-> p = p1]
SameRequests == Permutations({r1, r2, r3})

\* Bound: these two arrive at time 0; that of o2 goes on at any time.
OthersArriveFirst == now > 0 => pc[r5] # "new" /\ pc[r6] # "new"
=============================================================================

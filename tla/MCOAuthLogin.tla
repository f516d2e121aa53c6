---------------------------- MODULE MCOAuthLogin ----------------------------
(***************************************************************************)
(* Two accounts and two domains.  l1 is account b's login in domain A; l2  *)
(* and l3 are account a's logins there; l4 is account a's login with an    *)
(* email of domain B.                                                      *)
(***************************************************************************)
EXTENDS OAuthLoginProperties, TLC

CONSTANTS l1, l2, l3, l4, a, b, domA, domB, mailA, mailB, mailC, r1

MCAccountOf == [l \in Logins |-> IF l = l1 THEN b ELSE a]
MCEmailOf == l1 :> mailB @@ l2 :> mailA @@ l3 :> mailA @@ l4 :> mailC
MCDomainOf == mailA :> domA @@ mailB :> domA @@ mailC :> domB
=============================================================================

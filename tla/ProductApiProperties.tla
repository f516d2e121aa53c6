------------------------ MODULE ProductApiProperties ------------------------
(***************************************************************************)
(* What must hold of the handlers in ProductApi.                           *)
(***************************************************************************)
EXTENDS ProductApi

\* Types of the handlers' variables.
ApiTypeOK ==
    /\ stage \in [Requests -> {"connect", "firstLookup", "deduct", "work", "refresh",
                               "enqueue", "store", "close", "done", "dead"}]
    /\ conns \subseteq Requests
    /\ cache \in [Orgs \X Endpoints \X Keys -> Requests \cup {None}]
    /\ jobs \subseteq {q \in Requests : Endpoint[q] = "summarise"}
    /\ answer \in [Requests -> Requests \cup {None}]

(***************************************************************************)
(* A debit is never in the ledger without its job row: the commit at       *)
(* product.py:207 covers both, whatever crashes around it.  An analyse     *)
(* call has no job; its debit is therefore never in the ledger at all.     *)
(***************************************************************************)
DebitHasJob == \A q \in Requests : q \in committed => q \in jobs

(***************************************************************************)
(* A job row exists only for a call that was debited or that repeats, with *)
(* the same key, a debited call of the same organisation; a refused or     *)
(* failed call never gets one.                                             *)
(***************************************************************************)
JobIsPaidOrRepeats ==
    \A q \in jobs :
        \/ q \in committed
        \/ /\ pc[q] = "reused"
           /\ found[q] \in committed
           /\ OrgOf[found[q]] = OrgOf[q]
           /\ KeyOf[found[q]] = KeyOf[q]

(***************************************************************************)
(* What a handler returns, or finds in the cache, describes a call of the  *)
(* same organisation to the same endpoint with the same key; and every job *)
(* a client is told of, also by a cached answer, is committed.             *)
(***************************************************************************)
AnswerDescribesSameCall ==
    \A q, x \in Requests : answer[q] = x /\ x # q =>
        OrgOf[x] = OrgOf[q] /\ Endpoint[x] = Endpoint[q] /\ KeyOf[x] = KeyOf[q]

AnsweredJobExists ==
    \A q \in Requests :
        Endpoint[q] = "summarise" /\ answer[q] # None => answer[q] \in jobs

(***************************************************************************)
(* Who waits for a connection holds nothing that another call may need to  *)
(* finish: no connection, no asyncio lock, no row lock, no uncommitted     *)
(* debit.  So waits for the pool (5 + 10 connections, database.py:47)      *)
(* never close a circle with the waits inside deduct_credits.              *)
(***************************************************************************)
ConnectionWaiterHoldsNothing ==
    \A q \in Requests : stage[q] \in {"connect", "refresh"} =>
        /\ q \notin conns \cup pending
        /\ orgLock[ProcOf[q]][OrgOf[q]] # q
        /\ \A r \in Rows : rowLock[r] # q

(***************************************************************************)
(* Every call is answered or dies with its process, with Redis failing or  *)
(* not: the cache is never waited for, and every way out of a handler      *)
(* gives its connection back.                                              *)
(***************************************************************************)
EveryCallEnds == <>(\A q \in Requests : stage[q] \in {"done", "dead"})

-----------------------------------------------------------------------------
(***************************************************************************)
(* "Duplicate idempotency: Return existing result" (ARCHITECTURE.md:192):  *)
(* a call that repeats another creates no job of its own.                  *)
(***************************************************************************)
RepeatCreatesNoJob == \A q \in jobs : pc[q] # "reused"
=============================================================================

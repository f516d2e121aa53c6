---------------------- MODULE CreditServiceProperties ----------------------
(***************************************************************************)
(* What must hold of CreditService.                                        *)
(***************************************************************************)
EXTENDS CreditService

(***************************************************************************)
(* Every organisation has a row in the ledger before the first paid call,  *)
(* so that SELECT ... FOR UPDATE (credit_service.py:75-79) has a row to    *)
(* lock.  The code does not ensure it: an organisation is created without  *)
(* rows.                                                                   *)
(***************************************************************************)
LedgerSeeded == \A o \in Orgs : SeedOf(o) # {}

\* Types of the variables.
TypeOK ==
    /\ pc \in [Requests -> InDeduct \cup Ended \cup {"idle", "deducted", "lost"}]
    /\ orgLock \in [Procs -> [Orgs -> Requests \cup {None}]]
    /\ committed \subseteq Rows
    /\ keyOf \in [Rows -> Keys \cup {None}]
    /\ expired \subseteq committed
    /\ rowLock \in [Rows -> Requests \cup {None}]
    /\ toLock \in [Requests -> SUBSET Rows]
    /\ found \in [Requests -> Rows \cup {None}]
    /\ nulled \in [Requests -> SUBSET Rows]
    /\ pending \subseteq Requests

\* Requests that have passed the balance check and may still be charged.
Paying == {q \in Requests : pc[q] \in {"insert", "deducted"}}

(***************************************************************************)
(* "Balance must never go negative" (ARCHITECTURE.md:143): no interleaving *)
(* of paid calls, grants and crashes takes the committed sum of an         *)
(* organisation below zero.                                                *)
(***************************************************************************)
NonNegativeBalance == \A o \in Orgs : Balance(o) >= 0

(***************************************************************************)
(* The balance that deduct_credits compared with the price at              *)
(* credit_service.py:89 still suffices at any later moment before the      *)
(* transaction ends, although the asyncio lock is released before it does. *)
(***************************************************************************)
CheckedBalanceStillSuffices == \A q \in Paying : Balance(OrgOf[q]) >= Cost(q)

(***************************************************************************)
(* One key pays once in 24 hours: two committed debits of an organisation  *)
(* that were given the same Idempotency-Key are never both within the TTL, *)
(* whatever clears a key and whoever raced (credit_service.py:53-73).      *)
(***************************************************************************)
OneDebitPerKey ==
    \A q, r \in committed :
        (/\ q # r
         /\ OrgOf[q] = OrgOf[r]
         /\ KeyOf[q] # None
         /\ KeyOf[q] = KeyOf[r]) => (q \in expired \/ r \in expired)

(***************************************************************************)
(* The ledger is append-only, and an idempotency key leaves a row only in  *)
(* the commit of the debit that takes it over, and only after the TTL: no  *)
(* refused, failed or crashed call strips a row of its key.                *)
(***************************************************************************)
KeyChangesHands ==
    [][/\ committed \subseteq committed'
       /\ \A r \in committed :
             keyOf'[r] # keyOf[r] =>
                 /\ r \in expired
                 /\ \E q \in committed' \ committed :
                        OrgOf[q] = OrgOf[r] /\ keyOf'[q] = keyOf[r]]_vars

(***************************************************************************)
(* A call answered as a repetition repeats a committed call of the same    *)
(* organisation with the same key: never another tenant's, and never one   *)
(* that was rolled back.                                                   *)
(***************************************************************************)
ReuseRepeatsOwnCall ==
    \A q \in Requests : pc[q] = "reused" =>
        /\ found[q] \in committed
        /\ OrgOf[found[q]] = OrgOf[q]
        /\ KeyOf[found[q]] = KeyOf[q]

(***************************************************************************)
(* The asyncio lock keeps the requests of one process out of each other's  *)
(* way in PostgreSQL: a cycle of waiting transactions, of which the        *)
(* deadlock detector aborts one, spans two processes                       *)
(* (credit_service.py:48).                                                 *)
(***************************************************************************)
DeadlockSpansProcesses ==
    \A D \in SUBSET Requests :
        IsWaitCycle(D) => \E q, r \in D : ProcOf[q] # ProcOf[r]

(***************************************************************************)
(* Every request that arrives is answered or dies with its process: no     *)
(* asyncio lock, row lock or unique-index wait blocks one for ever.        *)
(***************************************************************************)
EveryRequestEnds == <>(\A q \in Requests : pc[q] \in Ended)

(***************************************************************************)
(* The ledger that the committed rows represent.                           *)
(***************************************************************************)
Ledger == INSTANCE CreditLedger WITH
    Prices <- {AnalysisCost, SummariseCost},
    GrantSizes <- {Credit[g] : g \in Grants},
    OpeningBalance <- [o \in Orgs |-> SumAmount(SeedOf(o), Amount)],
    balance <- [o \in Orgs |-> Balance(o)],
    live <- {<<OrgOf[r], keyOf[r]>> : r \in {x \in committed \ expired : keyOf[x] # None}}

(***************************************************************************)
(* Grants, paid calls and the lapse of a key are atomic steps of the       *)
(* abstract ledger, and nothing else changes it: the statements, locks,    *)
(* rollbacks and crashes in between are invisible.                         *)
(***************************************************************************)
ImplementsLedger == Ledger!LedgerSpec

-----------------------------------------------------------------------------
(***************************************************************************)
(* What a document says and the code does not do: a duplicate of a call is *)
(* answered with the existing transaction (ARCHITECTURE.md:91); it never   *)
(* fails on the unique index.                                              *)
(***************************************************************************)
DuplicateIsReused == \A q \in Requests : pc[q] # "conflict"
=============================================================================

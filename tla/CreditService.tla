--------------------------- MODULE CreditService ---------------------------
(***************************************************************************)
(* Paid calls and grants against the credit ledger, as PostgreSQL at READ  *)
(* COMMITTED and several server processes execute them.                    *)
(*                                                                         *)
(* A request's handler has opened a transaction (get_current_user has run  *)
(* a SELECT in the session it shares with the handler) and calls           *)
(* deduct_credits, which therefore runs in a savepoint under the           *)
(* process's asyncio lock of the organisation.  One action is one          *)
(* statement sent to the database, or one lock taken; between two of them  *)
(* any other request may run.                                              *)
(*                                                                         *)
(* A row of credit_transactions is named by what inserts it: a row that is *)
(* there at the start, a grant, or a request (the debit it appends).  Its  *)
(* organisation and its amount never change; only idempotency_key does.    *)
(***************************************************************************)
EXTENDS LedgerSum

CONSTANTS
    Orgs,           \* organisations
    Procs,          \* server processes, each with its own _ORG_LOCKS
    Requests,       \* calls of POST /api/analyse and POST /api/summarise
    Grants,         \* calls of POST /credits/grant
    SeedRows,       \* rows committed before the behaviour starts
    Keys,           \* values of the Idempotency-Key header
    None,           \* no key, no row, no request
    OrgOf,          \* the organisation of each row, grant and request
    ProcOf,         \* the process that serves each request
    Endpoint,       \* the endpoint each request calls
    KeyOf,          \* the Idempotency-Key each row was or will be given
    Credit,         \* the amount of each seed row and of each grant
    GrantRole,      \* the role of the user who asks for each grant
    AnalysisCost,   \* ANALYSIS_COST
    SummariseCost   \* SUMMARISE_COST

Rows == SeedRows \cup Grants \cup Requests

Cost(q) == IF Endpoint[q] = "analyse" THEN AnalysisCost ELSE SummariseCost

\* The column "amount": a debit is appended with the opposite of its price.
Amount == [r \in Rows |-> IF r \in Requests THEN -Cost(r) ELSE Credit[r]]

SeedOf(o) == {s \in SeedRows : OrgOf[s] = o}

\* POST /credits/grant never sets an idempotency key.
ASSUME RowsAssumption ==
    /\ IsFiniteSet(Rows)
    /\ SeedRows \cap Grants = {}
    /\ SeedRows \cap Requests = {}
    /\ Grants \cap Requests = {}
    /\ None \notin Rows \cup Keys

ASSUME ParametersAssumption ==
    /\ OrgOf \in [Rows -> Orgs]
    /\ ProcOf \in [Requests -> Procs]
    /\ Endpoint \in [Requests -> {"analyse", "summarise"}]
    /\ KeyOf \in [Rows -> Keys \cup {None}]
    /\ \A g \in Grants : KeyOf[g] = None
    /\ GrantRole \in [Grants -> {"admin", "member"}]

ASSUME AmountsAssumption ==
    /\ Credit \in [SeedRows \cup Grants -> Int]
    /\ \A g \in Grants : Credit[g] > 0
    /\ AnalysisCost \in Nat \ {0}
    /\ SummariseCost \in Nat \ {0}

\* The ledger at the start is one the program can have produced.
ASSUME SeedAssumption ==
    /\ \A o \in Orgs : SumAmount(SeedOf(o), Amount) >= 0
    /\ \A r, s \in SeedRows :
          (OrgOf[r] = OrgOf[s] /\ KeyOf[r] = KeyOf[s] /\ KeyOf[r] # None) => r = s

VARIABLES
    pc,         \* where each request is
    orgLock,    \* _ORG_LOCKS of each process: who is inside deduct_credits
    committed,  \* the committed rows
    keyOf,      \* the committed idempotency_key of each row
    expired,    \* the rows created more than IDEMPOTENCY_TTL_HOURS ago
    rowLock,    \* the transaction that holds each row's lock
    toLock,     \* the rows a SELECT ... FOR UPDATE has still to lock
    found,      \* the row with the request's key that deduct_credits read
    nulled,     \* rows whose key the open transaction has set to NULL
    pending     \* requests whose debit is inserted and not committed

dbVars == <<committed, keyOf, expired>>
txVars == <<rowLock, toLock, found, nulled, pending>>
vars == <<pc, orgLock, dbVars, txVars>>

\* The statements of deduct_credits, run while holding the asyncio lock.
InDeduct == {"lookup", "clearKey", "forUpdate", "locking", "insert"}

\* How a request may end in this module.
Ended == {"charged", "unpaid", "reused", "refused", "conflict", "failed", "crashed"}

-----------------------------------------------------------------------------
OrgRows(o) == {r \in committed : OrgOf[r] = o}

Balance(o) == SumAmount(OrgRows(o), Amount)

\* Mutant of WithKey: the lookup forgets the organisation.
WithKeyOfAnyOrg(q) == {r \in committed : keyOf[r] = KeyOf[q]}

\* Rows the request sees with its organisation and key.
WithKey(q) == {r \in OrgRows(OrgOf[q]) : keyOf[r] = KeyOf[q]}

HasKey(q) == KeyOf[q] # None

\* Mutant of ReleaseOrgLock: the process's whole lock table is dropped.
DropOrgLocks(q) == orgLock' = [orgLock EXCEPT ![ProcOf[q]] = None]

(***************************************************************************)
(* Leaving "async with _ORG_LOCKS[...]".                                   *)
(***************************************************************************)
ReleaseOrgLock(q) ==
    orgLock' = [orgLock EXCEPT ![ProcOf[q]][OrgOf[q]] = None]

(***************************************************************************)
(* The end of q's transaction frees its row locks.                         *)
(***************************************************************************)
ReleaseRows(q) ==
    /\ rowLock' = [r \in Rows |-> IF rowLock[r] = q THEN None ELSE rowLock[r]]
    /\ toLock' = [toLock EXCEPT ![q] = {}]
    /\ nulled' = [nulled EXCEPT ![q] = {}]
    /\ pending' = pending \ {q}

\* Mutant of Rollback: the cleared key was written outside the savepoint.
RollbackKeepsClear(q) ==
    /\ ReleaseRows(q)
    /\ keyOf' = [r \in Rows |-> IF r \in nulled[q] THEN None ELSE keyOf[r]]
    /\ UNCHANGED <<committed, expired, found>>

(***************************************************************************)
(* ROLLBACK, or ROLLBACK TO SAVEPOINT: all that the transaction wrote and  *)
(* locked was written and locked in the savepoint.                         *)
(***************************************************************************)
Rollback(q) == ReleaseRows(q) /\ UNCHANGED <<dbVars, found>>

-----------------------------------------------------------------------------
Init ==
    /\ pc = [q \in Requests |-> "idle"]
    /\ orgLock = [p \in Procs |-> [o \in Orgs |-> None]]
    /\ committed = SeedRows
    /\ keyOf = [r \in Rows |-> IF r \in SeedRows THEN KeyOf[r] ELSE None]
    /\ expired = {}
    /\ rowLock = [r \in Rows |-> None]
    /\ toLock = [q \in Requests |-> {}]
    /\ found = [q \in Requests |-> None]
    /\ nulled = [q \in Requests |-> {}]
    /\ pending = {}

\* Mutant of AcquireOrgLock: the asyncio lock is not taken.
EnterUnlocked(q) ==
    /\ pc[q] = "idle"
    /\ pc' = [pc EXCEPT ![q] = IF HasKey(q) THEN "lookup" ELSE "forUpdate"]
    /\ UNCHANGED <<orgLock, dbVars, txVars>>

(***************************************************************************)
(* async with _ORG_LOCKS[str(organisation_id)], then SAVEPOINT.            *)
(***************************************************************************)
AcquireOrgLock(q) ==
    /\ pc[q] = "idle"
    /\ orgLock[ProcOf[q]][OrgOf[q]] = None
    /\ orgLock' = [orgLock EXCEPT ![ProcOf[q]][OrgOf[q]] = q]
    /\ pc' = [pc EXCEPT ![q] = IF HasKey(q) THEN "lookup" ELSE "forUpdate"]
    /\ UNCHANGED <<dbVars, txVars>>

(***************************************************************************)
(* SELECT ... WHERE organisation_id = ? AND idempotency_key = ?            *)
(***************************************************************************)
LookupMiss(q) ==
    /\ pc[q] = "lookup"
    /\ WithKey(q) = {}
    /\ pc' = [pc EXCEPT ![q] = "forUpdate"]
    /\ UNCHANGED <<orgLock, dbVars, txVars>>

\* existing_created_at >= cutoff: return the existing row.
LookupFresh(q) ==
    /\ pc[q] = "lookup"
    /\ \E r \in WithKey(q) \ expired :
          /\ found' = [found EXCEPT ![q] = r]
          /\ pc' = [pc EXCEPT ![q] = "reused"]
    /\ ReleaseOrgLock(q)
    /\ UNCHANGED <<dbVars, rowLock, toLock, nulled, pending>>

\* Mutant of LookupExpired: the age of the row is not compared with cutoff.
LookupAnyAge(q) ==
    /\ pc[q] = "lookup"
    /\ \E r \in WithKey(q) :
          /\ found' = [found EXCEPT ![q] = r]
          /\ pc' = [pc EXCEPT ![q] = "clearKey"]
    /\ UNCHANGED <<orgLock, dbVars, rowLock, toLock, nulled, pending>>

LookupExpired(q) ==
    /\ pc[q] = "lookup"
    /\ \E r \in WithKey(q) \cap expired :
          /\ found' = [found EXCEPT ![q] = r]
          /\ pc' = [pc EXCEPT ![q] = "clearKey"]
    /\ UNCHANGED <<orgLock, dbVars, rowLock, toLock, nulled, pending>>

(***************************************************************************)
(* existing.idempotency_key = None, flushed: an UPDATE, which waits for    *)
(* and then takes the row's lock.                                          *)
(***************************************************************************)
ClearKey(q) ==
    /\ pc[q] = "clearKey"
    /\ rowLock[found[q]] = None
    /\ rowLock' = [rowLock EXCEPT ![found[q]] = q]
    /\ nulled' = [nulled EXCEPT ![q] = {found[q]}]
    /\ pc' = [pc EXCEPT ![q] = "forUpdate"]
    /\ UNCHANGED <<orgLock, dbVars, toLock, found, pending>>

\* Mutant of StartForUpdate: a SELECT without FOR UPDATE.
StartPlainSelect(q) ==
    /\ pc[q] = "forUpdate"
    /\ pc' = [pc EXCEPT ![q] = "locking"]
    /\ UNCHANGED <<orgLock, dbVars, txVars>>

(***************************************************************************)
(* SELECT id ... FOR UPDATE.  The statement's snapshot fixes the rows it   *)
(* will lock; it locks them one by one, in an order no ORDER BY prescribes *)
(* and waits at each that another transaction holds.                       *)
(***************************************************************************)
StartForUpdate(q) ==
    /\ pc[q] = "forUpdate"
    /\ toLock' = [toLock EXCEPT ![q] = OrgRows(OrgOf[q])]
    /\ pc' = [pc EXCEPT ![q] = "locking"]
    /\ UNCHANGED <<orgLock, dbVars, rowLock, found, nulled, pending>>

LockRow(q) ==
    /\ pc[q] = "locking"
    /\ \E r \in toLock[q] :
          /\ rowLock[r] \in {None, q}
          /\ rowLock' = [rowLock EXCEPT ![r] = q]
          /\ toLock' = [toLock EXCEPT ![q] = @ \ {r}]
    /\ UNCHANGED <<pc, orgLock, dbVars, found, nulled, pending>>

\* Mutant of SufficientBalance: the comparison is off by one.
AlmostSufficient(q) ==
    /\ pc[q] = "locking"
    /\ toLock[q] = {}
    /\ Balance(OrgOf[q]) + 1 >= Cost(q)
    /\ pc' = [pc EXCEPT ![q] = "insert"]
    /\ UNCHANGED <<orgLock, dbVars, txVars>>

(***************************************************************************)
(* SELECT coalesce(sum(amount), 0), a statement with a snapshot of its     *)
(* own, and the comparison of its result with the price.                   *)
(***************************************************************************)
SufficientBalance(q) ==
    /\ pc[q] = "locking"
    /\ toLock[q] = {}
    /\ Balance(OrgOf[q]) >= Cost(q)
    /\ pc' = [pc EXCEPT ![q] = "insert"]
    /\ UNCHANGED <<orgLock, dbVars, txVars>>

\* Mutant of InsufficientBalance: the error path leaves the lock acquired.
InsufficientStaysLocked(q) ==
    /\ pc[q] = "locking"
    /\ toLock[q] = {}
    /\ Balance(OrgOf[q]) < Cost(q)
    /\ pc' = [pc EXCEPT ![q] = "refused"]
    /\ Rollback(q)
    /\ UNCHANGED orgLock

\* InsufficientCreditsError leaves the savepoint and the asyncio lock: 402.
InsufficientBalance(q) ==
    /\ pc[q] = "locking"
    /\ toLock[q] = {}
    /\ Balance(OrgOf[q]) < Cost(q)
    /\ pc' = [pc EXCEPT ![q] = "refused"]
    /\ ReleaseOrgLock(q)
    /\ Rollback(q)

(***************************************************************************)
(* INSERT.  The unique index on (organisation_id, idempotency_key) makes   *)
(* it wait for the transactions that have inserted, or are clearing, the   *)
(* same key; then either it succeeds or it raises IntegrityError.          *)
(***************************************************************************)
SameKey(q, x) == HasKey(q) /\ OrgOf[x] = OrgOf[q] /\ KeyOf[x] = KeyOf[q]

InsertWaitsFor(q) ==
    {x \in Requests \ {q} :
        \/ x \in pending /\ SameKey(q, x)
        \/ HasKey(q) /\ WithKey(q) \cap nulled[x] # {}}

KeyTaken(q) == HasKey(q) /\ WithKey(q) \ nulled[q] # {}

\* Mutant of InsertDebit: leaving the savepoint frees the row locks.
InsertDebitUnlocks(q) ==
    /\ pc[q] = "insert"
    /\ InsertWaitsFor(q) = {}
    /\ ~KeyTaken(q)
    /\ pending' = pending \cup {q}
    /\ pc' = [pc EXCEPT ![q] = "deducted"]
    /\ rowLock' = [r \in Rows |-> IF rowLock[r] = q THEN None ELSE rowLock[r]]
    /\ ReleaseOrgLock(q)
    /\ UNCHANGED <<dbVars, toLock, found, nulled>>

InsertDebit(q) ==
    /\ pc[q] = "insert"
    /\ InsertWaitsFor(q) = {}
    /\ ~KeyTaken(q)
    /\ pending' = pending \cup {q}
    /\ pc' = [pc EXCEPT ![q] = "deducted"]
    /\ ReleaseOrgLock(q)
    /\ UNCHANGED <<dbVars, rowLock, toLock, found, nulled>>

\* Nothing catches the IntegrityError: 500, and the session is closed.
InsertConflict(q) ==
    /\ pc[q] = "insert"
    /\ InsertWaitsFor(q) = {}
    /\ KeyTaken(q)
    /\ pc' = [pc EXCEPT ![q] = "conflict"]
    /\ ReleaseOrgLock(q)
    /\ Rollback(q)

(***************************************************************************)
(* summarise_text commits the debit together with its job row.             *)
(***************************************************************************)
CommitDebit(q) ==
    /\ pc[q] = "deducted"
    /\ Endpoint[q] = "summarise"
    /\ committed' = committed \cup {q}
    /\ keyOf' = [r \in Rows |-> IF r = q THEN KeyOf[q]
                                ELSE IF r \in nulled[q] THEN None ELSE keyOf[r]]
    /\ pc' = [pc EXCEPT ![q] = "charged"]
    /\ ReleaseRows(q)
    /\ UNCHANGED <<orgLock, expired, found>>

(***************************************************************************)
(* get_db closes the session of a call that has not committed, and the     *)
(* transaction is rolled back: analyse_text returns without a commit,      *)
(* after it computed its answer, and in summarise_text a statement raises. *)
(***************************************************************************)
CloseUncommitted(q) ==
    /\ pc[q] = "deducted"
    /\ pc' = [pc EXCEPT ![q] = "unpaid"]
    /\ Rollback(q)
    /\ UNCHANGED orgLock

-----------------------------------------------------------------------------
(***************************************************************************)
(* grant_credits: one INSERT of a positive row without a key, committed.   *)
(* It takes no lock that the statements above wait for.                    *)
(***************************************************************************)
GrantCredits(g) ==
    /\ GrantRole[g] = "admin"
    /\ g \notin committed
    /\ committed' = committed \cup {g}
    /\ UNCHANGED <<pc, orgLock, keyOf, expired, txVars>>

\* 24 hours pass since r was created.  Only the age of a row with a key is
\* ever read.
Expire(r) ==
    /\ r \in committed \ expired
    /\ keyOf[r] # None
    /\ expired' = expired \cup {r}
    /\ UNCHANGED <<pc, orgLock, committed, keyOf, txVars>>

(***************************************************************************)
(* A statement raises: the exception leaves the savepoint and the asyncio  *)
(* lock, and nothing catches it (500).                                     *)
(***************************************************************************)
Abort(q) ==
    /\ pc' = [pc EXCEPT ![q] = "failed"]
    /\ ReleaseOrgLock(q)
    /\ Rollback(q)

\* The connection or the database fails, at any statement.
StatementFails(q) == pc[q] \in InDeduct /\ Abort(q)

(***************************************************************************)
(* PostgreSQL's deadlock detector: a transaction that waits for itself     *)
(* through others may be aborted.                                          *)
(***************************************************************************)
BlockedOn(q) ==
    CASE pc[q] = "clearKey" -> {rowLock[found[q]]} \ {None, q}
      [] pc[q] = "locking"  -> {rowLock[r] : r \in toLock[q]} \ {None, q}
      [] pc[q] = "insert"   -> InsertWaitsFor(q)
      [] OTHER              -> {}

\* Each member of D waits for a member of D, and one waits for it.
IsWaitCycle(D) ==
    /\ D # {}
    /\ \A x \in D : \E y \in D : y \in BlockedOn(x)
    /\ \A y \in D : \E x \in D : y \in BlockedOn(x)

InWaitCycle(q) == \E D \in SUBSET Requests : q \in D /\ IsWaitCycle(D)

DeadlockAbort(q) == InWaitCycle(q) /\ Abort(q)

(***************************************************************************)
(* A server process dies: its asyncio locks vanish with it, its open       *)
(* transactions stay in the database until their connections are reaped.   *)
(***************************************************************************)
InFlight(p) == {q \in Requests : ProcOf[q] = p /\ pc[q] \in InDeduct \cup {"deducted"}}

Crash(p) ==
    /\ InFlight(p) # {}
    /\ pc' = [q \in Requests |-> IF q \in InFlight(p) THEN "lost" ELSE pc[q]]
    /\ orgLock' = [orgLock EXCEPT ![p] = [o \in Orgs |-> None]]
    /\ UNCHANGED <<dbVars, txVars>>

Reap(q) ==
    /\ pc[q] = "lost"
    /\ pc' = [pc EXCEPT ![q] = "crashed"]
    /\ Rollback(q)
    /\ UNCHANGED orgLock

-----------------------------------------------------------------------------
\* The steps of deduct_credits.
DeductStep(q) ==
    \/ AcquireOrgLock(q)
    \/ LookupMiss(q) \/ LookupFresh(q) \/ LookupExpired(q)
    \/ ClearKey(q)
    \/ StartForUpdate(q) \/ LockRow(q)
    \/ SufficientBalance(q) \/ InsufficientBalance(q)
    \/ InsertDebit(q) \/ InsertConflict(q)

\* What the database does about a request without being asked.
DatabaseStep(q) == DeadlockAbort(q) \/ Reap(q)

Step(q) == DeductStep(q) \/ CommitDebit(q) \/ CloseUncommitted(q) \/ DatabaseStep(q)

Next ==
    \/ \E q \in Requests : Step(q) \/ StatementFails(q)
    \/ \E g \in Grants : GrantCredits(g)
    \/ \E r \in Rows : Expire(r)
    \/ \E p \in Procs : Crash(p)

Spec == Init /\ [][Next]_vars

(***************************************************************************)
(* The event loop runs every runnable coroutine, asyncio.Lock and the      *)
(* database's lock queues are first come first served, the deadlock        *)
(* detector runs after deadlock_timeout, and dead connections are reaped.  *)
(* Grants, crashes, failures and the passing of 24 hours are never owed.   *)
(***************************************************************************)
FairSpec == Spec /\ \A q \in Requests : WF_vars(Step(q))
=============================================================================

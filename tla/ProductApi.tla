----------------------------- MODULE ProductApi -----------------------------
(***************************************************************************)
(* The handlers of POST /api/analyse and POST /api/summarise around        *)
(* deduct_credits: the session and its connection from the process's pool, *)
(* the cache of answers in Redis that they consult before and after the    *)
(* deduction, the job row that summarise commits with the debit, and the   *)
(* answer.  CreditService supplies the ledger, the locks and the database; *)
(* its commit and rollback become the handlers'.                           *)
(*                                                                         *)
(* A session takes a connection at its first statement, gives it back when *)
(* a transaction ends and takes one again at the next statement.           *)
(*                                                                         *)
(* An answer is named by the request whose work it describes: the one that *)
(* computed it or, for a repetition served from the cache, an earlier one. *)
(* Enqueueing the job is SummariseJob's subject: here it is a step that    *)
(* may fail.                                                               *)
(***************************************************************************)
EXTENDS CreditService

CONSTANT PoolSize  \* pool_size + max_overflow of a process's engine

ASSUME PoolAssumption == PoolSize \in Nat \ {0}

VARIABLES
    stage,   \* where each handler is
    conns,   \* requests whose session has a connection
    cache,   \* idem:{organisation}:{endpoint}:{key} in Redis
    jobs,    \* requests that have committed a job row
    answer   \* the answer each handler has computed or returned

apiVars == <<stage, conns, cache, jobs, answer>>

Endpoints == {"analyse", "summarise"}

\* Mutant of CacheSlot: the endpoint is left out of the cache key.
SlotWithoutEndpoint(q) == <<OrgOf[q], "summarise", KeyOf[q]>>

\* _idempotency_store_key.
CacheSlot(q) == <<OrgOf[q], Endpoint[q], KeyOf[q]>>

ApiInit ==
    /\ Init
    /\ stage = [q \in Requests |-> "connect"]
    /\ conns = {}
    /\ cache = [slot \in Orgs \X Endpoints \X Keys |-> None]
    /\ jobs = {}
    /\ answer = [q \in Requests |-> None]

-----------------------------------------------------------------------------
(***************************************************************************)
(* The first statement of a transaction checks a connection out of the     *)
(* pool and waits for one, at most 30 seconds.                             *)
(***************************************************************************)
PoolHasRoom(p) == Cardinality({x \in conns : ProcOf[x] = p}) < PoolSize

Checkout(q, next) ==
    /\ PoolHasRoom(ProcOf[q])
    /\ conns' = conns \cup {q}
    /\ stage' = [stage EXCEPT ![q] = next]
    /\ UNCHANGED <<vars, cache, jobs, answer>>

\* get_current_user's SELECT opens the session's transaction.
Authenticate(q) == stage[q] = "connect" /\ Checkout(q, "firstLookup")

(***************************************************************************)
(* _get_cached_idempotent_response.  A Redis error counts as a miss, so a  *)
(* miss is possible whatever the cache holds; that covers an entry that    *)
(* has expired (ex=86400) or was evicted, too.                             *)
(***************************************************************************)
CacheHit(q) ==
    /\ HasKey(q)
    /\ cache[CacheSlot(q)] # None
    /\ answer' = [answer EXCEPT ![q] = cache[CacheSlot(q)]]
    /\ stage' = [stage EXCEPT ![q] = "close"]
    /\ UNCHANGED <<vars, conns, cache, jobs>>

CacheMiss(q, next) ==
    /\ stage' = [stage EXCEPT ![q] = next]
    /\ UNCHANGED <<vars, conns, cache, jobs, answer>>

FirstLookup(q) ==
    /\ stage[q] = "firstLookup"
    /\ CacheHit(q) \/ CacheMiss(q, "deduct")

\* Mutant of Deduct: the connection is given back while the asyncio lock is
\* awaited, and taken again inside it.
LockThenConnect(q) ==
    /\ stage[q] = "deduct"
    /\ DeductStep(q)
    /\ IF pc[q] = "idle"
       THEN conns' = conns \ {q} /\ stage' = [stage EXCEPT ![q] = "connect"]
       ELSE UNCHANGED <<conns, stage>>
    /\ UNCHANGED <<cache, jobs, answer>>

\* deduct_credits, in the handler's session.
Deduct(q) ==
    /\ stage[q] = "deduct"
    /\ DeductStep(q)
    /\ UNCHANGED apiVars

\* A reused deduction: look in the cache again, and otherwise go on as if
\* the credits had been deducted.
SecondLookup(q) ==
    /\ stage[q] = "deduct"
    /\ pc[q] = "reused"
    /\ CacheHit(q) \/ CacheMiss(q, "work")

\* Mutant of MayWork: InsufficientCreditsError does not stop the handler.
MayWorkUnpaid(q) == pc[q] \in {"deducted", "refused"} \/ stage[q] = "work"

\* The handler goes past the deduction.
MayWork(q) == pc[q] = "deducted" \/ stage[q] = "work"

-----------------------------------------------------------------------------
\* Mutant of CreateJob: the job is added and not committed.
CreateJobUncommitted(q) ==
    /\ Endpoint[q] = "summarise"
    /\ stage[q] \in {"deduct", "work"}
    /\ MayWork(q)
    /\ stage' = [stage EXCEPT ![q] = "enqueue"]
    /\ UNCHANGED <<vars, conns, cache, jobs, answer>>

\* Mutant of CreateJob: the debit is committed before the job is added.
CommitThenAddJob(q) ==
    /\ Endpoint[q] = "summarise"
    /\ \/ pc[q] = "deducted" /\ CommitDebit(q) /\ UNCHANGED apiVars
       \/ /\ stage[q] \in {"deduct", "work"}
          /\ stage[q] = "deduct" => pc[q] = "charged"
          /\ jobs' = jobs \cup {q}
          /\ conns' = conns \ {q}
          /\ stage' = [stage EXCEPT ![q] = "refresh"]
          /\ UNCHANGED <<vars, cache, answer>>

(***************************************************************************)
(* summarise_text: the job row and the debit, if there is one, are         *)
(* committed together, and the connection goes back to the pool.           *)
(***************************************************************************)
CreateJob(q) ==
    /\ Endpoint[q] = "summarise"
    /\ stage[q] \in {"deduct", "work"}
    /\ MayWork(q)
    /\ IF pc[q] = "deducted" THEN CommitDebit(q) ELSE UNCHANGED vars
    /\ jobs' = jobs \cup {q}
    /\ conns' = conns \ {q}
    /\ stage' = [stage EXCEPT ![q] = "refresh"]
    /\ UNCHANGED <<cache, answer>>

\* db.refresh(job) begins the session's second transaction.
RefreshJob(q) == stage[q] = "refresh" /\ Checkout(q, "enqueue")

(***************************************************************************)
(* The job is enqueued, or its error is recorded and committed; the answer *)
(* is the same.                                                            *)
(***************************************************************************)
EnqueueJob(q) ==
    /\ stage[q] = "enqueue"
    /\ conns' \in {conns, conns \ {q}}
    /\ answer' = [answer EXCEPT ![q] = q]
    /\ stage' = [stage EXCEPT ![q] = "store"]
    /\ UNCHANGED <<vars, cache, jobs>>

\* Mutant of Analyse: the handler adds a job row as summarise does.
AnalyseAddsJob(q) ==
    /\ Endpoint[q] = "analyse"
    /\ stage[q] \in {"deduct", "work"}
    /\ MayWork(q)
    /\ jobs' = jobs \cup {q}
    /\ answer' = [answer EXCEPT ![q] = q]
    /\ stage' = [stage EXCEPT ![q] = "store"]
    /\ UNCHANGED <<vars, conns, cache>>

(***************************************************************************)
(* analyse_text: the result and the remaining credits are computed inside  *)
(* the transaction, which is never committed.                              *)
(***************************************************************************)
Analyse(q) ==
    /\ Endpoint[q] = "analyse"
    /\ stage[q] \in {"deduct", "work"}
    /\ MayWork(q)
    /\ answer' = [answer EXCEPT ![q] = q]
    /\ stage' = [stage EXCEPT ![q] = "store"]
    /\ UNCHANGED <<vars, conns, cache, jobs>>

(***************************************************************************)
(* _cache_idempotent_response: errors are swallowed.                       *)
(***************************************************************************)
StoreAnswer(q) ==
    /\ stage[q] = "store"
    /\ stage' = [stage EXCEPT ![q] = "close"]
    /\ cache' \in {cache} \cup
          (IF HasKey(q) THEN {[cache EXCEPT ![CacheSlot(q)] = answer[q]]} ELSE {})
    /\ UNCHANGED <<vars, conns, jobs, answer>>

\* An exception of deduct_credits leaves the handler: 402, or 500.
Refuse(q) ==
    /\ stage[q] = "deduct"
    /\ pc[q] \in {"refused", "conflict", "failed"}
    /\ stage' = [stage EXCEPT ![q] = "close"]
    /\ UNCHANGED <<vars, conns, cache, jobs, answer>>

(***************************************************************************)
(* 500: no connection within 30 seconds, or a statement that fails before, *)
(* in or past the deduction.  In "refresh" and "enqueue" the job and the   *)
(* debit are already committed.                                            *)
(***************************************************************************)
DeductFails(q) == stage[q] = "deduct" /\ StatementFails(q) /\ UNCHANGED apiVars

Fail(q) ==
    /\ \/ stage[q] \in {"connect", "work", "refresh", "enqueue"}
       \/ stage[q] = "deduct" /\ pc[q] = "deducted"
    /\ stage' = [stage EXCEPT ![q] = "close"]
    /\ UNCHANGED <<vars, conns, cache, jobs, answer>>

\* Mutant of CloseSession: the connection is not given back.
CloseKeepsConnection(q) ==
    /\ stage[q] = "close"
    /\ IF pc[q] = "deducted" THEN CloseUncommitted(q) ELSE UNCHANGED vars
    /\ stage' = [stage EXCEPT ![q] = "done"]
    /\ UNCHANGED <<conns, cache, jobs, answer>>

\* get_db closes the session when the handler has returned or raised.
CloseSession(q) ==
    /\ stage[q] = "close"
    /\ IF pc[q] = "deducted" THEN CloseUncommitted(q) ELSE UNCHANGED vars
    /\ conns' = conns \ {q}
    /\ stage' = [stage EXCEPT ![q] = "done"]
    /\ UNCHANGED <<cache, jobs, answer>>

-----------------------------------------------------------------------------
\* The requests that die with process p.
Handling(p) ==
    {q \in Requests : ProcOf[q] = p /\ stage[q] \notin {"connect", "done", "dead"}}

ServerCrash(p) ==
    /\ Handling(p) # {}
    /\ stage' = [q \in Requests |-> IF q \in Handling(p) THEN "dead" ELSE stage[q]]
    /\ conns' = conns \ Handling(p)
    /\ IF InFlight(p) # {} THEN Crash(p) ELSE UNCHANGED vars
    /\ UNCHANGED <<cache, jobs, answer>>

Database(q) == DatabaseStep(q) /\ UNCHANGED apiVars

Handler(q) ==
    \/ Authenticate(q)
    \/ FirstLookup(q) \/ Deduct(q) \/ SecondLookup(q) \/ Refuse(q)
    \/ CreateJob(q) \/ RefreshJob(q) \/ EnqueueJob(q)
    \/ Analyse(q) \/ StoreAnswer(q) \/ CloseSession(q)
    \/ Database(q)

ApiNext ==
    \/ \E q \in Requests : Handler(q) \/ DeductFails(q) \/ Fail(q)
    \/ \E g \in Grants : GrantCredits(g) /\ UNCHANGED apiVars
    \/ \E r \in Rows : Expire(r) /\ UNCHANGED apiVars
    \/ \E p \in Procs : ServerCrash(p)

ApiSpec == ApiInit /\ [][ApiNext]_<<vars, apiVars>>

(***************************************************************************)
(* The fairness of CreditService, for the whole handler; the pool serves   *)
(* its waiters first come first served.  No failure is owed, not even that *)
(* the wait for a connection times out.                                    *)
(***************************************************************************)
ApiFairSpec == ApiSpec /\ \A q \in Requests : WF_<<vars, apiVars>>(Handler(q))
=============================================================================

# NexusAPI: specifications, checks and proofs

NexusAPI is a multi-tenant HTTP backend whose paid calls are gated by credits.
This directory models the parts of it that decide who pays, for what and how
often, checks the models with TLC on small instances, and proves their safety
properties and refinements with TLAPS for every instance. All paths below are relative to the
repository (`src/` in `PROJECT.json`).

## 1. The system

| Component | State | Operations | Talks to |
|---|---|---|---|
| Credit service, `app/services/credit_service.py` | `credit_transactions` (append-only; only `idempotency_key` is ever updated), `_ORG_LOCKS` per process | `deduct_credits` | PostgreSQL; called by the product routes inside their session |
| Credit routes, `app/api/routes/credits.py` | - | grant (one insert, admins only), balance (reads) | the ledger, without the credit service's locks |
| Product routes, `app/api/routes/product.py` | answers cached in Redis for 24 h, `jobs` rows | analyse, summarise, job status | credit service, Redis cache, ARQ queue |
| Worker, `app/jobs/worker.py` | `jobs` rows | `summarise_job` | ARQ hands it jobs; PostgreSQL |
| Rate limiter, `app/middleware/rate_limit.py` | Redis counters per organisation and window, `_REQUEST_LOG` per process | one decision per limited request | Redis, memory when Redis fails |
| Sessions, `app/core/database.py` | connection pool (5 + 10 per process), open transactions | `get_db`; `transactional_session`, which nothing uses | every handler: one session per request, closed without a commit |
| OAuth login, `app/api/routes/oauth.py` | organisations, users | callback | Google, PostgreSQL |
| Authentication, `app/core/dependencies.py`, `security.py` | none (JWT, 24 h) | `get_current_user` | users; opens the transaction the handler then uses |
| Middleware and assembly, `app/main.py`, `app/middleware/*` | `request.state`, the log | request id and log lines, rebuilding of errors, CORS | wraps every handler, in a fixed order |
| Lazy clients, `core/redis.py`, `rate_limit.py`, `product.py` | one client or pool per process | double-checked creation under an asyncio lock | Redis |

Interactions that matter:

* A handler shares one session with `get_current_user`, whose SELECT has opened
  a transaction. `deduct_credits` therefore runs in a **savepoint**, and leaving
  it, which is also when the asyncio lock is released, commits nothing. Only
  `summarise_text` commits; `analyse_text` returns and `get_db` rolls back.
* The ledger has three guards that overlap without coinciding: the asyncio lock
  (one process, ends with `deduct_credits`), the row locks of `SELECT ... FOR
  UPDATE` (all processes, until the end of the transaction, but only on rows that
  exist) and the unique index on (organisation, key).
* A session holds a connection of its process's pool from the first statement of a
  transaction to its end, also while it waits for the asyncio lock, for a row lock
  or for Redis.
* The API and the worker share the job row and the queue, nothing else. The calls
  of one API process share its ARQ pool, which the first of them creates and any
  of them may be cancelled in.
* Around every route are, from the outside in, the rate limiter, the logging
  middleware, the error handler and CORS. What an outer one answers itself the
  inner ones never see.

The hard parts, each listed with its line under `hazards` in `PROJECT.json`:
interleavings of requests of one organisation on several processes; what is read
before an await and used after it; an idempotency key that expires and changes
hands; a debit and a job committed together or not; answers cached by one
request and served to another; a pool of connections at its limit; a shared
client whose creation is cancelled; a queue command whose acknowledgement is
lost; a worker that dies between two transactions; counters at the edge of a
window; an error that passes through four layers.

What makes each component correct:

* credit service: the balance never goes negative, a key pays once per 24 hours,
  a failed call leaves no trace, tenants never share a transaction, every call
  ends;
* product routes: debit and job row exist together, answers describe the
  caller's own kind of call, a job a client is told of exists, and calls that
  wait for a connection hold nothing another call needs;
* jobs: a process creates one pool, a job a client is told of is in the queue or
  marked, the row's columns fit together whatever overlaps, its status changes in
  one order, a queued job is finished, a finished one is settled;
* middleware: an error of a logged request has the structured form and the request
  id of its log lines, the log tells what the client was told, and the rebuilding
  of errors keeps the status, the challenge, Retry-After and `HTTPException`'s detail
  of the answer that was made;
* login: an organisation has one founder and is created together with an admin,
  nobody is downgraded by a race, and a token gives access to the organisation it
  names or to none;
* rate limiter: the budget holds per window in Redis, for the requests that are
  counted before their window is over, and per rolling window in memory; a client is
  limited for its own organisation's traffic only, and Retry-After is long enough.

Two things the code does not promise, and the properties do not claim. An
organisation may lose its admin later: a login moves its user to the organisation of
the email's domain (oauth.py:136), and nothing keeps one behind. And a window's
budget in Redis does not bind requests that are counted after the window (see
`RateLimit` below).

## 2. Modules

| Module | Models |
|---|---|
| `LedgerSum` | `coalesce(sum(amount), 0)` over a set of rows, defined by counting units |
| `CreditLedger` | abstract specification: grants, paid calls and the lapse of a key as atomic steps on a balance and a set of keys in force |
| `CreditService` | `deduct_credits`, the end of the callers' transactions, `grant_credits`, crashes, statements that fail, deadlocks |
| `ProductApi` | extends `CreditService` with the handlers around it: connections, cache, jobs, answers |
| `ArqPool` | the lazily created ARQ pool of each API process |
| `SummariseJob` | extends `ArqPool` with the calls that use it, the job row, the ARQ queue, the worker's runs |
| `JobStatus` | abstract specification of what a client that polls a job may see |
| `RequestPipeline` | the middlewares around every route, inwards and outwards |
| `RateLimit` | the limiter with Redis and the memory fallback |
| `OAuthLogin` | the OAuth callback's transaction, and `get_current_user` for the tokens it issues |
| `*Properties` | what must hold of the module of that name |
| `MC*` | instances for TLC |
| `LedgerSumProofs` | the arithmetic of sums of rows |
| `CreditServiceProofs`, `CreditKeyProofs` | theorems about balances; about keys, locks and the refinement of `CreditLedger` |
| `ProductApiProofs` | that the handlers use the credit service as specified; debits, jobs, answers, connections |
| `SummariseJobProofs`, `RequestPipelineProofs`, `RateLimitProofs`, `OAuthLoginProofs` | theorems about the module of that name |

Operators described as "Mutant of X" are deliberately wrong variants of X. No
specification uses them; `PROJECT.json` pairs each with the property that fails
when it replaces X.

### CreditService

One action is one SQL statement or one lock; between two of them anything else
may run. PostgreSQL is modelled as the code relies on it:

* READ COMMITTED: each statement sees the rows committed when it starts, plus
  its own transaction's changes. `nulled` and `pending` are a transaction's
  uncommitted update and insert.
* `SELECT ... FOR UPDATE` fixes its rows (`StartForUpdate`), then locks them one
  at a time in any order (`LockRow`), as there is no ORDER BY; a row inserted
  meanwhile is not locked.
* A unique index makes an insert wait for open transactions that inserted the
  same key, or that are clearing it (`InsertWaitsFor`), and then succeed or fail.
* Locks end with the transaction (`ReleaseRows`), not with the savepoint, except
  when the savepoint is rolled back, and then it holds everything the
  transaction has written.
* A cycle of waiting transactions costs one of them its transaction
  (`DeadlockAbort`), and any other statement may raise at any place
  (`StatementFails`): both abort the transaction (`Abort`). The connections of a dead process are closed some time
  later (`Crash`, `Reap`).

A row is named by what inserts it: a seed row, a grant, or a request. Its
organisation and amount are constants, since nothing updates them; `keyOf` is a
variable. `pc` of a request names the next statement: `lookup`
(credit_service.py:55), `clearKey` (72), `forUpdate` and `locking` (75), `insert`
(92), `deducted` once the savepoint is released. It ends as `charged` (committed),
`unpaid` (rolled back: analyse, or a summarise call in
which a statement raised), `reused`, `refused` (402), `conflict`
(IntegrityError, 500), `failed` (a deadlock or any other error of a statement, 500)
or `crashed`.

The sum and its comparison (lines 81-89) are one action: the sum is one
statement, and the number it returns is used at once. Grants take no lock that
anybody waits for, and are one action. The TTL is modelled by `Expire`, which
makes a committed row old at an arbitrary later moment.

The test suite runs on SQLite, where the row locks do not exist and the driver
commits at the release of the outermost savepoint; the model is of the
PostgreSQL deployment that the settings, the migrations and the documents
describe. This explains how a test can assert a debit that PostgreSQL rolls back:
tests/test_e1_analyse_endpoint.py:172 and PROJECT_EXPLANATION.md:266-272 have
`analyse_text` deduct credits, but it commits nothing, and `DebitHasJob`, which
says that every debit is committed with a job row, shows that it never charges.

### ProductApi

`stage` is the handler's place around the deduction (`pc` is the place inside).
`conns` are the requests whose session has a connection. `Authenticate` takes one
for the SELECT of `get_current_user`, the commit of `CreateJob` gives it back,
`RefreshJob` takes one again for `db.refresh`, and the session keeps it while
Redis is waited for in `EnqueueJob`. A request that finds `PoolSize` connections of
its process in use waits, at most 30 seconds, and then fails (`Fail`), as does one
whose statement raises, in the handler (`Fail`) or inside `deduct_credits`
(`DeductFails`); after the commit that is a 500 for a paid job.

`cache` maps (organisation, endpoint, key) to an answer; an answer is the name of
the request that computed it. A cache lookup may miss whatever the cache holds,
since every Redis error counts as a miss; this covers entries that expired or
were evicted, so they are not removed. A store may be lost for the same reason.
`CreateJob` commits the job row with the debit if the request has one open, and
without if it repeats one. `Analyse` computes its answer inside the transaction
that `CloseSession` then rolls back.

### ArqPool and SummariseJob

`getting` is a call's place in `_get_arq_pool`: waiting for `_ARQ_POOL_LOCK`, or
inside it, awaiting `create_pool`. `pool` and `poolLock` belong to a process and go
with it. `wait_for` may cancel the call at both places, and then `async with`
releases the lock. The Redis clients of `core/redis.py` and `rate_limit.py` look the
same, but nothing is awaited inside their locks, so their creation is atomic.

`api` is the call's place in `summarise_text` from the commit on. `status`, `result`
and `error` are columns of the row, written by the API (commit, and the error of a
failed enqueue) and by the worker's three transactions. Those select the row and
then update the columns that changed; the only concurrent writer is the API's
UPDATE of `error`, which has the same effect after the transaction as within it,
and so they are one action each. A step may fail before it takes effect, or after
(the acknowledgement is lost); an enqueue that timed out after half a second, or
whose process died, may still arrive. ARQ is modelled by what the code relies on: a
job is started at most `MaxTries` times, at most `MaxJobs` at once; a run
interrupted by the worker's end is delivered again; a run that returns, raises or
exceeds `job_timeout` is not. The timeout is a `CancelledError`, which `except
Exception` does not take.

ARCHITECTURE.md:190 has jobs "queued in memory or rejected" while Redis is down. The
code does neither: `summarise_text` answers 200 and leaves `enqueue_failed` in the
row's `error`, with the status still `pending`. `AnsweredJobIsQueuedOrMarked` is about
what the code does.

`JobStatus` is the view of `GET /api/jobs/{id}`: `ImplementsJobStatus` maps ARQ's
count of starts to `deliveries` and the worker's place in a run to the phase of
the delivery.

### RequestPipeline

`at` is the layer a request is in, on its way in or out; `made` is the answer as the
limiter, CORS or the route made it, and `reply` what has become of it on its way
outwards. A reply is described by what the layers look at or change: its status,
whether its body is still the one it was made with or was rebuilt by the error
handler, the form of its reason (`HTTPException`'s detail as a text, a dict with an
error name, a list, or a body without `detail`), the headers that matter, and the
request id it shows. `RouteReplies` has one of each form the handlers produce, among
them a 401 with a challenge (`get_current_user`) and one without `detail`
(oauth.py:53, 77, 166), a 402 with an error name (analyse) and one with a text
(summarise), Starlette's 405 with `Allow`, and an exception. `LogCompleted` has the
branch for an exception that reaches the logging middleware; the error handler takes
every one before, so it never runs (`PipelineTypeOK` says so), and no
`request_failed` line is ever written.

`ReasonReachesClient` compares what the client gets with `made`, and names all that is
kept. The rest of an error is lost: the list of a failed validation (422), the
bodies of oauth.py and health.py, which have no `detail`, `Allow`, and the headers
CORS added. The last matters to a browser: frontend/app.js:107 reads the body of
errors, and a page of another origin cannot.

### RateLimit

Time is a counter of ticks, `Second` of them to a second, since `time.time()` has a
fraction while window starts (`int(now_ts)`) and Retry-After (`math.ceil`) are whole
seconds. A request reads the clock, and INCR, EXPIRE and their failures happen at any
later time. All processes and Redis share one clock, which never goes back. `ts` is
the time the decision is made with; `via` says who made it. A key lives for a window
from its EXPIRE on (`expireAt`), and `Tick` removes it; if EXPIRE is lost, it stays. A
command that times out takes effect at the timeout or never. The memory check
contains no await and is atomic. `Unpopped` is the loop around `popleft`: it drops
entries from the front as long as they are old, whatever comes after the first that
is not.

The history variable `late` marks the requests that Redis counted after the window
they name was over. Such a request may find the key expired, begin again at one and be
admitted beyond the budget of its window; if the first INCR came at the window's start,
a delay of moments at its end is enough. `RedisBudget` therefore speaks of the other
requests only. Without that restriction TLC finds the violation in the instance of
the run `RateLimit`.

### OAuthLogin

`pc` of a login names the next statement of the callback: `callback` (Google, then
oauth.py:112), `insertOrg` (118), `user` (122), `write` and `commit` (141, the flush
and the commit proper), `refresh` (142), and then `welcome` or `denied`. `orgs` and
`users` are committed rows; an organisation is named by its slug and a user by
google_id. A login's uncommitted rows are read off its `pc`, `founders` (it set
`created_organisation`) and `seen` (the row it loaded).

* The unique slug, google_id and email make an INSERT or UPDATE wait for an open
  transaction that wrote the same value (`SlugFree`, `WaitsForWriter`), and then
  succeed or raise (`OrganisationExists`, `UserConflict`). Every exception rolls
  the whole transaction back and answers 401 (`Deny`), except past the commit.
* SQLAlchemy's UPDATE sets only the columns whose value differs from the loaded
  one (`Changes`). It matters: a login that loaded the user as a member leaves the
  role alone, and therefore does not undo a concurrent login that made the user
  an admin (mutant `AllColumns` of `AdminsStayAdmins`).
* A request may carry the token of any login at any later time.
  `get_current_user` rejects an expired one (401) and one whose organisation is no
  longer the user's (403); the role is always the user's present one.

## 3. Runs

All runs are under three minutes. CHECK_DEADLOCK is off everywhere because every
model ends: requests and jobs are finite and each is handled once.

| Run | Instance | Result |
|---|---|---|
| `CreditService` | 3 requests of one organisation on 2 processes, 3 seed rows (one holds the key q1 and q2 use, one holds it for another organisation, and q4 uses a fresh key), a grant by an admin and one by a member; fair | TypeOK, NonNegativeBalance, CheckedBalanceStillSuffices, OneDebitPerKey, DeadlockSpansProcesses, ReuseRepeatsOwnCall, KeyChangesHands, ImplementsLedger, EveryRequestEnds hold |
| `EmptyLedger` | an organisation without rows, 2 requests on 1 process, 1 grant | NonNegativeBalance is **violated** |
| `DuplicateRace` | 2 requests with one new key | DuplicateIsReused is **violated** |
| `ProductApi` | 2 summarise calls and an analyse call with one key, 2 processes with 1 connection each, a grant; fair | ApiTypeOK, DebitHasJob, JobIsPaidOrRepeats, AnswerDescribesSameCall, AnsweredJobExists, ConnectionWaiterHoldsNothing, EveryCallEnds hold |
| `RepeatedCall` | a summarise call and its repetition | RepeatCreatesNoJob is **violated** |
| `SummariseJob` | 2 calls on 1 API process, 1 place in the worker, 2 deliveries; fair | JobTypeOK, RowIsCoherent, QueuedJobHasRow, PoolLockHeldByCreator, AnsweredJobIsQueuedOrMarked, DoneMeansSettled, ImplementsJobStatus, SettledStaysUnlessRedelivered, QueuedJobFinishes hold |
| `JobTimeout` | 1 job | TimedOutJobSettles is **violated** |
| `RateLimit` | 3 requests of one organisation on a process that fails open, one of another on a process that fails closed, one without a token; budget 2, windows of 2 seconds of 2 ticks | LimiterTypeOK, RedisBudget, MemoryBudgetIsRolling, RetryAfterSuffices, LimitedForOwnTraffic hold |
| `OAuthLogin` | account b's first login in a domain, two of account a's there and one of a's in another domain, all at once; one request; fair | LoginTypeOK, OneFounderEach, ActsInTokenTenant, OrganisationBornWithAdmin, AdminsStayAdmins, EveryLoginEnds hold |
| `RequestPipeline` | 2 requests, every form of reply | PipelineTypeOK, LoggedErrorsAreStructured, LoggedAsAnswered, ReasonReachesClient hold |
| `RateLimitRolling` | 3 requests of one organisation | RollingWindow is **violated** |
| `ErrorFormat` | 2 requests, every form of reply | AllErrorsAreStructured is **violated** |

### Bounds

* Prices 2 and 3 with an opening balance of 3: one call can be paid, two only
  after the grant. This is the smallest instance in which a race for the last
  credits, a refusal and a grant that changes the outcome all occur.
* Three requests: two that race for a key or a balance, and a third that the
  other two must not disturb. Two processes: enough for the asyncio locks to
  differ.
* One key used before by a seed row: enough for reuse, expiry, takeover and a
  second takeover by the other request; and a fresh one for the first use. Calls
  without a key go the same way as those with a fresh one, without the lookup; the
  run `EmptyLedger` has them, and the proofs.
* `PoolSize = 1` (5 + 10 in the code): q1 and q3 share a process and so one of
  them waits, before its first statement or, after its commit, before the refresh,
  while the other is anywhere in its call.
* Two calls on one API process: one creates the ARQ pool while the other waits, and
  either may be cancelled.
* `MaxTries = 2` and `MaxJobs = 1` (ARQ's default is 5, the setting is 10): one
  redelivery, and two jobs that compete for one place.
* A budget of 2 (60 in the code), windows of 2 seconds (60) of 2 ticks, clock up to
  4: a complete window, in which times fall on a second and between two, and the
  start of the next, at which a request may be counted late, keys expire, and a
  request too many may wait for. Bound `OthersArriveFirst`: the request of the other
  organisation and the one without a token arrive at time 0, and go on at any time.
* Two accounts and two domains, four logins: two accounts that race to found one
  organisation, one account created twice at once, and the same account moved to
  an organisation of its own by a login that may run before, between or after the
  others. One request: `get_current_user` keeps nothing between requests.

### Fairness

`FairSpec`, `ApiFairSpec`, `JobFairSpec` and `LoginFairSpec` assume weak fairness of
the steps of each request, handler, job or login, and nothing else. The event loop runs every runnable
coroutine, asyncio locks, PostgreSQL's lock queues and the connection pool are first come
first served, the timers of `wait_for` fire, the deadlock detector runs after `deadlock_timeout` and closed connections
are noticed. Weak fairness suffices because every wait ends in a state that
stays enabled until the waiter moves (each competitor enters `deduct_credits` or
is started by ARQ only finitely often). Nothing obliges a grant, a crash, a
failure of a statement, a timeout of a job, a redelivery, an error of Google's or the passing of time to happen.

### What the violations show

1. `EmptyLedger` - ARCHITECTURE.md:143, "Balance must never go negative". With no
   row, FOR UPDATE locks nothing; the first grant and two paid calls overlap, each
   sum sees the grant, both debits commit. One process is enough, since the
   asyncio lock is gone before the commit. With a seed row per organisation the
   invariant holds, and is proved.
2. `DuplicateRace` - ARCHITECTURE.md:91 and DECISIONS.md:11 have the loser of a
   race for a key read and return the winner's transaction; the code lets the
   IntegrityError through (500).
3. `RepeatedCall` - DECISIONS.md:8, "one request creates one debit and one job
   record trajectory"; a repetition whose answer is not in Redis creates a second
   job for the one debit.
4. `JobTimeout` - DECISIONS.md:8 has a job that times out converge to failure;
   its row keeps `pending` or `running`.
5. `RateLimitRolling` - rate_limit.py:121 says rolling window; Redis counts fixed
   windows, and up to twice the budget passes around a boundary.
6. `ErrorFormat` - error_handler.py:72 says all error responses are structured and
   have a `request_id`. The rate limiter is outside the error handler (main.py:61),
   and its 429 and 503 (rate_limit.py:143-153) have neither.

## 4. Proofs

Every safety invariant, action property and refinement that a passing run checks is
also a theorem, for all values of the constants: any number of organisations,
processes, requests, jobs, workers and logins, any positive prices, budgets and
windows, any size of the pools.
Only the four liveness properties are left to TLC.

| Module | Theorems (property) |
|---|---|
| `LedgerSumProofs` | `SumAmountType`, `SumAmountAddRow` |
| `CreditServiceProofs` | `TypeCorrect` (TypeOK), `BalanceNeverNegative` (NonNegativeBalance)*, `BalanceCheckStaysValid` (CheckedBalanceStillSuffices)* |
| `CreditKeyProofs` | `KeyPaysOnce` (OneDebitPerKey), `ReuseIsOwn` (ReuseRepeatsOwnCall), `KeysOnlyChangeHands` (KeyChangesHands), `NoDeadlockWithinProcess` (DeadlockSpansProcesses), `LedgerRefinement` (ImplementsLedger)* |
| `ProductApiProofs` | `HandlersUseCreditService`, `ServerImplementsLedger`*, `ApiTypesHold` (ApiTypeOK), `DebitAndJobTogether` (DebitHasJob), `NoFreeJob` (JobIsPaidOrRepeats), `AnswersStayInSlot` (AnswerDescribesSameCall), `AnsweredJobIsCommitted` (AnsweredJobExists), `PoolWaitsAreFree` (ConnectionWaiterHoldsNothing) |
| `SummariseJobProofs` | `JobTypesHold` (JobTypeOK), `RowsFitTogether` (RowIsCoherent), `RowBeforeMessage` (QueuedJobHasRow), `OnePoolCreator` (PoolLockHeldByCreator), `NoJobIsForgotten` (AnsweredJobIsQueuedOrMarked), `ReturnSettles` (DoneMeansSettled), `SettledStays` (SettledStaysUnlessRedelivered), `StatusRefinement` (ImplementsJobStatus) |
| `RequestPipelineProofs` | `PipelineTypesHold` (PipelineTypeOK), `ErrorsStructured` (LoggedErrorsAreStructured), `LogTellsAnswer` (LoggedAsAnswered), `ReasonsReachClient` (ReasonReachesClient) |
| `RateLimitProofs` | `LimiterTypesHold` (LimiterTypeOK), `RedisBudgetHolds` (RedisBudget), `MemoryBudgetHolds` (MemoryBudgetIsRolling), `LimitedForOwnTrafficOnly` (LimitedForOwnTraffic), `RetryAfterIsEnough` (RetryAfterSuffices) |
| `OAuthLoginProofs` | `LoginTypesHold` (LoginTypeOK), `OneFounderPerOrganisation` (OneFounderEach), `RequestsActInTheirTenant` (ActsInTokenTenant), `OrganisationsHaveAdmins` (OrganisationBornWithAdmin), `NoAdminIsDemoted` (AdminsStayAdmins) |

`*` assumes `LedgerSeeded`: every organisation has a row in the opening ledger.
Without it the balance can go negative, as the run `EmptyLedger` shows. All others rest only on
the named ASSUMEs of the modules, which TLC evaluates in the runs: types of the
constants, `None` distinct from the values it stands beside, finite sets of rows and
requests, positive prices, grants, budgets and windows, an opening ledger that is
not overdrawn and repeats no key.

None of the deeper properties is inductive. Each module states its strengthening as
a conjunction of named parts, which were checked by TLC on the runs' instances
before they were proved.

**Balance** (`BalanceInv`).

* `SeedsCommitted`: seed rows are and stay committed, so every FOR UPDATE has
  them in its snapshot;
* `SeedRowHeld`: a request that runs FOR UPDATE has each seed row of its
  organisation still to lock, or holds it; one that has passed the balance check
  holds them all until its transaction ends. Hence (`OnePayerAtATime`) two
  requests of an organisation are never both between check and commit;
* `DebitsCommittedOnce`: an uncommitted debit is not yet in the sum;
* `CheckedBalanceStillSuffices`: while one request is past the check, other
  steps only raise the balance, by grants. Its own commit then leaves the
  balance at zero or above, which is `NonNegativeBalance`.

The proof of `BalanceInvStep` separates the steps that neither commit a row nor
let a request pass the check (`OtherStepsAreQuiet`, `QuietStep`) from the three
that do: the check, the commit, the grant. `LedgerSumProofs` supplies the
arithmetic: to prove it without induction the sum is defined as the number of units
of positive rows less that of negative rows, and the cardinality theorems of the
library do the rest. `MCCreditService` has TLC compare it with the recursive sum.

**Keys** (`KeyInv`). A committed row shows the key it was given until it has expired
(`KeyAsGiven`); a transaction clears only expired rows with its own key
(`NulledIsOwn`); while its debit is inserted, the unique index keeps the key for it,
so that the only committed rows that still show it are those it is clearing
(`KeyReserved`). Hence a commit replaces the holder of a key and adds none
(`OneHolderPerKey`), and two debits with one key are never both unexpired. Unlike
the balance, this needs no row locks and no assumption about the ledger.

**Deadlocks** (`WaitInv`). A request is inside `deduct_credits` only while it holds its
process's asyncio lock of its organisation (`OrgLockHeld`), and whatever a transaction
locks or waits for belongs to its organisation (`LocksInOwnOrg`). A cycle of waits, of
any length, is therefore within one organisation, and all its members wait inside
`deduct_credits`; two of them in one process would both hold the same asyncio lock.

**Refinement of `CreditLedger`.** Under the refinement mapping only the commit of a
debit, a grant and an expiry are steps (`LedgerSteps`). That a commit maps to a
`Charge` needs both invariants: the balance still covers the price, and the key is
not in force.

**The server.** Every step of a handler is a step of the credit service or leaves it
alone (`StepsOfCredit`), so `ApiSpec => Spec`: the results above hold of the server
(`ServerImplementsLedger`). `ApiInv` adds how far the deduction is at each place of a
handler (`PlaceInv`), that a debit and a job row are committed by one step
(`PaymentInv`), and that what is in a slot of the cache was computed for that slot
(`AnswerInv`). `HoldersAreOpen` says that asyncio and row locks are held by open
transactions only, so one that waits for a connection, having none, holds none.

**Jobs** (`JobInv`). A call sends nothing to the queue before its row is committed
(`CallThenQueue`); ARQ counts a job as in progress exactly while a run of it exists
(`RunIsInProgress`); and where a run is tells what it has done to the row
(`RunKnowsRow`), in particular that before the first delivery got past its first
transaction nothing has settled the job.

**Middlewares** (`PipelineInv`). Place by place, what a request has collected: no id
and no line before the logging middleware, one of each from there on; on the way out
the answer as it was made, but for headers that CORS added (`FromInside`), and
behind the error handler one that is structured if it is an error, shows that id, and
has kept the status, challenge, Retry-After and detail of the one that was made
(`Presentable`).

**Rate limiter** (`LimiterInv`).

* `ExpiryInv`: a key that is to expire outlives its window, since a window is as long
  as a key lives and EXPIRE comes after the window's start;
* `CounterInv`: until a window is over its counter is at least the number of requests
  it has admitted or, between INCR and EXPIRE, will admit, of those counted in time;
  that number is within the budget, and it does not change when the window is over,
  whatever the counter then does; and the counter is at most the number of the
  organisation's requests past INCR. A failure of Redis after INCR makes the counter
  larger than it should be, never smaller;
* `LogInv`: counted from any time that the window has not left, the memory log has at
  least as many entries as there were admissions, and in all no more than there were;
* `FullInv`: while the clock stands still, a log that has limited a request stays
  full. Without it a request could be admitted in the tick in which another was told
  to wait, and the latter's Retry-After would be short.

What `popleft` leaves is a suffix that starts at the first entry later than the
threshold (`Popped`). That there is a first one is a fact about natural numbers, the
library's theorem on minimal elements of well-founded relations (`LeastNatural`), so
no induction over the log is needed. That Retry-After is long enough rests on what
truncating to seconds and rounding up do (`Quotients`, `SpanFacts`, `CeilingFacts`). Logs need not be sorted for any of this.

**Login** (`LoginInv`). An organisation is committed by its founder's commit and by no
other (`OrganisationInv`); what a login loaded of a user may be stale, but a user
never disappears, an admin stays one (`SeenInv`), and two open writes never concern
the same user (`WriterInv`); an admin's account founded a committed organisation
(`UserInv`), and a token names one of whose domain Google has reported an email of the account
(`TokenInv`).

Model-checked only: `EveryRequestEnds`, `EveryCallEnds`, `QueuedJobFinishes` and
`EveryLoginEnds`. They need fairness and ENABLED, which are out of the prover's
reach. The six violations are TLC's counterexamples.

## 5. Not modelled, and the plan

Not modelled:

* texts, word counts and the wording of answers; the numbers of credits in
  response bodies, and with them the balance in a 402, which may be newer than
  the refusal;
* the expiry of cached answers in Redis: lookups may miss anyway;
* clocks that differ between processes, and a command that Redis executes after the
  client gave it up;
* the worker's connections: a run holds one session at a time, and no run waits
  for another;
* the tenant fields of the log lines: they are read before `call_next`, so no line
  ever has them (logging_middleware.py:34-35);
* configuration, log formatting, the health check's query, the migrations: read
  once or written once, with no state that changes while the system runs;
* the frontend, a demonstration page with a button for each call;
* `transactional_session`, which nothing uses.

The order of the work was: ledger and credit service first, since every promise
about money rests on them; then the handlers around it; then jobs; then the rate
limiter; then login and tokens; then the connection pool, the ARQ pool and the
middlewares; then the proofs, in the same order. What could come next:

1. the parts listed above as not modelled, should they get state of their own;
2. the safety facts that the liveness properties rest on, such as that some waiting
   request can always move, as theorems.

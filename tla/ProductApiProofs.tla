-------------------------- MODULE ProductApiProofs --------------------------
(***************************************************************************)
(* Theorems about the handlers of ProductApi, for every value of its       *)
(* constants.                                                              *)
(*                                                                         *)
(* Every step of a handler is a step of CreditService or leaves its        *)
(* variables alone (StepsOfCredit), so ApiSpec implies Spec and what is    *)
(* proved of the credit service holds of the whole server.  On top of it,  *)
(* the place of a handler says how far its deduction is (PlaceInv), a      *)
(* debit gets into the ledger only in the step that adds its job           *)
(* (PaymentInv), and an answer travels through the cache only between      *)
(* calls with the same slot (AnswerInv).                                   *)
(***************************************************************************)
EXTENDS ProductApiProperties, CreditKeyProofs

(***************************************************************************)
(* Locks are held by open transactions only: an asyncio lock by a request  *)
(* of its process and organisation that is inside deduct_credits, a row    *)
(* lock from the statement that takes it to the end of the transaction.    *)
(***************************************************************************)
HoldersAreOpen ==
    /\ \A p \in Procs, o \in Orgs, q \in Requests : orgLock[p][o] = q =>
          ProcOf[q] = p /\ OrgOf[q] = o /\ pc[q] \in InDeduct
    /\ \A r \in Rows, q \in Requests : rowLock[r] = q =>
          pc[q] \in {"forUpdate", "locking", "insert", "deducted", "lost"}

\* How far the deduction is, and what the handler has, at each place.
PlaceInv ==
    \A q \in Requests :
        /\ stage[q] \in {"connect", "firstLookup"} => pc[q] = "idle"
        /\ stage[q] = "work" => pc[q] = "reused"
        /\ stage[q] \in {"refresh", "enqueue"} =>
              pc[q] \in {"charged", "reused"} /\ q \in jobs
        /\ stage[q] = "store" => answer[q] # None
        /\ stage[q] \in {"connect", "refresh"} => q \notin conns

\* Debits of summarise and job rows are committed together.
PaymentInv ==
    /\ \A q \in Requests : q \in committed => q \in jobs
    /\ \A q \in jobs : q \in committed \/ pc[q] = "reused"

\* What the cache and the handlers hold comes from a call with their slot.
AnswerInv ==
    /\ \A slot \in Orgs \X Endpoints \X Keys : cache[slot] # None =>
          /\ CacheSlot(cache[slot]) = slot
          /\ Endpoint[cache[slot]] = "summarise" => cache[slot] \in jobs
    /\ \A q \in Requests : answer[q] # None =>
          /\ CacheSlot(answer[q]) = CacheSlot(q)
          /\ Endpoint[q] = "summarise" => answer[q] \in jobs

ApiInv == ApiTypeOK /\ PlaceInv /\ PaymentInv /\ AnswerInv

-----------------------------------------------------------------------------
(***************************************************************************)
(* A step of a handler is one of CreditService, or leaves it alone.        *)
(***************************************************************************)
HandlerWaits(q) ==
    \/ Authenticate(q) \/ FirstLookup(q) \/ SecondLookup(q) \/ Refuse(q)
    \/ RefreshJob(q) \/ EnqueueJob(q) \/ Analyse(q) \/ StoreAnswer(q) \/ Fail(q)

\* These handler steps leave the credit service alone.
LEMMA WaitsLeaveCredit ==
  ASSUME NEW q \in Requests, HandlerWaits(q)
  PROVE  UNCHANGED vars
BY DEF HandlerWaits, Authenticate, FirstLookup, SecondLookup, Refuse, RefreshJob,
   EnqueueJob, Analyse, StoreAnswer, Fail, Checkout, CacheHit, CacheMiss

\* The steps of the server, sorted by what they do to the credit service.
LEMMA ApiCases ==
  ASSUME [ApiNext]_<<vars, apiVars>>
  PROVE  \/ \E q \in Requests : HandlerWaits(q)
         \/ \E q \in Requests : Deduct(q) \/ Database(q) \/ DeductFails(q)
         \/ \E q \in Requests : CreateJob(q)
         \/ \E q \in Requests : CloseSession(q)
         \/ \E g \in Grants : GrantCredits(g) /\ UNCHANGED apiVars
         \/ \E r \in Rows : Expire(r) /\ UNCHANGED apiVars
         \/ \E p \in Procs : ServerCrash(p)
         \/ UNCHANGED <<vars, apiVars>>
BY DEF ApiNext, Handler, HandlerWaits

\* Every step of the server is a step of the credit service or a stutter.
LEMMA StepsOfCredit ==
  ASSUME [ApiNext]_<<vars, apiVars>>
  PROVE  [Next]_vars
<1>1. ASSUME NEW q \in Requests, HandlerWaits(q)  PROVE [Next]_vars
  BY <1>1, WaitsLeaveCredit
<1>2. ASSUME NEW q \in Requests, Deduct(q) \/ Database(q) \/ DeductFails(q)  PROVE Next
  BY <1>2 DEF Deduct, Database, DeductFails, Next, Step
<1>3. ASSUME NEW q \in Requests, CreateJob(q)  PROVE [Next]_vars
  BY <1>3 DEF CreateJob, Next, Step
<1>4. ASSUME NEW q \in Requests, CloseSession(q)  PROVE [Next]_vars
  BY <1>4 DEF CloseSession, Next, Step
<1>5. ASSUME NEW p \in Procs, ServerCrash(p)  PROVE [Next]_vars
  BY <1>5 DEF ServerCrash, Next
<1>6. ASSUME \/ \E g \in Grants : GrantCredits(g) /\ UNCHANGED apiVars
             \/ \E r \in Rows : Expire(r) /\ UNCHANGED apiVars
      PROVE  Next
  BY <1>6 DEF Next
<1> QED BY <1>1, <1>2, <1>3, <1>4, <1>5, <1>6, ApiCases

(***************************************************************************)
(* The handlers, with their cache, their pool and their failures, use the  *)
(* credit service as it is specified: whatever holds of every behaviour of *)
(* CreditService holds of the server.                                      *)
(***************************************************************************)
THEOREM HandlersUseCreditService == ApiSpec => Spec
<1>1. ApiInit => Init
  BY DEF ApiInit
<1>2. [ApiNext]_<<vars, apiVars>> => [Next]_vars
  BY StepsOfCredit
<1> QED BY <1>1, <1>2, PTL DEF ApiSpec, Spec

(***************************************************************************)
(* With the handlers around it, in spite of their failures and of crashes  *)
(* at any of their statements, the balance stays non-negative and a key    *)
(* pays once, and the server as a whole implements the atomic ledger,      *)
(* where every organisation has a row before its first paid call.          *)
(***************************************************************************)
THEOREM ServerImplementsLedger ==
  ASSUME LedgerSeeded
  PROVE  ApiSpec => []NonNegativeBalance /\ []OneDebitPerKey /\ ImplementsLedger
<1>1. Spec => []NonNegativeBalance
  BY BalanceNeverNegative
<1>2. Spec => []OneDebitPerKey
  BY KeyPaysOnce
<1>3. Spec => ImplementsLedger
  BY LedgerRefinement
<1> QED BY <1>1, <1>2, <1>3, HandlersUseCreditService

\* The invariant of the keys holds of the server.
LEMMA ApiKeyInv == ApiSpec => []KeyInv
<1>1. Spec => []KeyInv
  BY KeyInvInit, KeyInvStep, PTL DEF Spec
<1> QED BY <1>1, HandlersUseCreditService, PTL

-----------------------------------------------------------------------------
(***************************************************************************)
(* A request's place in the deduction is changed by its own steps and by   *)
(* the crash of its process, and no longer once it has ended.              *)
(***************************************************************************)
LEMMA StepMovesOne ==
  ASSUME NEW q \in Requests, Step(q) \/ StatementFails(q), NEW x \in Requests \ {q}, KeyInv
  PROVE  pc'[x] = pc[x]
BY DEF KeyInv, TypeInv, TypeOK, Step, DeductStep, DatabaseStep, AcquireOrgLock, LookupMiss,
   LookupFresh, LookupExpired, ClearKey, StartForUpdate, LockRow, SufficientBalance,
   InsufficientBalance, InsertDebit, InsertConflict, CommitDebit, CloseUncommitted,
   DeadlockAbort, StatementFails, Abort, Reap

\* Only a request that is idle, in deduct_credits or past it takes its steps.
LEMMA StepLeavesOpen ==
  ASSUME NEW q \in Requests, Step(q) \/ StatementFails(q)
  PROVE  pc[q] \in InDeduct \cup {"idle", "deducted", "lost"}
<1>1. DeadlockAbort(q) \/ StatementFails(q) => pc[q] \in InDeduct
  BY VictimsFail DEF StatementFails
<1>2. ~DeadlockAbort(q) /\ ~StatementFails(q) =>
         pc[q] \in InDeduct \cup {"idle", "deducted", "lost"}
  BY DEF Step, DeductStep, DatabaseStep, AcquireOrgLock, LookupMiss, LookupFresh,
     LookupExpired, ClearKey, StartForUpdate, LockRow, SufficientBalance,
     InsufficientBalance, InsertDebit, InsertConflict, CommitDebit, CloseUncommitted,
     Reap, InDeduct
<1> QED BY <1>1, <1>2

\* A call that has ended stays ended.
LEMMA EndedIsFinal ==
  ASSUME KeyInv, [Next]_vars, NEW x \in Requests, pc[x] \in Ended
  PROVE  pc'[x] = pc[x]
<1>1. pc[x] \notin InDeduct \cup {"idle", "deducted", "lost"}
  BY DEF Ended, InDeduct
<1>2. ASSUME NEW q \in Requests, Step(q) \/ StatementFails(q)  PROVE pc'[x] = pc[x]
  BY <1>1, <1>2, StepLeavesOpen, StepMovesOne
<1>3. ASSUME NEW p \in Procs, Crash(p)  PROVE pc'[x] = pc[x]
  BY <1>1, <1>3 DEF Crash, InFlight
<1>4. CASE \/ \E g \in Grants : GrantCredits(g)
           \/ \E r \in Rows : Expire(r)
           \/ UNCHANGED vars
  BY <1>4 DEF GrantCredits, Expire, vars
<1> QED BY <1>2, <1>3, <1>4 DEF Next

\* At the start nobody holds a lock.
LEMMA HoldersInit == Init => HoldersAreOpen
BY ConstantTypes DEF Init, HoldersAreOpen

\* Every step leaves the locks with open transactions.
LEMMA HoldersStep ==
  ASSUME KeyInv, HoldersAreOpen, [Next]_vars
  PROVE  HoldersAreOpen'
<1> USE ConstantTypes
    DEF KeyInv, TypeInv, TypeOK, RowToClearKnown, HoldersAreOpen, ReleaseOrgLock,
        InDeduct, dbVars, txVars
<1>1. ASSUME NEW q \in Requests, AcquireOrgLock(q)  PROVE HoldersAreOpen'
  BY <1>1 DEF AcquireOrgLock
<1>2. ASSUME NEW q \in Requests, LookupMiss(q)  PROVE HoldersAreOpen'
  BY <1>2 DEF LookupMiss
<1>3. ASSUME NEW q \in Requests, LookupExpired(q)  PROVE HoldersAreOpen'
  BY <1>3 DEF LookupExpired
<1>4. ASSUME NEW q \in Requests, ClearKey(q)  PROVE HoldersAreOpen'
  BY <1>4 DEF ClearKey
<1>5. ASSUME NEW q \in Requests, StartForUpdate(q)  PROVE HoldersAreOpen'
  BY <1>5 DEF StartForUpdate
<1>6. ASSUME NEW q \in Requests, LockRow(q)  PROVE HoldersAreOpen'
  BY <1>6 DEF LockRow
<1>7. ASSUME NEW q \in Requests, SufficientBalance(q)  PROVE HoldersAreOpen'
  BY <1>7 DEF SufficientBalance
<1>8. ASSUME NEW q \in Requests, LookupFresh(q)  PROVE HoldersAreOpen'
  BY <1>8 DEF LookupFresh
<1>9. ASSUME NEW q \in Requests, InsufficientBalance(q)  PROVE HoldersAreOpen'
  BY <1>9 DEF InsufficientBalance, Rollback, ReleaseRows
<1>10. ASSUME NEW q \in Requests, InsertDebit(q)  PROVE HoldersAreOpen'
  BY <1>10 DEF InsertDebit
<1>11. ASSUME NEW q \in Requests, InsertConflict(q)  PROVE HoldersAreOpen'
  BY <1>11 DEF InsertConflict, Rollback, ReleaseRows
<1>12. ASSUME NEW q \in Requests, CommitDebit(q)  PROVE HoldersAreOpen'
  BY <1>12 DEF CommitDebit, ReleaseRows
<1>13. ASSUME NEW q \in Requests, CloseUncommitted(q)  PROVE HoldersAreOpen'
  BY <1>13 DEF CloseUncommitted, Rollback, ReleaseRows
<1>14. ASSUME NEW q \in Requests, StatementFails(q)  PROVE HoldersAreOpen'
  BY <1>14 DEF StatementFails, Abort, Rollback, ReleaseRows
<1>15. ASSUME NEW q \in Requests, Reap(q)  PROVE HoldersAreOpen'
  BY <1>15 DEF Reap, Rollback, ReleaseRows
<1>16. ASSUME NEW g \in Grants, GrantCredits(g)  PROVE HoldersAreOpen'
  BY <1>16 DEF GrantCredits
<1>17. ASSUME NEW r \in Rows, Expire(r)  PROVE HoldersAreOpen'
  BY <1>17 DEF Expire
<1>18. ASSUME NEW p \in Procs, Crash(p)  PROVE HoldersAreOpen'
  BY <1>18 DEF Crash, InFlight
<1>19. CASE UNCHANGED vars
  BY <1>19 DEF vars
<1> QED
  BY <1>1, <1>2, <1>3, <1>4, <1>5, <1>6, <1>7, <1>8, <1>9, <1>10, <1>11,
     <1>12, <1>13, <1>14, <1>15, <1>16, <1>17, <1>18, <1>19, VictimsFail
  DEF Next, Step, DeductStep, DatabaseStep

-----------------------------------------------------------------------------
\* The slot of the cache that a request uses.
LEMMA SlotTypes ==
  ASSUME NEW q \in Requests
  PROVE  /\ HasKey(q) => CacheSlot(q) \in Orgs \X Endpoints \X Keys
         /\ Endpoint[q] \in Endpoints
         /\ Endpoint[q] = "analyse" \/ Endpoint[q] = "summarise"
         /\ q # None
BY ConstantTypes, ParametersAssumption DEF CacheSlot, HasKey, Endpoints

\* At the start there is no answer, job or connection.
LEMMA ApiInvInit == ApiInit => ApiInv
<1> SUFFICES ASSUME ApiInit  PROVE ApiInv
  OBVIOUS
<1>1. ApiTypeOK /\ PlaceInv /\ AnswerInv
  BY DEF ApiInit, Init, ApiTypeOK, PlaceInv, AnswerInv
<1>2. PaymentInv
  BY RowsAssumption DEF ApiInit, Init, PaymentInv
<1> QED BY <1>1, <1>2 DEF ApiInv

(***************************************************************************)
(* A step that leaves jobs, the cache and the answers alone keeps          *)
(* AnswerInv; so does one that only adds jobs.                             *)
(***************************************************************************)
LEMMA AnswersStay ==
  ASSUME AnswerInv, UNCHANGED <<cache, answer>>, jobs \subseteq jobs'
  PROVE  AnswerInv'
BY DEF AnswerInv, CacheSlot

(***************************************************************************)
(* What is paid stays paid: PaymentInv can only be disturbed by a new row  *)
(* in the ledger or a new job.                                             *)
(***************************************************************************)
LEMMA PaymentStays ==
  ASSUME ApiTypeOK, PaymentInv, KeyInv, [Next]_vars, jobs' = jobs,
         committed \subseteq committed', committed' \cap Requests \subseteq committed
  PROVE  PaymentInv'
<1>1. \A q \in Requests : pc[q] = "reused" => pc'[q] = "reused"
  BY EndedIsFinal DEF Ended
<1> QED BY <1>1 DEF PaymentInv, ApiTypeOK

(***************************************************************************)
(* The steps that leave CreditService alone.                               *)
(***************************************************************************)
LEMMA WaitsKeepApiInv ==
  ASSUME ApiInv, KeyInv, NEW q \in Requests, HandlerWaits(q)
  PROVE  ApiInv'
<1> USE SlotTypes DEF ApiInv, ApiTypeOK
<1>1. UNCHANGED vars
  BY WaitsLeaveCredit
<1>2. pc' = pc /\ committed' = committed
  BY <1>1 DEF vars, dbVars
<1>3. jobs' = jobs
  BY DEF HandlerWaits, Authenticate, FirstLookup, SecondLookup, Refuse, RefreshJob,
     EnqueueJob, Analyse, StoreAnswer, Fail, Checkout, CacheHit, CacheMiss
<1>4. PaymentInv'
  BY <1>2, <1>3 DEF PaymentInv
<1>5. ASSUME Authenticate(q) \/ RefreshJob(q)  PROVE ApiInv'
  BY <1>2, <1>4, <1>5, AnswersStay DEF Authenticate, RefreshJob, Checkout, PlaceInv
<1>6. ASSUME CacheHit(q)  PROVE ApiTypeOK' /\ PlaceInv' /\ AnswerInv'
  <2>1. CacheSlot(q) \in Orgs \X Endpoints \X Keys
    BY <1>6 DEF CacheHit
  <2>2. PICK x \in Requests : x = cache[CacheSlot(q)]
    BY <1>6, <2>1 DEF CacheHit
  <2>3. /\ answer' = [answer EXCEPT ![q] = x]
        /\ stage' = [stage EXCEPT ![q] = "close"]
        /\ UNCHANGED <<conns, cache, jobs>>
    BY <1>6, <2>2 DEF CacheHit
  <2>4. /\ CacheSlot(x) = CacheSlot(q)
        /\ Endpoint[x] = "summarise" => x \in jobs
    BY <2>1, <2>2 DEF AnswerInv
  <2>5. Endpoint[x] = Endpoint[q]
    BY <2>4 DEF CacheSlot
  <2>6. ApiTypeOK' /\ PlaceInv'
    BY <1>2, <2>3 DEF PlaceInv
  <2>7. AnswerInv'
    BY <2>3, <2>4, <2>5 DEF AnswerInv, CacheSlot
  <2> QED BY <2>6, <2>7
<1>7. ASSUME FirstLookup(q)  PROVE ApiInv'
  <2>1. CASE CacheHit(q)
    BY <1>4, <1>6, <2>1
  <2>2. CASE CacheMiss(q, "deduct")
    BY <1>2, <1>4, <2>2, AnswersStay DEF CacheMiss, PlaceInv
  <2> QED BY <1>7, <2>1, <2>2 DEF FirstLookup
<1>8. ASSUME SecondLookup(q)  PROVE ApiInv'
  <2>1. CASE CacheHit(q)
    BY <1>4, <1>6, <2>1
  <2>2. CASE CacheMiss(q, "work")
    BY <1>2, <1>4, <1>8, <2>2, AnswersStay DEF SecondLookup, CacheMiss, PlaceInv
  <2> QED BY <1>8, <2>1, <2>2 DEF SecondLookup
<1>9. ASSUME Refuse(q) \/ Fail(q)  PROVE ApiInv'
  BY <1>2, <1>4, <1>9, AnswersStay DEF Refuse, Fail, PlaceInv
<1>10. ASSUME EnqueueJob(q)  PROVE ApiInv'
  <2>1. ApiTypeOK' /\ PlaceInv'
    BY <1>2, <1>10 DEF EnqueueJob, PlaceInv
  <2>2. AnswerInv'
    BY <1>10 DEF EnqueueJob, AnswerInv, PlaceInv, CacheSlot
  <2> QED BY <1>4, <2>1, <2>2
<1>11. ASSUME Analyse(q)  PROVE ApiInv'
  <2>1. ApiTypeOK' /\ PlaceInv'
    BY <1>2, <1>11 DEF Analyse, PlaceInv
  <2>2. AnswerInv'
    BY <1>11 DEF Analyse, AnswerInv, CacheSlot
  <2> QED BY <1>4, <2>1, <2>2
<1>12. ASSUME StoreAnswer(q)  PROVE ApiInv'
  <2>1. answer[q] \in Requests
    BY <1>12 DEF StoreAnswer, PlaceInv
  <2>2. CASE cache' = cache
    BY <1>2, <1>4, <1>12, <2>2, AnswersStay DEF StoreAnswer, PlaceInv
  <2>3. CASE HasKey(q) /\ cache' = [cache EXCEPT ![CacheSlot(q)] = answer[q]]
    <3>1. ApiTypeOK' /\ PlaceInv'
      BY <1>2, <1>12, <2>1, <2>3 DEF StoreAnswer, PlaceInv
    <3>2. /\ CacheSlot(answer[q]) = CacheSlot(q)
          /\ Endpoint[q] = "summarise" => answer[q] \in jobs
      BY <2>1 DEF AnswerInv
    <3>3. Endpoint[answer[q]] = Endpoint[q]
      BY <3>2 DEF CacheSlot
    <3>4. AnswerInv'
      BY <1>12, <2>1, <2>3, <3>2, <3>3 DEF StoreAnswer, AnswerInv, CacheSlot
    <3> QED BY <1>4, <3>1, <3>4
  <2> QED BY <1>12, <2>2, <2>3 DEF StoreAnswer
<1> QED
  BY <1>5, <1>7, <1>8, <1>9, <1>10, <1>11, <1>12 DEF HandlerWaits

(***************************************************************************)
(* The steps that are steps of CreditService.                              *)
(***************************************************************************)
LEMMA ApiInvStep ==
  ASSUME ApiInv, KeyInv, [ApiNext]_<<vars, apiVars>>
  PROVE  ApiInv'
<1> USE DEF ApiInv, ApiTypeOK
<1>1. [Next]_vars
  BY StepsOfCredit
<1>2. \A q \in Requests : pc[q] \in {"charged", "reused"} => pc'[q] = pc[q]
  BY <1>1, EndedIsFinal DEF Ended
<1>3. ASSUME NEW q \in Requests, Deduct(q) \/ Database(q) \/ DeductFails(q)
      PROVE  ApiInv'
  <2>1. (Step(q) \/ StatementFails(q)) /\ UNCHANGED apiVars
    BY <1>3 DEF Deduct, Database, DeductFails, Step
  <2>2. \A x \in Requests \ {q} : pc'[x] = pc[x]
    BY <2>1, StepMovesOne
  <2>3. stage[q] \notin {"connect", "firstLookup"}
    BY <1>3, VictimsFail DEF Deduct, Database, DeductFails, DatabaseStep, StatementFails,
       InDeduct, Reap, PlaceInv
  <2>4. PlaceInv'
    BY <1>2, <2>1, <2>2, <2>3 DEF PlaceInv, apiVars
  <2>5. committed' = committed
    BY <1>3 DEF Deduct, Database, DeductFails, DeductStep, DatabaseStep, AcquireOrgLock, LookupMiss,
       LookupFresh, LookupExpired, ClearKey, StartForUpdate, LockRow, SufficientBalance,
       InsufficientBalance, InsertDebit, InsertConflict, DeadlockAbort, StatementFails,
       Abort, Reap, Rollback, dbVars
  <2>6. PaymentInv'
    BY <1>1, <2>1, <2>5, PaymentStays DEF apiVars
  <2> QED BY <2>1, <2>4, <2>6, AnswersStay DEF apiVars
<1>4. ASSUME NEW q \in Requests, CreateJob(q)  PROVE ApiInv'
  <2>1. /\ q \notin conns' /\ conns' \subseteq conns
        /\ jobs' = jobs \cup {q}
        /\ stage' = [stage EXCEPT ![q] = "refresh"]
        /\ UNCHANGED <<cache, answer>>
        /\ Endpoint[q] = "summarise"
    BY <1>4 DEF CreateJob
  <2>2. /\ pc'[q] \in {"charged", "reused"}
        /\ \A x \in Requests \ {q} : pc'[x] = pc[x]
        /\ \/ pc'[q] = "charged" /\ committed' = committed \cup {q}
           \/ pc'[q] = "reused" /\ committed' = committed
    <3>1. CASE pc[q] = "deducted"
      BY <1>4, <3>1 DEF CreateJob, CommitDebit, KeyInv, TypeInv, TypeOK
    <3>2. CASE pc[q] # "deducted"
      <4>1. pc[q] = "reused" /\ UNCHANGED vars
        BY <1>4, <3>2 DEF CreateJob, MayWork, PlaceInv
      <4> QED BY <4>1 DEF vars, dbVars
    <3> QED BY <3>1, <3>2
  <2>3. ApiTypeOK'
    BY <2>1
  <2>4. PlaceInv'
    BY <2>1, <2>2 DEF PlaceInv
  <2>5. PaymentInv'
    BY <2>1, <2>2 DEF PaymentInv
  <2> QED BY <2>1, <2>3, <2>4, <2>5, AnswersStay
<1>5. ASSUME NEW q \in Requests, CloseSession(q)  PROVE ApiInv'
  <2>1. /\ conns' \subseteq conns
        /\ stage' = [stage EXCEPT ![q] = "done"]
        /\ UNCHANGED <<cache, jobs, answer>>
    BY <1>5 DEF CloseSession
  <2>2. committed' = committed /\ \A x \in Requests \ {q} : pc'[x] = pc[x]
    <3>1. CASE CloseUncommitted(q)
      BY <3>1, StepMovesOne DEF CloseUncommitted, Rollback, dbVars, Step
    <3>2. CASE UNCHANGED vars
      BY <3>2 DEF vars, dbVars
    <3> QED BY <1>5, <3>1, <3>2 DEF CloseSession
  <2>3. ApiTypeOK' /\ PlaceInv'
    BY <2>1, <2>2 DEF PlaceInv
  <2>4. PaymentInv'
    BY <1>1, <2>1, <2>2, PaymentStays
  <2> QED BY <2>1, <2>3, <2>4, AnswersStay
<1>6. ASSUME NEW p \in Procs, ServerCrash(p)  PROVE ApiInv'
  <2>1. /\ conns' \subseteq conns
        /\ stage' = [q \in Requests |-> IF q \in Handling(p) THEN "dead" ELSE stage[q]]
        /\ UNCHANGED <<cache, jobs, answer>>
    BY <1>6 DEF ServerCrash
  <2>2. /\ committed' = committed
        /\ \A x \in Requests : pc'[x] = pc[x] \/ x \in InFlight(p)
    <3>1. CASE Crash(p)
      BY <3>1 DEF Crash, dbVars
    <3>2. CASE UNCHANGED vars
      BY <3>2 DEF vars, dbVars
    <3> QED BY <1>6, <3>1, <3>2 DEF ServerCrash
  <2>3. \A x \in InFlight(p) :
           stage[x] \notin {"connect", "firstLookup", "work", "refresh", "enqueue"}
    BY DEF InFlight, InDeduct, PlaceInv
  <2>4. ApiTypeOK'
    BY <2>1
  <2>5. PlaceInv'
    BY <2>1, <2>2, <2>3 DEF PlaceInv
  <2>6. PaymentInv'
    BY <1>1, <2>1, <2>2, PaymentStays
  <2> QED BY <2>1, <2>4, <2>5, <2>6, AnswersStay
<1>7. ASSUME \/ \E g \in Grants : GrantCredits(g) /\ UNCHANGED apiVars
             \/ \E r \in Rows : Expire(r) /\ UNCHANGED apiVars
             \/ UNCHANGED <<vars, apiVars>>
      PROVE  ApiInv'
  <2>1. pc' = pc /\ UNCHANGED apiVars
    BY <1>7 DEF GrantCredits, Expire, vars
  <2>2. committed \subseteq committed' /\ committed' \cap Requests \subseteq committed
    BY <1>7, RowsAssumption DEF GrantCredits, Expire, vars, dbVars
  <2>3. PaymentInv'
    BY <1>1, <2>1, <2>2, PaymentStays DEF apiVars
  <2>4. ApiTypeOK' /\ PlaceInv'
    BY <2>1 DEF PlaceInv, apiVars
  <2> QED BY <2>1, <2>3, <2>4, AnswersStay DEF apiVars
<1> QED BY <1>3, <1>4, <1>5, <1>6, <1>7, WaitsKeepApiInv, ApiCases

\* The invariants hold of every behaviour of the server.
LEMMA ApiInvHolds == ApiSpec => [](KeyInv /\ ApiInv)
<1>1. KeyInv /\ ApiInv /\ [ApiNext]_<<vars, apiVars>> => ApiInv'
  BY ApiInvStep
<1> QED BY <1>1, ApiInvInit, ApiKeyInv, PTL DEF ApiSpec

-----------------------------------------------------------------------------
(***************************************************************************)
(* The variables of the handlers keep their types; a job row belongs to a  *)
(* call of POST /api/summarise.                                            *)
(***************************************************************************)
THEOREM ApiTypesHold == ApiSpec => []ApiTypeOK
<1>1. ApiInv => ApiTypeOK
  BY DEF ApiInv
<1> QED BY <1>1, ApiInvHolds, PTL

(***************************************************************************)
(* A debit reaches the ledger only together with its job row, although     *)
(* deduct_credits writes the one and summarise_text the other              *)
(* (product.py:207), whatever fails or crashes around the commit.          *)
(***************************************************************************)
THEOREM DebitAndJobTogether == ApiSpec => []DebitHasJob
<1>1. ApiInv => DebitHasJob
  BY DEF ApiInv, PaymentInv, DebitHasJob
<1> QED BY <1>1, ApiInvHolds, PTL

(***************************************************************************)
(* No free job: a job row exists only for a debited call or for one that   *)
(* repeats a debited call of its own organisation and key.                 *)
(***************************************************************************)
THEOREM NoFreeJob == ApiSpec => []JobIsPaidOrRepeats
<1>1. KeyInv /\ ApiInv => JobIsPaidOrRepeats
  BY DEF ApiInv, ApiTypeOK, PaymentInv, KeyInv, FoundIsOwn, JobIsPaidOrRepeats
<1> QED BY <1>1, ApiInvHolds, PTL

(***************************************************************************)
(* An answer, cached or computed, never crosses organisations, endpoints   *)
(* or keys (product.py:35).                                                *)
(***************************************************************************)
THEOREM AnswersStayInSlot == ApiSpec => []AnswerDescribesSameCall
<1>1. ApiInv => AnswerDescribesSameCall
  <2> SUFFICES ASSUME ApiInv, NEW q \in Requests, NEW x \in Requests, answer[q] = x
               PROVE  OrgOf[x] = OrgOf[q] /\ Endpoint[x] = Endpoint[q] /\ KeyOf[x] = KeyOf[q]
    BY DEF AnswerDescribesSameCall
  <2>1. CacheSlot(x) = CacheSlot(q)
    BY SlotTypes DEF ApiInv, AnswerInv
  <2> QED BY <2>1 DEF CacheSlot
<1> QED BY <1>1, ApiInvHolds, PTL

(***************************************************************************)
(* A job that an answer tells of is committed, also when the answer comes  *)
(* from the cache (product.py:195-199, 207).                               *)
(***************************************************************************)
THEOREM AnsweredJobIsCommitted == ApiSpec => []AnsweredJobExists
<1>1. ApiInv => AnsweredJobExists
  BY DEF ApiInv, AnswerInv, AnsweredJobExists
<1> QED BY <1>1, ApiInvHolds, PTL

(***************************************************************************)
(* A handler that waits for a connection of the pool holds neither a       *)
(* connection nor a lock nor an uncommitted debit (database.py:47,         *)
(* credit_service.py:48): exhausting the pool delays calls and deadlocks   *)
(* none of them.                                                           *)
(***************************************************************************)
THEOREM PoolWaitsAreFree == ApiSpec => []ConnectionWaiterHoldsNothing
<1>1. Spec => [](KeyInv /\ HoldersAreOpen)
  <2>1. KeyInv /\ HoldersAreOpen /\ [Next]_vars => HoldersAreOpen'
    BY HoldersStep
  <2> QED BY <2>1, KeyInvInit, KeyInvStep, HoldersInit, PTL DEF Spec
<1>2. KeyInv /\ HoldersAreOpen /\ ApiInv => ConnectionWaiterHoldsNothing
  <2> SUFFICES ASSUME KeyInv, HoldersAreOpen, ApiInv, NEW q \in Requests,
                      stage[q] \in {"connect", "refresh"}
               PROVE  /\ q \notin conns \cup pending
                      /\ orgLock[ProcOf[q]][OrgOf[q]] # q
                      /\ \A r \in Rows : rowLock[r] # q
    BY DEF ConnectionWaiterHoldsNothing
  <2>1. pc[q] \in {"idle", "charged", "reused"} /\ q \notin conns
    BY DEF ApiInv, PlaceInv
  <2>2. q \notin pending
    BY <2>1 DEF KeyInv, PendingUncommitted
  <2>3. \A r \in Rows : rowLock[r] # q
    BY <2>1 DEF HoldersAreOpen
  <2>4. orgLock[ProcOf[q]][OrgOf[q]] # q
    BY <2>1, ConstantTypes DEF HoldersAreOpen, InDeduct
  <2> QED BY <2>1, <2>2, <2>3, <2>4
<1> QED BY <1>1, <1>2, HandlersUseCreditService, ApiInvHolds, PTL
=============================================================================

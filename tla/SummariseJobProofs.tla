------------------------- MODULE SummariseJobProofs -------------------------
(***************************************************************************)
(* Theorems about SummariseJob, for any number of jobs, API processes,     *)
(* places in the worker and deliveries.                                    *)
(*                                                                         *)
(* Two facts carry the safety properties.  A call does not touch the queue *)
(* before its row is committed and does not write the row's status after   *)
(* it (CallThenQueue), and what a run of the job has done to the row can   *)
(* be read from where it is, since ARQ runs a job at most once at a time   *)
(* (RunIsInProgress, RunKnowsRow).                                         *)
(***************************************************************************)
EXTENDS SummariseJobProperties, TLAPS

\* ARQ counts a job as in progress exactly while a run of it exists.
RunIsInProgress == \A j \in Jobs : run[j] # "off" <=> queue[j] = "inProgress"

\* The row is committed before anything is sent to the queue.
CallThenQueue ==
    \A j \in Jobs :
        /\ api[j] \in {"handling", "refresh", "getPool", "enqueue"} => queue[j] = "empty"
        /\ api[j] = "handling" => status[j] = "absent" /\ result[j] = "none"
        /\ api[j] \notin {"handling", "dead"} => status[j] # "absent"

(***************************************************************************)
(* A run that is past its first transaction shows the job as running, one  *)
(* that has returned left it settled, and nothing has settled a job before *)
(* its first delivery got that far.                                        *)
(***************************************************************************)
RunKnowsRow ==
    \A j \in Jobs :
        /\ run[j] = "summarise" => status[j] = "running"
        /\ run[j] = "return" => status[j] \in Settled
        /\ tries[j] = 0 => run[j] = "off" /\ status[j] \notin Settled
        /\ tries[j] = 1 /\ run[j] = "start" => status[j] \notin Settled

\* Strengthening of the safety properties that every step preserves.
JobInv ==
    /\ JobTypeOK
    /\ RunIsInProgress
    /\ CallThenQueue
    /\ RunKnowsRow
    /\ RowIsCoherent
    /\ QueuedJobHasRow
    /\ PoolLockHeldByCreator
    /\ AnsweredJobIsQueuedOrMarked
    /\ DoneMeansSettled

-----------------------------------------------------------------------------
\* At the start there are no rows, deliveries or pools.
LEMMA JobInvInit == JobInit => JobInv
BY BoundsAssumption, ProcOfAssumption
DEF JobInit, PoolInit, JobInv, JobTypeOK, Settled, RunIsInProgress, CallThenQueue,
    RunKnowsRow, RowIsCoherent, QueuedJobHasRow, PoolLockHeldByCreator,
    AnsweredJobIsQueuedOrMarked, DoneMeansSettled

\* The types of the pool's variables, and who holds the lock.
PoolInv ==
    /\ pool \subseteq Procs
    /\ poolLock \in [Procs -> Jobs \cup {None}]
    /\ getting \in [Jobs -> {"idle", "waiting", "creating"}]
    /\ PoolLockHeldByCreator

(***************************************************************************)
(* Whatever a call does in _get_arq_pool, and whenever it is cancelled or  *)
(* its process dies, the lock is held by the creator alone.                *)
(***************************************************************************)
LEMMA PoolInvStep ==
  ASSUME PoolInv, [JobNext]_vars
  PROVE  PoolInv'
<1> USE ProcOfAssumption DEF PoolInv, PoolLockHeldByCreator, HasPool, LockIsFree
<1>1. CASE UNCHANGED poolVars
  BY <1>1 DEF poolVars
<1>2. ASSUME NEW c \in Jobs, UsePool(c)  PROVE PoolInv'
  BY <1>2 DEF UsePool
<1>3. ASSUME NEW c \in Jobs, AwaitPoolLock(c)  PROVE PoolInv'
  BY <1>3 DEF AwaitPoolLock
<1>4. ASSUME NEW c \in Jobs, EnterPoolLock(c)  PROVE PoolInv'
  BY <1>4 DEF EnterPoolLock
<1>5. ASSUME NEW c \in Jobs, CreatePool(c)  PROVE PoolInv'
  BY <1>5 DEF CreatePool
<1>6. ASSUME NEW c \in Jobs, GetPoolFails(c)  PROVE PoolInv'
  BY <1>6 DEF GetPoolFails
<1>7. ASSUME NEW p \in Procs, ForgetPool(p)  PROVE PoolInv'
  BY <1>7 DEF ForgetPool
<1>8. \/ UNCHANGED poolVars
      \/ \E c \in Jobs : AwaitPool(c) \/ GetPool(c) \/ GetPoolFails(c)
      \/ \E p \in Procs : ForgetPool(p)
  <2>1. ASSUME NEW j \in Jobs, ApiStep(j)
        PROVE  UNCHANGED poolVars \/ AwaitPool(j) \/ GetPool(j) \/ GetPoolFails(j)
    BY <2>1 DEF ApiStep, CommitJob, RefreshRow, ObtainPool, Enqueue, EnqueueFails,
       RecordEnqueueFailure
  <2>2. ASSUME NEW j \in Jobs, CallFails(j) \/ WorkerStep(j)  PROVE UNCHANGED poolVars
    BY <2>2 DEF CallFails, WorkerStep
  <2>3. ASSUME NEW p \in Procs, ApiDies(p)  PROVE ForgetPool(p)
    BY <2>3 DEF ApiDies
  <2>4. UNCHANGED vars => UNCHANGED poolVars
    BY DEF vars
  <2> QED BY <2>1, <2>2, <2>3, <2>4 DEF JobNext
<1> QED BY <1>1, <1>2, <1>3, <1>4, <1>5, <1>6, <1>7, <1>8 DEF AwaitPool, GetPool

(***************************************************************************)
(* Every step keeps what JobInv says of the rows, the queue and the runs.  *)
(***************************************************************************)
RowInv ==
    /\ api \in [Jobs -> {"handling", "refresh", "getPool", "enqueue", "enqueueFailed",
                         "answered", "dead"}]
    /\ status \in [Jobs -> Settled \cup {"absent", "pending", "running"}]
    /\ result \in [Jobs -> {"none", "summary"}]
    /\ error \in [Jobs -> {"none", "enqueue_failed", "exception"}]
    /\ queue \in [Jobs -> {"empty", "sent", "queued", "inProgress", "finished"}]
    /\ run \in [Jobs -> {"off", "start", "summarise", "except", "return"}]
    /\ tries \in [Jobs -> 0 .. MaxTries]
    /\ outcome \in [Jobs -> {"none", "returned", "timeout", "exhausted", "unrecorded"}]
    /\ RunIsInProgress
    /\ CallThenQueue
    /\ RunKnowsRow
    /\ RowIsCoherent
    /\ QueuedJobHasRow
    /\ AnsweredJobIsQueuedOrMarked
    /\ DoneMeansSettled

\* Every step preserves what is said of the row and its runs.
LEMMA RowInvStep ==
  ASSUME RowInv, [JobNext]_vars
  PROVE  RowInv'
<1> USE BoundsAssumption
    DEF RowInv, RunIsInProgress, CallThenQueue, RunKnowsRow, RowIsCoherent,
        QueuedJobHasRow, AnsweredJobIsQueuedOrMarked, DoneMeansSettled, Settled,
        SetRow, SetExistingRow, rowVars, arqVars
<1>1. ASSUME NEW j \in Jobs, CommitJob(j)  PROVE RowInv'
  BY <1>1 DEF CommitJob
<1>2. ASSUME NEW j \in Jobs, RefreshRow(j)  PROVE RowInv'
  BY <1>2 DEF RefreshRow
<1>3. ASSUME NEW j \in Jobs, ObtainPool(j)  PROVE RowInv'
  BY <1>3 DEF ObtainPool
<1>4. ASSUME NEW j \in Jobs, Enqueue(j)  PROVE RowInv'
  BY <1>4 DEF Enqueue
<1>5. ASSUME NEW j \in Jobs, EnqueueFails(j)  PROVE RowInv'
  BY <1>5 DEF EnqueueFails
<1>6. ASSUME NEW j \in Jobs, RecordEnqueueFailure(j)  PROVE RowInv'
  BY <1>6 DEF RecordEnqueueFailure
<1>7. ASSUME NEW j \in Jobs, CallFails(j)  PROVE RowInv'
  BY <1>7 DEF CallFails
<1>8. ASSUME NEW j \in Jobs, LateEnqueue(j)  PROVE RowInv'
  BY <1>8 DEF LateEnqueue
<1>9. ASSUME NEW j \in Jobs, StartRun(j)  PROVE RowInv'
  BY <1>9 DEF StartRun
<1>10. ASSUME NEW j \in Jobs, GiveUp(j)  PROVE RowInv'
  BY <1>10 DEF GiveUp
<1>11. ASSUME NEW j \in Jobs, MarkRunning(j, "summarise")  PROVE RowInv'
  BY <1>11 DEF MarkRunning
<1>12. ASSUME NEW j \in Jobs, Complete(j, "return")  PROVE RowInv'
  BY <1>12 DEF Complete
<1>13. ASSUME NEW j \in Jobs, StepFails(j)  PROVE RowInv'
  BY <1>13 DEF StepFails, MarkRunning, Complete
<1>14. ASSUME NEW j \in Jobs, MarkFailed(j)  PROVE RowInv'
  BY <1>14 DEF MarkFailed
<1>15. ASSUME NEW j \in Jobs, MarkFailedFails(j)  PROVE RowInv'
  BY <1>15 DEF MarkFailedFails
<1>16. ASSUME NEW j \in Jobs, ReportDone(j)  PROVE RowInv'
  BY <1>16 DEF ReportDone
<1>17. ASSUME NEW j \in Jobs, Timeout(j)  PROVE RowInv'
  BY <1>17 DEF Timeout
<1>18. ASSUME NEW j \in Jobs, WorkerStops(j)  PROVE RowInv'
  BY <1>18 DEF WorkerStops
<1>19. ASSUME NEW p \in Procs, ApiDies(p)  PROVE RowInv'
  BY <1>19 DEF ApiDies
<1>20. CASE UNCHANGED vars
  BY <1>20 DEF vars
<1> QED
  BY <1>1, <1>2, <1>3, <1>4, <1>5, <1>6, <1>7, <1>8, <1>9, <1>10, <1>11, <1>12,
     <1>13, <1>14, <1>15, <1>16, <1>17, <1>18, <1>19, <1>20
  DEF JobNext, ApiStep, WorkerStep

\* Every step preserves the invariant.
LEMMA JobInvStep == JobInv /\ [JobNext]_vars => JobInv'
<1> SUFFICES ASSUME JobInv, [JobNext]_vars  PROVE JobInv'
  OBVIOUS
<1>1. PoolInv /\ RowInv
  BY DEF JobInv, JobTypeOK, PoolInv, RowInv
<1>2. PoolInv' /\ RowInv'
  BY <1>1, PoolInvStep, RowInvStep
<1> QED BY <1>2 DEF JobInv, JobTypeOK, PoolInv, RowInv

-----------------------------------------------------------------------------
(***************************************************************************)
(* The variables keep their types in every behaviour of SummariseJob.      *)
(***************************************************************************)
THEOREM JobTypesHold == JobSpec => []JobTypeOK
<1>1. JobInv => JobTypeOK
  BY DEF JobInv
<1> QED BY <1>1, JobInvInit, JobInvStep, PTL DEF JobSpec

(***************************************************************************)
(* However the API and any number of deliveries overlap and fail, the      *)
(* columns of a job's row fit together: product.py:225 and                 *)
(* worker.py:61-62, 78-80, 94-96 never leave half of each other's writes.  *)
(***************************************************************************)
THEOREM RowsFitTogether == JobSpec => []RowIsCoherent
<1>1. JobInv => RowIsCoherent
  BY DEF JobInv
<1> QED BY <1>1, JobInvInit, JobInvStep, PTL DEF JobSpec

(***************************************************************************)
(* No delivery, however late, reaches a worker before the row is committed *)
(* (product.py:207 before 213).                                            *)
(***************************************************************************)
THEOREM RowBeforeMessage == JobSpec => []QueuedJobHasRow
<1>1. JobInv => QueuedJobHasRow
  BY DEF JobInv
<1> QED BY <1>1, JobInvInit, JobInvStep, PTL DEF JobSpec

(***************************************************************************)
(* One pool for each process: whoever is inside _ARQ_POOL_LOCK creates it  *)
(* for a process without one, and cancelled calls keep nobody out.         *)
(***************************************************************************)
THEOREM OnePoolCreator == JobSpec => []PoolLockHeldByCreator
<1>1. JobInv => PoolLockHeldByCreator
  BY DEF JobInv
<1> QED BY <1>1, JobInvInit, JobInvStep, PTL DEF JobSpec

(***************************************************************************)
(* An answered call's job is in the queue, was run, or says that it may    *)
(* not be there (product.py:224-226).                                      *)
(***************************************************************************)
THEOREM NoJobIsForgotten == JobSpec => []AnsweredJobIsQueuedOrMarked
<1>1. JobInv => AnsweredJobIsQueuedOrMarked
  BY DEF JobInv
<1> QED BY <1>1, JobInvInit, JobInvStep, PTL DEF JobSpec

(***************************************************************************)
(* A run that returns normally leaves its job completed or failed          *)
(* (worker.py:75-97).                                                      *)
(***************************************************************************)
THEOREM ReturnSettles == JobSpec => []DoneMeansSettled
<1>1. JobInv => DoneMeansSettled
  BY DEF JobInv
<1> QED BY <1>1, JobInvInit, JobInvStep, PTL DEF JobSpec

-----------------------------------------------------------------------------
(***************************************************************************)
(* The refinement of JobStatus.  A client sees neither the queue nor the   *)
(* error column, so only the commit of the row and the worker's steps on   *)
(* it are visible.                                                         *)
(***************************************************************************)
Phase == [j \in Jobs |->
            CASE run[j] = "off" -> "off"
              [] run[j] = "start" -> "fresh"
              [] OTHER -> "begun"]

\* How a step changes the phase that JobStatus shows.
LEMMA PhaseAfter ==
  ASSUME RowInv, NEW j \in Jobs, NEW place, run' = [run EXCEPT ![j] = place]
  PROVE  /\ Phase[j] = CASE run[j] = "off" -> "off"
                         [] run[j] = "start" -> "fresh"
                         [] OTHER -> "begun"
         /\ Phase' = [Phase EXCEPT ![j] = CASE place = "off" -> "off"
                                            [] place = "start" -> "fresh"
                                            [] OTHER -> "begun"]
BY DEF Phase, RowInv

\* The initial states map to initial states of JobStatus.
LEMMA StatusInitMaps == JobInit => Shown!StatusInit
BY DEF JobInit, Shown!StatusInit

\* Every step maps to a step of JobStatus or to a stutter.
LEMMA StatusStepMaps ==
  ASSUME RowInv, [JobNext]_vars
  PROVE  [Shown!StatusNext]_(Shown!vars)
<1> DEFINE Visible == [Shown!StatusNext]_(Shown!vars)
<1> USE DEF RowInv, CallThenQueue, RunIsInProgress, RunKnowsRow, QueuedJobHasRow, Settled,
            SetRow, SetExistingRow
<1>1. CASE UNCHANGED <<status, result, tries, run>>
  BY <1>1 DEF Shown!vars
<1>2. ASSUME NEW j \in Jobs, CommitJob(j)  PROVE Shown!Create(j)
  BY <1>2 DEF CommitJob, Shown!Create, arqVars
<1>3. ASSUME NEW j \in Jobs, StartRun(j)  PROVE Shown!Deliver(j)
  <2>1. Phase[j] = "off" /\ Phase' = [Phase EXCEPT ![j] = "fresh"]
    BY <1>3, PhaseAfter DEF StartRun
  <2> QED BY <1>3, <2>1 DEF StartRun, Shown!Deliver, Phase, rowVars
<1>4. ASSUME NEW j \in Jobs, NEW place \in {"summarise", "except"}, MarkRunning(j, place)
      PROVE  Shown!Begin(j)
  <2>1. Phase[j] = "fresh" /\ Phase' = [Phase EXCEPT ![j] = "begun"]
    BY <1>4, PhaseAfter DEF MarkRunning
  <2>2. status' = [status EXCEPT ![j] = "running"] /\ result' = result
    BY <1>4 DEF MarkRunning
  <2> QED BY <1>4, <2>1, <2>2 DEF MarkRunning, Shown!Begin, Phase
<1>5. ASSUME NEW j \in Jobs, NEW place \in {"return", "except"}, Complete(j, place)
      PROVE  Shown!Complete(j)
  <2>1. Phase[j] = "begun" /\ Phase' = Phase
    BY <1>5, PhaseAfter DEF Complete, Phase
  <2> QED BY <1>5, <2>1 DEF Complete, Shown!Complete, Phase
<1>6. ASSUME NEW j \in Jobs, StepFails(j)  PROVE Visible
  <2>1. ASSUME run[j] = "start", run' = [run EXCEPT ![j] = "except"],
               UNCHANGED <<rowVars, tries>>
        PROVE  Shown!Begin(j)
    <3>1. Phase[j] = "fresh"
      BY <2>1 DEF Phase
    <3>2. Phase' = [Phase EXCEPT ![j] = "begun"]
      BY <2>1 DEF Phase
    <3> QED BY <2>1, <3>2, <3>1 DEF Shown!Begin, Phase, rowVars
  <2>2. ASSUME run[j] = "summarise", run' = [run EXCEPT ![j] = "except"],
               UNCHANGED <<rowVars, tries>>
        PROVE  UNCHANGED Shown!vars
    <3>1. Phase' = Phase
      BY <2>2, PhaseAfter DEF Phase
    <3> QED BY <2>2, <3>1 DEF Shown!vars, Phase, rowVars
  <2>3. \/ Shown!Begin(j) \/ Shown!Complete(j) \/ UNCHANGED Shown!vars
    BY <1>4, <1>5, <1>6, <2>1, <2>2 DEF StepFails
  <2> QED BY <2>3 DEF Shown!StatusNext
<1>7. ASSUME NEW j \in Jobs, MarkFailed(j)  PROVE Shown!Fail(j)
  <2>1. Phase[j] = "begun" /\ Phase' = Phase
    BY <1>7, PhaseAfter DEF MarkFailed, Phase
  <2> QED BY <1>7, <2>1 DEF MarkFailed, Shown!Fail, Phase
<1>8. ASSUME NEW j \in Jobs,
             MarkFailedFails(j) \/ ReportDone(j) \/ Timeout(j) \/ WorkerStops(j)
      PROVE  Shown!End(j)
  <2>1. /\ run[j] # "off" /\ run' = [run EXCEPT ![j] = "off"]
        /\ UNCHANGED <<status, result, tries>>
    BY <1>8 DEF MarkFailedFails, ReportDone, Timeout, WorkerStops, rowVars
  <2>2. Phase[j] # "off" /\ Phase' = [Phase EXCEPT ![j] = "off"]
    BY <2>1, PhaseAfter
  <2> QED BY <2>1, <2>2 DEF Shown!End, Phase
<1>9. ASSUME NEW j \in Jobs,
             \/ RefreshRow(j) \/ ObtainPool(j) \/ Enqueue(j) \/ EnqueueFails(j)
             \/ RecordEnqueueFailure(j) \/ CallFails(j) \/ LateEnqueue(j) \/ GiveUp(j)
      PROVE  UNCHANGED <<status, result, tries, run>>
  BY <1>9 DEF RefreshRow, ObtainPool, Enqueue, EnqueueFails, RecordEnqueueFailure,
     CallFails, LateEnqueue, GiveUp, rowVars, arqVars
<1>10. ASSUME NEW p \in Procs, ApiDies(p)  PROVE UNCHANGED <<status, result, tries, run>>
  BY <1>10 DEF ApiDies, rowVars
<1>11. CASE UNCHANGED vars
  BY <1>11, <1>1 DEF vars, rowVars, arqVars
<1>12. ASSUME NEW j \in Jobs, ApiStep(j) \/ CallFails(j)  PROVE Visible
  BY <1>1, <1>2, <1>9, <1>12 DEF ApiStep, Shown!StatusNext
<1>13. ASSUME NEW j \in Jobs, WorkerStep(j)  PROVE Visible
  BY <1>1, <1>3, <1>4, <1>5, <1>6, <1>7, <1>8, <1>9, <1>13 DEF WorkerStep, Shown!StatusNext
<1>14. ASSUME NEW j \in Jobs, LateEnqueue(j) \/ Timeout(j) \/ WorkerStops(j)  PROVE Visible
  BY <1>1, <1>8, <1>9, <1>14 DEF Shown!StatusNext
<1> QED BY <1>1, <1>10, <1>11, <1>12, <1>13, <1>14 DEF JobNext

(***************************************************************************)
(* What a polling client sees is what JobStatus allows, whatever overlaps, *)
(* fails or is delivered again.                                            *)
(***************************************************************************)
THEOREM StatusRefinement == JobSpec => ImplementsJobStatus
<1>1. JobInv => RowInv
  BY DEF JobInv, JobTypeOK, RowInv
<1>2. RowInv /\ [JobNext]_vars => [Shown!StatusNext]_(Shown!vars)
  BY StatusStepMaps
<1> QED BY <1>1, <1>2, JobInvInit, JobInvStep, StatusInitMaps, PTL
        DEF JobSpec, ImplementsJobStatus, Shown!StatusSpec

(***************************************************************************)
(* A settled job changes its status again only in a later delivery, or     *)
(* where the exception handler runs after a commit whose acknowledgement   *)
(* was lost (worker.py:87-97).                                             *)
(***************************************************************************)
THEOREM SettledStays == JobSpec => SettledStaysUnlessRedelivered
<1> DEFINE Stays ==
      \A j \in Jobs : status[j] \in Settled /\ status'[j] # status[j] =>
          tries[j] > 1 \/ run[j] = "except"
<1>1. ASSUME RowInv, [JobNext]_vars  PROVE Stays
  <2> USE <1>1, BoundsAssumption
      DEF RowInv, CallThenQueue, RunIsInProgress, RunKnowsRow, QueuedJobHasRow, Settled,
          SetRow, SetExistingRow
  <2>1. CASE UNCHANGED status
    BY <2>1
  <2>2. ASSUME NEW j \in Jobs, CommitJob(j)  PROVE Stays
    BY <2>2 DEF CommitJob
  <2>3. ASSUME NEW j \in Jobs, NEW place, MarkRunning(j, place)  PROVE Stays
    BY <2>3 DEF MarkRunning
  <2>4. ASSUME NEW j \in Jobs, NEW place, Complete(j, place)  PROVE Stays
    BY <2>4 DEF Complete
  <2>5. ASSUME NEW j \in Jobs, MarkFailed(j)  PROVE Stays
    BY <2>5 DEF MarkFailed
  <2>6. \/ UNCHANGED status
        \/ \E j \in Jobs : \/ CommitJob(j) \/ MarkFailed(j)
                           \/ MarkRunning(j, "summarise") \/ MarkRunning(j, "except")
                           \/ Complete(j, "return") \/ Complete(j, "except")
    <3>1. ASSUME NEW j \in Jobs,
                 \/ RefreshRow(j) \/ ObtainPool(j) \/ Enqueue(j) \/ EnqueueFails(j)
                 \/ RecordEnqueueFailure(j) \/ CallFails(j) \/ LateEnqueue(j)
                 \/ StartRun(j) \/ GiveUp(j) \/ MarkFailedFails(j) \/ ReportDone(j)
                 \/ Timeout(j) \/ WorkerStops(j)
          PROVE  UNCHANGED status
      BY <3>1 DEF RefreshRow, ObtainPool, Enqueue, EnqueueFails, RecordEnqueueFailure,
         CallFails, LateEnqueue, StartRun, GiveUp, MarkFailedFails, ReportDone, Timeout,
         WorkerStops, rowVars
    <3>2. ASSUME NEW p \in Procs, ApiDies(p)  PROVE UNCHANGED status
      BY <3>2 DEF ApiDies, rowVars
    <3>3. UNCHANGED vars => UNCHANGED status
      BY DEF vars, rowVars
    <3> QED BY <3>1, <3>2, <3>3 DEF JobNext, ApiStep, WorkerStep, StepFails, rowVars
  <2> QED BY <2>1, <2>2, <2>3, <2>4, <2>5, <2>6
<1>2. RowInv /\ [JobNext]_vars => [Stays]_vars
  BY <1>1
<1>3. JobInv => RowInv
  BY DEF JobInv, JobTypeOK, RowInv
<1> QED BY <1>2, <1>3, JobInvInit, JobInvStep, PTL DEF JobSpec, SettledStaysUnlessRedelivered
=============================================================================

---------------------------- MODULE SummariseJob ----------------------------
(***************************************************************************)
(* The life of a summarisation job: the row that summarise_text commits,   *)
(* the pool it gets and the message it puts in ARQ's queue, each within    *)
(* half a second or given up on, the worker's runs of summarise_job, and   *)
(* ARQ's redelivery of a run that a worker's death or shutdown interrupts. *)
(*                                                                         *)
(* The API and the worker share nothing but the row and the queue.  A step *)
(* of theirs is a transaction on the row or a command to Redis, and each   *)
(* may fail, or take effect with its acknowledgement lost.                 *)
(***************************************************************************)
EXTENDS ArqPool, Naturals, FiniteSets

CONSTANTS
    MaxTries,  \* ARQ's max_tries: how often a job may be started
    MaxJobs    \* WorkerSettings.max_jobs

ASSUME BoundsAssumption == MaxTries \in Nat \ {0} /\ MaxJobs \in Nat \ {0}

VARIABLES
    api,     \* where the handler of the call is
    status,  \* jobs.status; "absent" before the row is committed
    result,  \* jobs.result
    error,   \* jobs.error
    queue,   \* what ARQ holds of the job
    run,     \* where the worker's run of the job is
    tries,   \* how often ARQ has started the job
    outcome  \* how ARQ's last run of the job ended

rowVars == <<status, result, error>>
arqVars == <<queue, run, tries, outcome>>
vars == <<api, rowVars, arqVars, poolVars>>

Settled == {"completed", "failed"}

SetRow(j, s, res, err) ==
    /\ status' = [status EXCEPT ![j] = s]
    /\ result' = [result EXCEPT ![j] = res]
    /\ error' = [error EXCEPT ![j] = err]

JobInit ==
    /\ PoolInit
    /\ api = [j \in Jobs |-> "handling"]
    /\ status = [j \in Jobs |-> "absent"]
    /\ result = [j \in Jobs |-> "none"]
    /\ error = [j \in Jobs |-> "none"]
    /\ queue = [j \in Jobs |-> "empty"]
    /\ run = [j \in Jobs |-> "off"]
    /\ tries = [j \in Jobs |-> 0]
    /\ outcome = [j \in Jobs |-> "none"]

\* The worker selects the job before it writes to it.
SetExistingRow(j, s, res, err) ==
    IF status[j] = "absent" THEN UNCHANGED rowVars ELSE SetRow(j, s, res, err)

-----------------------------------------------------------------------------
\* Mutant of CommitJob: the message is sent before the row is committed.
EnqueueThenCommit(j) ==
    /\ api[j] = "handling"
    /\ \/ /\ queue[j] = "empty"
          /\ queue' = [queue EXCEPT ![j] = "queued"]
          /\ UNCHANGED <<api, rowVars, run, tries, outcome, poolVars>>
       \/ /\ queue[j] # "empty"
          /\ api' = [api EXCEPT ![j] = "answered"]
          /\ SetRow(j, "pending", "none", "none")
          /\ UNCHANGED <<arqVars, poolVars>>

\* db.add(job), db.commit(): the row and the debit (see ProductApi).
CommitJob(j) ==
    /\ api[j] = "handling"
    /\ api' = [api EXCEPT ![j] = "refresh"]
    /\ SetRow(j, "pending", "none", "none")
    /\ UNCHANGED <<arqVars, poolVars>>

\* db.refresh(job), in a second transaction.
RefreshRow(j) ==
    /\ api[j] = "refresh"
    /\ api' = [api EXCEPT ![j] = "getPool"]
    /\ UNCHANGED <<rowVars, arqVars, poolVars>>

\* wait_for(_get_arq_pool(), 0.5): the pool, or an exception.
ObtainPool(j) ==
    /\ api[j] = "getPool"
    /\ \/ AwaitPool(j) /\ UNCHANGED api
       \/ GetPool(j) /\ api' = [api EXCEPT ![j] = "enqueue"]
       \/ GetPoolFails(j) /\ api' = [api EXCEPT ![j] = "enqueueFailed"]
    /\ UNCHANGED <<rowVars, arqVars>>

\* enqueue_job returns in time.
Enqueue(j) ==
    /\ api[j] = "enqueue"
    /\ api' = [api EXCEPT ![j] = "answered"]
    /\ queue' = [queue EXCEPT ![j] = "queued"]
    /\ UNCHANGED <<rowVars, run, tries, outcome, poolVars>>

(***************************************************************************)
(* An exception of wait_for: no connection, an error, or half a second is  *)
(* over.  The command may have been sent, and then it may still take       *)
(* effect, at any later time.                                              *)
(***************************************************************************)
EnqueueFails(j) ==
    /\ api[j] = "enqueue"
    /\ api' = [api EXCEPT ![j] = "enqueueFailed"]
    /\ \E sent \in BOOLEAN :
          queue' = IF sent THEN [queue EXCEPT ![j] = "sent"] ELSE queue
    /\ UNCHANGED <<rowVars, run, tries, outcome, poolVars>>

LateEnqueue(j) ==
    /\ queue[j] = "sent"
    /\ queue' = [queue EXCEPT ![j] = "queued"]
    /\ UNCHANGED <<api, rowVars, run, tries, outcome>>

\* Mutant of RecordEnqueueFailure: the job is failed as well.
FailOnEnqueueFailure(j) ==
    /\ api[j] = "enqueueFailed"
    /\ api' = [api EXCEPT ![j] = "answered"]
    /\ SetRow(j, "failed", "none", "enqueue_failed")
    /\ UNCHANGED <<arqVars, poolVars>>

\* Mutant of RecordEnqueueFailure: the commit is forgotten.
SwallowEnqueueFailure(j) ==
    /\ api[j] = "enqueueFailed"
    /\ api' = [api EXCEPT ![j] = "answered"]
    /\ UNCHANGED <<rowVars, arqVars, poolVars>>

\* job.error = "enqueue_failed: ...", committed: an UPDATE of that column.
RecordEnqueueFailure(j) ==
    /\ api[j] = "enqueueFailed"
    /\ api' = [api EXCEPT ![j] = "answered"]
    /\ error' = [error EXCEPT ![j] = "enqueue_failed"]
    /\ UNCHANGED <<status, result, arqVars, poolVars>>

(***************************************************************************)
(* 500: the call is refused or fails before the commit, the refresh fails, *)
(* or the database refuses the record of the failure.                      *)
(***************************************************************************)
CallFails(j) ==
    /\ api[j] \in {"handling", "refresh", "enqueueFailed"}
    /\ api' = [api EXCEPT ![j] = "dead"]
    /\ UNCHANGED <<rowVars, arqVars, poolVars>>

\* An API process dies; a command it has sent may still take effect.
ApiDies(p) ==
    LET Dying == {j \in Jobs : ProcOf[j] = p /\ api[j] \notin {"answered", "dead"}}
    IN  /\ Dying # {}
        /\ api' = [j \in Jobs |-> IF j \in Dying THEN "dead" ELSE api[j]]
        /\ \E sent \in SUBSET {j \in Dying : api[j] = "enqueue"} :
              queue' = [j \in Jobs |-> IF j \in sent THEN "sent" ELSE queue[j]]
        /\ ForgetPool(p)
        /\ UNCHANGED <<rowVars, run, tries, outcome>>

-----------------------------------------------------------------------------
\* Mutant of StartRun: the redeliveries are not counted against MaxTries.
StartRunUnbounded(j) ==
    /\ queue[j] = "queued"
    /\ Cardinality({k \in Jobs : run[k] # "off"}) < MaxJobs
    /\ queue' = [queue EXCEPT ![j] = "inProgress"]
    /\ tries' = [tries EXCEPT ![j] = @ + 1]
    /\ run' = [run EXCEPT ![j] = "start"]
    /\ UNCHANGED <<api, rowVars, outcome>>

\* Mutant of StartRun: the last delivery is neither started nor given up.
StartRunButLast(j) ==
    /\ queue[j] = "queued"
    /\ tries[j] + 1 < MaxTries
    /\ Cardinality({k \in Jobs : run[k] # "off"}) < MaxJobs
    /\ queue' = [queue EXCEPT ![j] = "inProgress"]
    /\ tries' = [tries EXCEPT ![j] = @ + 1]
    /\ run' = [run EXCEPT ![j] = "start"]
    /\ UNCHANGED <<api, rowVars, outcome>>

\* ARQ hands the job to a worker, at most MaxTries times.
StartRun(j) ==
    /\ queue[j] = "queued"
    /\ tries[j] < MaxTries
    /\ Cardinality({k \in Jobs : run[k] # "off"}) < MaxJobs
    /\ queue' = [queue EXCEPT ![j] = "inProgress"]
    /\ tries' = [tries EXCEPT ![j] = @ + 1]
    /\ run' = [run EXCEPT ![j] = "start"]
    /\ UNCHANGED <<api, rowVars, outcome>>

GiveUp(j) ==
    /\ queue[j] = "queued"
    /\ tries[j] = MaxTries
    /\ queue' = [queue EXCEPT ![j] = "finished"]
    /\ outcome' = [outcome EXCEPT ![j] = "exhausted"]
    /\ UNCHANGED <<api, rowVars, run, tries>>

\* Mutant of MarkRunning: the first transaction is not committed.
MarkRunningUncommitted(j, next) ==
    /\ run[j] = "start"
    /\ run' = [run EXCEPT ![j] = IF status[j] = "absent" THEN "return" ELSE next]
    /\ UNCHANGED <<api, rowVars, queue, tries, outcome>>

(***************************************************************************)
(* The first transaction of summarise_job: return if there is no row, else *)
(* status = "running" and error = None.                                    *)
(***************************************************************************)
MarkRunning(j, next) ==
    /\ run[j] = "start"
    /\ SetExistingRow(j, "running", result[j], "none")
    /\ run' = [run EXCEPT ![j] = IF status[j] = "absent" THEN "return" ELSE next]
    /\ UNCHANGED <<api, queue, tries, outcome>>

\* The second transaction: status = "completed" and the result.
Complete(j, next) ==
    /\ run[j] = "summarise"
    /\ SetExistingRow(j, "completed", "summary", "none")
    /\ run' = [run EXCEPT ![j] = next]
    /\ UNCHANGED <<api, queue, tries, outcome>>

\* Mutant of StepFails: the exception is swallowed.
StepFailsSilently(j) ==
    /\ run[j] \in {"start", "summarise"}
    /\ run' = [run EXCEPT ![j] = "return"]
    /\ UNCHANGED <<api, rowVars, queue, tries, outcome>>

(***************************************************************************)
(* An exception in one of the two: either it took no effect, or it was     *)
(* committed and only the acknowledgement was lost.                        *)
(***************************************************************************)
StepFails(j) ==
    \/ /\ run[j] \in {"start", "summarise"}
       /\ run' = [run EXCEPT ![j] = "except"]
       /\ UNCHANGED <<api, rowVars, queue, tries, outcome>>
    \/ MarkRunning(j, "except")
    \/ Complete(j, "except")

\* Mutant of MarkFailed: the result of an earlier run stays in the row.
MarkFailedKeepsResult(j) ==
    /\ run[j] = "except"
    /\ SetExistingRow(j, "failed", result[j], "exception")
    /\ run' = [run EXCEPT ![j] = "return"]
    /\ UNCHANGED <<api, queue, tries, outcome>>

\* except Exception: status = "failed", result = None, error = str(exc).
MarkFailed(j) ==
    /\ run[j] = "except"
    /\ SetExistingRow(j, "failed", "none", "exception")
    /\ run' = [run EXCEPT ![j] = "return"]
    /\ UNCHANGED <<api, queue, tries, outcome>>

\* The third transaction fails too; the exception ends the job in ARQ.
MarkFailedFails(j) ==
    /\ run[j] = "except"
    /\ run' = [run EXCEPT ![j] = "off"]
    /\ queue' = [queue EXCEPT ![j] = "finished"]
    /\ outcome' = [outcome EXCEPT ![j] = "unrecorded"]
    /\ UNCHANGED <<api, rowVars, tries>>

\* summarise_job has returned and ARQ records that the job is done.
ReportDone(j) ==
    /\ run[j] = "return"
    /\ run' = [run EXCEPT ![j] = "off"]
    /\ queue' = [queue EXCEPT ![j] = "finished"]
    /\ outcome' = [outcome EXCEPT ![j] = "returned"]
    /\ UNCHANGED <<api, rowVars, tries>>

(***************************************************************************)
(* job_timeout: CancelledError is raised in summarise_job, where no except *)
(* clause takes it, and ARQ does not retry the job.                        *)
(***************************************************************************)
Timeout(j) ==
    /\ run[j] \in {"start", "summarise", "except"}
    /\ run' = [run EXCEPT ![j] = "off"]
    /\ queue' = [queue EXCEPT ![j] = "finished"]
    /\ outcome' = [outcome EXCEPT ![j] = "timeout"]
    /\ UNCHANGED <<api, rowVars, tries>>

\* The worker is shut down or dies: ARQ delivers the job again.
WorkerStops(j) ==
    /\ run[j] # "off"
    /\ run' = [run EXCEPT ![j] = "off"]
    /\ queue' = [queue EXCEPT ![j] = "queued"]
    /\ UNCHANGED <<api, rowVars, tries, outcome>>

-----------------------------------------------------------------------------
ApiStep(j) ==
    \/ CommitJob(j) \/ RefreshRow(j) \/ ObtainPool(j)
    \/ Enqueue(j) \/ EnqueueFails(j) \/ RecordEnqueueFailure(j)

WorkerStep(j) ==
    /\ \/ StartRun(j) \/ GiveUp(j)
       \/ MarkRunning(j, "summarise")
       \/ Complete(j, "return")
       \/ StepFails(j)
       \/ MarkFailed(j) \/ MarkFailedFails(j)
       \/ ReportDone(j)
    /\ UNCHANGED poolVars

JobNext ==
    \/ \E j \in Jobs :
          \/ ApiStep(j) \/ CallFails(j)
          \/ WorkerStep(j)
          \/ (LateEnqueue(j) \/ Timeout(j) \/ WorkerStops(j)) /\ UNCHANGED poolVars
    \/ \E p \in Procs : ApiDies(p)

JobSpec == JobInit /\ [][JobNext]_vars

(***************************************************************************)
(* The event loops of the API and of a worker that is up run what is       *)
(* runnable, and the timers of wait_for fire; nothing obliges a process to *)
(* die or a run to time out.  Weak fairness is enough although jobs        *)
(* compete for the worker's places: each is started at most MaxTries       *)
(* times.                                                                  *)
(***************************************************************************)
JobFairSpec ==
    /\ JobSpec
    /\ \A j \in Jobs : WF_vars(ApiStep(j)) /\ WF_vars(WorkerStep(j))
=============================================================================

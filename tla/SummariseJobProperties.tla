----------------------- MODULE SummariseJobProperties -----------------------
(***************************************************************************)
(* What must hold of SummariseJob.                                         *)
(***************************************************************************)
EXTENDS SummariseJob

\* Types of the variables.
JobTypeOK ==
    /\ pool \subseteq Procs
    /\ poolLock \in [Procs -> Jobs \cup {None}]
    /\ getting \in [Jobs -> {"idle", "waiting", "creating"}]
    /\ api \in [Jobs -> {"handling", "refresh", "getPool", "enqueue", "enqueueFailed",
                         "answered", "dead"}]
    /\ status \in [Jobs -> Settled \cup {"absent", "pending", "running"}]
    /\ result \in [Jobs -> {"none", "summary"}]
    /\ error \in [Jobs -> {"none", "enqueue_failed", "exception"}]
    /\ queue \in [Jobs -> {"empty", "sent", "queued", "inProgress", "finished"}]
    /\ run \in [Jobs -> {"off", "start", "summarise", "except", "return"}]
    /\ tries \in [Jobs -> 0 .. MaxTries]
    /\ outcome \in [Jobs -> {"none", "returned", "timeout", "exhausted", "unrecorded"}]

(***************************************************************************)
(* What GET /api/jobs/{id} shows fits together, whatever overlapped: a     *)
(* completed job has its result, a failed one an error and no result, a    *)
(* pending one no result (worker.py:61-62, 78-80, 94-96 and                *)
(* product.py:225 write different columns of one row).                     *)
(***************************************************************************)
RowIsCoherent ==
    \A j \in Jobs :
        /\ status[j] = "completed" => result[j] = "summary"
        /\ status[j] = "failed" => result[j] = "none" /\ error[j] # "none"
        /\ status[j] = "pending" => result[j] = "none"

(***************************************************************************)
(* A worker never starts a job whose row is not committed                  *)
(* (product.py:207 before 213): it would drop the job without a trace.     *)
(***************************************************************************)
QueuedJobHasRow == \A j \in Jobs : queue[j] # "empty" => status[j] # "absent"

(***************************************************************************)
(* A process never has two pools, and a call that was cancelled keeps      *)
(* nobody out: whoever is inside _ARQ_POOL_LOCK is creating the pool for a *)
(* process that has none, and whoever creates it is inside.                *)
(***************************************************************************)
PoolLockHeldByCreator ==
    /\ \A p \in Procs : poolLock[p] # None =>
          getting[poolLock[p]] = "creating" /\ ProcOf[poolLock[p]] = p /\ p \notin pool
    /\ \A j \in Jobs : getting[j] = "creating" => poolLock[ProcOf[j]] = j

(***************************************************************************)
(* A client that was told its job is pending finds it in the queue, or the *)
(* job's error says that it may not be (product.py:224-226); a late        *)
(* enqueue or a redelivery may clear the error only by running the job.    *)
(***************************************************************************)
AnsweredJobIsQueuedOrMarked ==
    \A j \in Jobs :
        api[j] = "answered" /\ queue[j] \in {"empty", "sent"} => error[j] = "enqueue_failed"

(***************************************************************************)
(* When ARQ is done with a job it is completed or failed, unless the run   *)
(* timed out, the redeliveries were used up, or the database refused even  *)
(* the record of the failure.                                              *)
(***************************************************************************)
DoneMeansSettled ==
    \A j \in Jobs : queue[j] = "finished" /\ outcome[j] = "returned" => status[j] \in Settled

(***************************************************************************)
(* A completed or failed job changes its status again only in a redelivery *)
(* or where the exception handler runs after a commit whose                *)
(* acknowledgement was lost.                                               *)
(***************************************************************************)
SettledStaysUnlessRedelivered ==
    [][\A j \in Jobs :
          status[j] \in Settled /\ status'[j] # status[j] =>
              tries[j] > 1 \/ run[j] = "except"]_vars

(***************************************************************************)
(* What a client that polls the job sees is what JobStatus allows: the API *)
(* and the deliveries, however they overlap and fail, change the status    *)
(* only in its order, and never more than MaxTries times over.             *)
(***************************************************************************)
Shown == INSTANCE JobStatus WITH
    deliveries <- tries,
    phase <- [j \in Jobs |->
                CASE run[j] = "off" -> "off"
                  [] run[j] = "start" -> "fresh"
                  [] OTHER -> "begun"]

ImplementsJobStatus == Shown!StatusSpec

(***************************************************************************)
(* A queued job reaches the end of its life in ARQ, after however many     *)
(* redeliveries and with other jobs competing for the worker.              *)
(***************************************************************************)
QueuedJobFinishes ==
    \A j \in Jobs : queue[j] = "queued" ~> queue[j] = "finished"

-----------------------------------------------------------------------------
(***************************************************************************)
(* "long hanging tasks converge to failure semantics instead of indefinite *)
(* pending" (DECISIONS.md:8): a job whose run timed out is failed, unless  *)
(* it was completed before.                                                *)
(***************************************************************************)
TimedOutJobSettles ==
    \A j \in Jobs : outcome[j] = "timeout" => status[j] \in Settled
=============================================================================

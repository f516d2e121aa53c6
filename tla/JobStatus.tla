----------------------------- MODULE JobStatus -----------------------------
(***************************************************************************)
(* What GET /api/jobs/{job_id} may show of a job over time: the abstract   *)
(* specification that SummariseJob implements.  A job is pending once its  *)
(* row is committed; from then on only a delivery to a worker changes its  *)
(* status, and a delivery does so in one order: running, then completed or *)
(* failed, where a failure may be the last word on what was completed in   *)
(* the same delivery.                                                      *)
(***************************************************************************)
EXTENDS Naturals

CONSTANTS Jobs, MaxTries

VARIABLES
    status,      \* what is shown
    result,      \* what is shown with it
    deliveries,  \* how often the job was given to a worker
    phase        \* of the present delivery: "off", "fresh" or "begun"

vars == <<status, result, deliveries, phase>>

StatusInit ==
    /\ status = [j \in Jobs |-> "absent"]
    /\ result = [j \in Jobs |-> "none"]
    /\ deliveries = [j \in Jobs |-> 0]
    /\ phase = [j \in Jobs |-> "off"]

Create(j) ==
    /\ status[j] = "absent"
    /\ status' = [status EXCEPT ![j] = "pending"]
    /\ UNCHANGED <<result, deliveries, phase>>

Deliver(j) ==
    /\ status[j] # "absent"
    /\ phase[j] = "off"
    /\ deliveries[j] < MaxTries
    /\ deliveries' = [deliveries EXCEPT ![j] = @ + 1]
    /\ phase' = [phase EXCEPT ![j] = "fresh"]
    /\ UNCHANGED <<status, result>>

\* The job is shown as running, unless the database fails.
Begin(j) ==
    /\ phase[j] = "fresh"
    /\ phase' = [phase EXCEPT ![j] = "begun"]
    /\ status' \in {status, [status EXCEPT ![j] = "running"]}
    /\ UNCHANGED <<result, deliveries>>

Complete(j) ==
    /\ phase[j] = "begun"
    /\ status[j] = "running"
    /\ status' = [status EXCEPT ![j] = "completed"]
    /\ result' = [result EXCEPT ![j] = "summary"]
    /\ UNCHANGED <<deliveries, phase>>

Fail(j) ==
    /\ phase[j] = "begun"
    /\ status' = [status EXCEPT ![j] = "failed"]
    /\ result' = [result EXCEPT ![j] = "none"]
    /\ UNCHANGED <<deliveries, phase>>

\* The delivery ends, wherever it is.
End(j) ==
    /\ phase[j] # "off"
    /\ phase' = [phase EXCEPT ![j] = "off"]
    /\ UNCHANGED <<status, result, deliveries>>

StatusNext ==
    \E j \in Jobs :
        Create(j) \/ Deliver(j) \/ Begin(j) \/ Complete(j) \/ Fail(j) \/ End(j)

StatusSpec == StatusInit /\ [][StatusNext]_vars
=============================================================================

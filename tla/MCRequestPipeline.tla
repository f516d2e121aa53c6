-------------------------- MODULE MCRequestPipeline --------------------------
(***************************************************************************)
(* Requests that pass through the middlewares at the same time.            *)
(***************************************************************************)
EXTENDS RequestPipelineProperties

CONSTANTS q1, q2
=============================================================================

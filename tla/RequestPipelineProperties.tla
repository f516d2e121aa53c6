---------------------- MODULE RequestPipelineProperties ----------------------
(***************************************************************************)
(* What must hold of the layers in RequestPipeline together.               *)
(***************************************************************************)
EXTENDS RequestPipeline

\* Types of the variables; no exception comes as far as the logging middleware.
PipelineTypeOK ==
    /\ at \in [Requests -> Inward \cup Outward \cup {"done"}]
    /\ \A q \in Requests :
          /\ requestId[q] \in {None, Uuid(q, "logging"), Uuid(q, "errors")}
          /\ reply[q].kind \in {"none", "raised", "route", "structured"}
          /\ reply[q].kind = "raised" => at[q] \in {"corsOut", "errorsOut"}
          /\ reply[q].id \in {None, requestId[q]}
          /\ Len(log[q]) <= 2

(***************************************************************************)
(* An error of a request that was logged is in the structured form and     *)
(* shows the request id of its log lines, whichever of the routes, CORS or *)
(* an exception it comes from: error handler and logging middleware pass   *)
(* one id on (error_handler.py:73, logging_middleware.py:29).              *)
(***************************************************************************)
LoggedErrorsAreStructured ==
    \A q \in Requests : at[q] = "done" /\ reply[q].status >= 400 /\ log[q] # <<>> =>
        reply[q].kind = "structured" /\ reply[q].id = log[q][1].id

(***************************************************************************)
(* "Ensure all error responses use structured format with request_id"      *)
(* (error_handler.py:72), of all that a client gets.  The code does not:   *)
(* the rate limiter refuses from outside the error handler (main.py:61).   *)
(***************************************************************************)
AllErrorsAreStructured ==
    \A q \in Requests : at[q] = "done" /\ reply[q].status >= 400 =>
        reply[q].kind = "structured" /\ reply[q].id # None

(***************************************************************************)
(* The log tells what the client was told: a request that was logged as    *)
(* started is logged as completed exactly once, under the id and with the  *)
(* status of its answer, and with 500 if it was cancelled unanswered.      *)
(***************************************************************************)
LoggedAsAnswered ==
    \A q \in Requests : at[q] = "done" /\ log[q] # <<>> =>
        /\ Len(log[q]) = 2
        /\ log[q][2].event = "completed"
        /\ log[q][2].id = log[q][1].id
        /\ log[q][2].status = IF reply[q] = NoReply THEN 500 ELSE reply[q].status
        /\ reply[q] # NoReply => reply[q].id = log[q][1].id

(***************************************************************************)
(* Whatever the layers make of an answer, the client gets the status, the  *)
(* challenge and the Retry-After that the limiter, CORS or the route gave  *)
(* it, and a reason given as HTTPException's detail, text or dict, is      *)
(* still the reason.  Other headers and other bodies of errors are not     *)
(* kept (_structured_error).                                               *)
(***************************************************************************)
ReasonReachesClient ==
    \A q \in Requests : at[q] = "done" /\ reply[q] # NoReply =>
        /\ reply[q].status = made[q].status
        /\ made[q].headers \cap {"WWW-Authenticate", "Retry-After"} \subseteq reply[q].headers
        /\ made[q].reason \in {"text", "named"} => reply[q].reason = made[q].reason
=============================================================================

-------------------------- MODULE RequestPipeline --------------------------
(***************************************************************************)
(* What create_app puts around every route, from the outside in: the rate  *)
(* limiter, the logging middleware, the error handler, CORS.  The one that *)
(* is registered last is the outermost.                                    *)
(*                                                                         *)
(* A reply carries what the layers look at or change: whether its body is  *)
(* the route's or the error handler's, the reason for an error, the        *)
(* headers, and the request id it shows.  The lines of the log are kept    *)
(* per request.                                                            *)
(***************************************************************************)
EXTENDS Naturals, Sequences, FiniteSets

CONSTANTS
    Requests,
    None

\* getattr's default is no uuid.
ASSUME NoneAssumption == None \notin {"logging", "errors"} \X Requests

VARIABLES
    at,         \* the layer each request is in
    requestId,  \* request.state.request_id
    made,       \* the answer as the limiter, CORS or the route made it
    reply,      \* what travels outwards
    log         \* the lines of the logging middleware

vars == <<at, requestId, made, reply, log>>

Inward == {"limiter", "logging", "errors", "cors", "route"}
Outward == {"corsOut", "errorsOut", "loggingOut"}

\* A uuid4, named by the layer that draws it.
Uuid(q, layer) == <<layer, q>>

Reply(kind, status, reason, headers) ==
    [kind |-> kind, status |-> status, reason |-> reason, headers |-> headers, id |-> None]

NoReply == Reply("none", 0, "none", {})
Raised == Reply("raised", 500, "none", {})

(***************************************************************************)
(* What the routes answer.  The reason of an error is the text of          *)
(* HTTPException's detail, a dict with an error name in it, the list of a  *)
(* failed validation, or a body without detail (oauth.py, health.py).      *)
(* A 401 is get_current_user's, with a challenge, or the callback's; a 402 *)
(* is analyse's or summarise's; a 405 is Starlette's.                      *)
(***************************************************************************)
RouteReplies ==
    { Reply("route", 200, "none", {}),
      Reply("route", 401, "text", {"WWW-Authenticate"}),
      Reply("route", 401, "body", {}),
      Reply("route", 402, "named", {}),
      Reply("route", 402, "text", {}),
      Reply("route", 403, "text", {}),
      Reply("route", 404, "text", {}),
      Reply("route", 405, "text", {"Allow"}),
      Reply("route", 422, "list", {}),
      Reply("route", 503, "body", {}),
      Raised }

PreflightReplies ==
    { Reply("route", 200, "none", {"Access-Control"}),
      Reply("route", 400, "body", {}) }

LimiterReplies ==
    { Reply("route", 429, "text", {"Retry-After"}),
      Reply("route", 503, "text", {}) }

PipelineInit ==
    /\ at = [q \in Requests |-> "limiter"]
    /\ requestId = [q \in Requests |-> None]
    /\ made = [q \in Requests |-> NoReply]
    /\ reply = [q \in Requests |-> NoReply]
    /\ log = [q \in Requests |-> <<>>]

-----------------------------------------------------------------------------
Move(q, layer) == at' = [at EXCEPT ![q] = layer]

\* getattr(request.state, "request_id", None) or str(uuid.uuid4()).
TakeId(q, layer) ==
    requestId' = [requestId EXCEPT ![q] = IF @ = None THEN Uuid(q, layer) ELSE @]

\* An answer is made, and travels outwards from here.
Answer(q, r) ==
    /\ made' = [made EXCEPT ![q] = r]
    /\ reply' = [reply EXCEPT ![q] = r]

Line(q, event, status) == [event |-> event, id |-> requestId[q], status |-> status]

(***************************************************************************)
(* rate_limit_middleware_dispatch, whose decision is RateLimit's subject:  *)
(* its refusals pass through no other layer.                               *)
(***************************************************************************)
Limiter(q) ==
    /\ at[q] = "limiter"
    /\ \/ Move(q, "logging") /\ UNCHANGED <<made, reply>>
       \/ /\ \E r \in LimiterReplies : Answer(q, r)
          /\ Move(q, "done")
    /\ UNCHANGED <<requestId, log>>

\* logging_middleware_dispatch up to call_next.
LogStarted(q) ==
    /\ at[q] = "logging"
    /\ Move(q, "errors")
    /\ TakeId(q, "logging")
    /\ log' = [log EXCEPT ![q] = <<Line(q, "started", 0)'>>]
    /\ UNCHANGED <<made, reply>>

\* Mutant of EnterErrorHandler: a request id of its own.
DrawOwnId(q) ==
    /\ at[q] = "errors"
    /\ Move(q, "cors")
    /\ requestId' = [requestId EXCEPT ![q] = Uuid(q, "errors")]
    /\ UNCHANGED <<made, reply, log>>

\* error_handling_middleware_dispatch up to call_next: it takes over the id.
EnterErrorHandler(q) ==
    /\ at[q] = "errors"
    /\ Move(q, "cors")
    /\ TakeId(q, "errors")
    /\ UNCHANGED <<made, reply, log>>

\* CORSMiddleware answers a preflight itself.
EnterCors(q) ==
    /\ at[q] = "cors"
    /\ \/ Move(q, "route") /\ UNCHANGED <<made, reply>>
       \/ /\ \E r \in PreflightReplies : Answer(q, r)
          /\ Move(q, "errorsOut")
    /\ UNCHANGED <<requestId, log>>

Route(q) ==
    /\ at[q] = "route"
    /\ \E r \in RouteReplies : Answer(q, r)
    /\ Move(q, "corsOut")
    /\ UNCHANGED <<requestId, log>>

\* The headers for a page of an allowed origin; an exception passes by.
LeaveCors(q) ==
    /\ at[q] = "corsOut"
    /\ Move(q, "errorsOut")
    /\ \/ UNCHANGED reply
       \/ /\ reply[q].kind # "raised"
          /\ reply' = [reply EXCEPT ![q].headers = @ \cup {"Access-Control"}]
    /\ UNCHANGED <<requestId, made, log>>

-----------------------------------------------------------------------------
\* Mutant of KeptHeaders: the names are looked up as written, while those of
\* a Starlette response are in lower case.
KeptAsWritten(headers) == {}

\* _structured_error: the headers that survive.
KeptHeaders(headers) == headers \cap {"WWW-Authenticate", "Retry-After"}

\* _extract_message and the fields of detail: a text or a dict is kept, and
\* anything else becomes the status's phrase.
KeptReason(reason) == IF reason \in {"text", "named"} THEN reason ELSE "phrase"

\* _structured_error.
Structured(q, r) ==
    [Reply("structured", r.status, KeptReason(r.reason),
           KeptHeaders(r.headers) \cup {"X-Request-ID"}) EXCEPT !.id = requestId[q]]

WithId(q, r) ==
    [r EXCEPT !.headers = @ \cup {"X-Request-ID"}, !.id = requestId[q]]

\* Mutant of LeaveErrorHandler: only HTTPException is caught.
RewriteOnlyReplies(q) ==
    /\ at[q] = "errorsOut"
    /\ Move(q, "loggingOut")
    /\ reply' = [reply EXCEPT ![q] =
          IF @.kind = "raised" THEN @
          ELSE IF @.status >= 400 THEN Structured(q, @) ELSE WithId(q, @)]
    /\ UNCHANGED <<requestId, made, log>>

\* error_handling_middleware_dispatch after call_next: an exception becomes
\* a 500, and every error is built anew.
LeaveErrorHandler(q) ==
    /\ at[q] = "errorsOut"
    /\ Move(q, "loggingOut")
    /\ reply' = [reply EXCEPT ![q] =
          IF @.status >= 400 THEN Structured(q, @) ELSE WithId(q, @)]
    /\ UNCHANGED <<requestId, made, log>>

\* Mutant of LogCompleted: response_status keeps its first value.
LogFirstStatus(q) ==
    /\ at[q] = "loggingOut"
    /\ Move(q, "done")
    /\ reply' = [reply EXCEPT ![q] = WithId(q, @)]
    /\ log' = [log EXCEPT ![q] = Append(@, Line(q, "completed", 500))]
    /\ UNCHANGED <<requestId, made>>

(***************************************************************************)
(* logging_middleware_dispatch after call_next.  An exception that came    *)
(* this far would be logged as such, and Starlette would answer it.        *)
(***************************************************************************)
LogCompleted(q) ==
    /\ at[q] = "loggingOut"
    /\ Move(q, "done")
    /\ IF reply[q].kind = "raised"
       THEN /\ log' = [log EXCEPT ![q] = @ \o <<Line(q, "failed", 500), Line(q, "completed", 500)>>]
            /\ reply' = [reply EXCEPT ![q].kind = "route"]
       ELSE /\ log' = [log EXCEPT ![q] = Append(@, Line(q, "completed", reply[q].status))]
            /\ reply' = [reply EXCEPT ![q] = WithId(q, @)]
    /\ UNCHANGED <<requestId, made>>

\* Mutant of Cancel: the completion is not logged in a finally clause.
CancelUnlogged(q) ==
    /\ at[q] \in (Inward \cup Outward) \ {"loggingOut"}
    /\ Move(q, "done")
    /\ reply' = [reply EXCEPT ![q] = NoReply]
    /\ UNCHANGED <<requestId, made, log>>

(***************************************************************************)
(* The event loop ends and cancels the request.  CancelledError is no      *)
(* Exception: the error handler lets it pass, and of the logging           *)
(* middleware only the finally clause runs.                                *)
(***************************************************************************)
Cancel(q) ==
    /\ at[q] \in (Inward \cup Outward) \ {"loggingOut"}
    /\ Move(q, "done")
    /\ reply' = [reply EXCEPT ![q] = NoReply]
    /\ log' = IF log[q] = <<>> THEN log
              ELSE [log EXCEPT ![q] = Append(@, Line(q, "completed", 500))]
    /\ UNCHANGED <<requestId, made>>

PipelineNext ==
    \E q \in Requests :
        \/ Limiter(q) \/ LogStarted(q) \/ EnterErrorHandler(q) \/ EnterCors(q)
        \/ Route(q)
        \/ LeaveCors(q) \/ LeaveErrorHandler(q) \/ LogCompleted(q)
        \/ Cancel(q)

PipelineSpec == PipelineInit /\ [][PipelineNext]_vars
=============================================================================

------------------------ MODULE RequestPipelineProofs ------------------------
(***************************************************************************)
(* Theorems about RequestPipeline, for any number of requests.             *)
(*                                                                         *)
(* The inductive invariant says, place by place, what a request has        *)
(* collected on its way: no id and no line before the logging middleware,  *)
(* one id and one line from there on, a reply of the route's or of CORS's  *)
(* making on the way out, and from the error handler on a reply that is    *)
(* structured, if it is an error, shows that id, and keeps of the answer   *)
(* that was made what ReasonReachesClient asks for.                        *)
(***************************************************************************)
EXTENDS RequestPipelineProperties, TLAPS

Ids == {None} \cup {"logging", "errors"} \X Requests

Replies ==
    [kind: {"none", "raised", "route", "structured"}, status: Nat,
     reason: {"none", "text", "named", "list", "body", "phrase"},
     headers: SUBSET {"WWW-Authenticate", "Retry-After", "Allow", "Access-Control", "X-Request-ID"},
     id: Ids]

Lines == [event: {"started", "failed", "completed"}, id: Ids, status: Nat]

PipelineTypes ==
    /\ at \in [Requests -> Inward \cup Outward \cup {"done"}]
    /\ requestId \in [Requests -> Ids]
    /\ made \in [Requests -> Replies]
    /\ reply \in [Requests -> Replies]
    /\ log \in [Requests -> Seq(Lines)]

\* The request has been logged as started, under its id, and no more.
LoggedOnce(q) ==
    /\ requestId[q] = Uuid(q, "logging")
    /\ Len(log[q]) = 1
    /\ log[q][1].id = requestId[q]

\* What ReasonReachesClient asks of the reply x to an answer m.
ReasonKept(m, x) ==
    /\ x.status = m.status
    /\ m.headers \cap {"WWW-Authenticate", "Retry-After"} \subseteq x.headers
    /\ m.reason \in {"text", "named"} => x.reason = m.reason

\* The reply is the answer m of the route or of CORS, with headers added to it.
FromInside(m, x) ==
    /\ m \in RouteReplies \cup PreflightReplies
    /\ x.kind = m.kind
    /\ x.status = m.status
    /\ x.reason = m.reason
    /\ m.headers \subseteq x.headers
    /\ x.id = None

\* What the error handler lets out.
Presentable(q, x) ==
    /\ x.kind \in {"route", "structured"}
    /\ x.id = requestId[q]
    /\ x.status >= 400 => x.kind = "structured"
    /\ ReasonKept(made[q], x)

\* The request is over without having reached the logging middleware.
EndedUnlogged(q) ==
    /\ log[q] = <<>>
    /\ \/ reply[q] = NoReply
       \/ reply[q] \in LimiterReplies /\ reply[q] = made[q]

\* The request is over and logged as completed with what was answered.
EndedLogged(q) ==
    /\ Len(log[q]) = 2
    /\ log[q][1].id = requestId[q]
    /\ log[q][2].id = requestId[q]
    /\ log[q][2].event = "completed"
    /\ \/ reply[q] = NoReply /\ log[q][2].status = 500
       \/ Presentable(q, reply[q]) /\ log[q][2].status = reply[q].status

PlaceInv(q) ==
    /\ requestId[q] \in {None, Uuid(q, "logging")}
    /\ at[q] \in {"limiter", "logging"} =>
          requestId[q] = None /\ log[q] = <<>> /\ reply[q] = NoReply
    /\ at[q] \in {"errors", "cors", "route"} => LoggedOnce(q) /\ reply[q] = NoReply
    /\ at[q] = "corsOut" => 
          LoggedOnce(q) /\ reply[q] \in RouteReplies /\ reply[q] = made[q]
    /\ at[q] = "errorsOut" => LoggedOnce(q) /\ FromInside(made[q], reply[q])
    /\ at[q] = "loggingOut" => LoggedOnce(q) /\ Presentable(q, reply[q])
    /\ at[q] = "done" => EndedUnlogged(q) \/ EndedLogged(q)

PipelineInv == PipelineTypes /\ \A q \in Requests : PlaceInv(q)

PipelineStep(q) ==
    \/ Limiter(q) \/ LogStarted(q) \/ EnterErrorHandler(q) \/ EnterCors(q)
    \/ Route(q)
    \/ LeaveCors(q) \/ LeaveErrorHandler(q) \/ LogCompleted(q)
    \/ Cancel(q)

-----------------------------------------------------------------------------
(***************************************************************************)
(* Requests do not see each other: request.state is their own.             *)
(***************************************************************************)
LEMMA OtherRequestsStay ==
  ASSUME PipelineInv, NEW q \in Requests, NEW x \in Requests, x # q, PipelineStep(q)
  PROVE  PlaceInv(x)'
<1>1. /\ at'[x] = at[x] /\ requestId'[x] = requestId[x]
      /\ made'[x] = made[x] /\ reply'[x] = reply[x] /\ log'[x] = log[x]
  BY DEF PipelineInv, PipelineTypes, PipelineStep, Limiter, LogStarted, EnterErrorHandler,
     EnterCors, Route, LeaveCors, LeaveErrorHandler, LogCompleted, Cancel, Move, TakeId, Answer
<1> QED BY <1>1 DEF PipelineInv, PlaceInv, LoggedOnce, EndedUnlogged, EndedLogged, Presentable

\* The replies the routes, CORS and the limiter make.
LEMMA AnswerTypes ==
  /\ \A r \in RouteReplies \cup PreflightReplies \cup LimiterReplies :
        /\ r \in Replies /\ r.id = None
        /\ r.status < 400 => r.kind # "raised"
        /\ r.kind # "none"
  /\ NoReply \in Replies /\ NoReply.status = 0 /\ NoReply.id = None
  /\ NoReply.kind = "none"
  /\ \A r \in LimiterReplies : r.kind = "route"
BY DEF RouteReplies, PreflightReplies, LimiterReplies, NoReply, Raised, Reply, Replies, Ids

(***************************************************************************)
(* Appending puts the element last; the second line follows the first.     *)
(***************************************************************************)
LEMMA AppendPutsLast ==
  ASSUME NEW S, NEW s \in Seq(S), NEW e \in S
  PROVE  Append(s, e)[Len(s) + 1] = e
OBVIOUS

\* The log after its second line.
LEMMA SecondLine ==
  ASSUME NEW S, NEW s \in Seq(S), Len(s) = 1, NEW line \in S
  PROVE  /\ Append(s, line) \in Seq(S) /\ Len(Append(s, line)) = 2
         /\ Append(s, line)[1] = s[1] /\ Append(s, line)[2] = line
<1>1. Append(s, line) \in Seq(S) /\ Len(Append(s, line)) = 2
  OBVIOUS
<1>2. Append(s, line)[1] = s[1]
  OBVIOUS
<1>3. Append(s, line)[2] = line
  <2>1. Len(s) + 1 = 2
    OBVIOUS
  <2>2. Append(s, line)[Len(s) + 1] = line
    BY AppendPutsLast, Zenon
  <2> QED BY <2>1, <2>2, Zenon
<1> QED BY <1>1, <1>2, <1>3

\* The ids the layers generate.
LEMMA UuidTypes ==
  \A q \in Requests :
      /\ Uuid(q, "logging") \in Ids /\ Uuid(q, "errors") \in Ids
      /\ Uuid(q, "logging") # None
BY NoneAssumption DEF Uuid, Ids

(***************************************************************************)
(* The two rewritings of a reply.                                          *)
(***************************************************************************)
LEMMA StructuredKeepsReason ==
  ASSUME PipelineTypes, NEW q \in Requests, NEW x \in Replies,
         FromInside(made[q], x), x.status >= 400
  PROVE  /\ Structured(q, x) \in Replies
         /\ Structured(q, x).status = x.status
         /\ Presentable(q, Structured(q, x))
<1>1. /\ x.status = made[q].status /\ x.reason = made[q].reason
      /\ made[q].headers \subseteq x.headers
  BY DEF FromInside
<1>3. requestId[q] \in Ids
  BY DEF PipelineTypes
<1>4. /\ Structured(q, x).status = x.status
      /\ Structured(q, x).kind = "structured"
      /\ Structured(q, x).id = requestId[q]
      /\ Structured(q, x).reason = KeptReason(x.reason)
      /\ Structured(q, x).headers = KeptHeaders(x.headers) \cup {"X-Request-ID"}
  BY DEF Structured, Reply
<1>5. Structured(q, x) \in Replies
  BY <1>3 DEF Structured, Reply, Replies, KeptReason, KeptHeaders
<1>6. ReasonKept(made[q], Structured(q, x))
  BY <1>1, <1>4 DEF ReasonKept, KeptReason, KeptHeaders
<1> QED BY <1>4, <1>5, <1>6 DEF Presentable

\* Adding the id to a reply changes nothing else in it.
LEMMA WithIdKeepsRest ==
  ASSUME PipelineTypes, NEW q \in Requests, NEW x \in Replies
  PROVE  /\ WithId(q, x) \in Replies
         /\ WithId(q, x).kind = x.kind
         /\ WithId(q, x).status = x.status
         /\ WithId(q, x).reason = x.reason
         /\ WithId(q, x).headers = x.headers \cup {"X-Request-ID"}
         /\ WithId(q, x).id = requestId[q]
<1>1. requestId[q] \in Ids
  BY DEF PipelineTypes
<1> QED BY <1>1 DEF WithId, Replies

\* A reply stays presentable when the logging middleware adds the id.
LEMMA WithIdPresents ==
  ASSUME PipelineTypes, NEW q \in Requests, NEW x \in Replies, Presentable(q, x)
  PROVE  WithId(q, x) \in Replies /\ Presentable(q, WithId(q, x))
<1> DEFINE y == WithId(q, x)
<1>1. /\ y \in Replies /\ y.kind = x.kind /\ y.status = x.status /\ y.reason = x.reason
      /\ x.headers \subseteq y.headers /\ y.id = requestId[q]
  BY WithIdKeepsRest
<1> HIDE DEF y
<1>2. ReasonKept(made[q], x) => ReasonKept(made[q], y)
  BY <1>1 DEF ReasonKept
<1>3. Presentable(q, y)
  BY <1>1, <1>2 DEF Presentable
<1> QED BY <1>1, <1>3 DEF y

-----------------------------------------------------------------------------
\* At the start every request is outside and nothing is logged.
LEMMA PipelineInvInit == PipelineInit => PipelineInv
<1> SUFFICES ASSUME PipelineInit  PROVE PipelineInv
  OBVIOUS
<1>1. PipelineTypes
  BY AnswerTypes DEF PipelineInit, PipelineTypes, Inward, Ids
<1>2. \A q \in Requests : PlaceInv(q)
  BY DEF PipelineInit, PlaceInv
<1> QED BY <1>1, <1>2 DEF PipelineInv

(***************************************************************************)
(* Every layer takes a request from one place of PlaceInv to the next.     *)
(***************************************************************************)
LEMMA PlaceInvStep ==
  ASSUME PipelineInv, NEW q \in Requests, PipelineStep(q)
  PROVE  PipelineTypes' /\ PlaceInv(q)'
<1> DEFINE Goal == PipelineTypes' /\ PlaceInv(q)'
<1> USE DEF PipelineInv, PipelineTypes, PlaceInv, LoggedOnce, Inward, Outward, Move
<1>1. CASE Limiter(q)
  <2>1. CASE at' = [at EXCEPT ![q] = "logging"] /\ UNCHANGED <<made, reply>>
    BY <1>1, <2>1 DEF Limiter
  <2>2. ASSUME NEW r \in LimiterReplies, Answer(q, r),
               at' = [at EXCEPT ![q] = "done"]
        PROVE  Goal
    <3>1. r \in Replies /\ UNCHANGED <<requestId, log>> /\ log[q] = <<>>
      BY <1>1, AnswerTypes DEF Limiter
    <3> USE DEF Answer
    <3>2. EndedUnlogged(q)'
      BY <2>2, <3>1 DEF EndedUnlogged
    <3> QED BY <2>2, <3>1, <3>2
  <2> QED BY <1>1, <2>1, <2>2 DEF Limiter
<1>2. CASE LogStarted(q)
  <2>1. /\ at[q] = "logging" /\ requestId[q] = None /\ reply[q] = NoReply
        /\ at' = [at EXCEPT ![q] = "errors"] /\ UNCHANGED <<made, reply>>
    BY <1>2 DEF LogStarted
  <2>2. requestId' = [requestId EXCEPT ![q] = Uuid(q, "logging")]
    BY <1>2, <2>1 DEF LogStarted, TakeId
  <2>3. requestId' \in [Requests -> Ids] /\ requestId'[q] = Uuid(q, "logging")
    BY <2>2, UuidTypes
  <2> DEFINE line == [event |-> "started", id |-> requestId'[q], status |-> 0]
  <2>4. line \in Lines /\ line.id = requestId'[q]
    BY <2>3 DEF Lines
  <2>5. log' = [log EXCEPT ![q] = <<line>>]
    BY <1>2 DEF LogStarted, Line
  <2> HIDE DEF line
  <2>6. log' \in [Requests -> Seq(Lines)] /\ Len(log'[q]) = 1 /\ log'[q][1] = line
    BY <2>4, <2>5
  <2> QED BY <2>1, <2>3, <2>4, <2>6
<1>3. CASE EnterErrorHandler(q)
  BY <1>3, UuidTypes DEF EnterErrorHandler, TakeId
<1>4. CASE EnterCors(q)
  <2>1. CASE at' = [at EXCEPT ![q] = "route"] /\ UNCHANGED <<made, reply>>
    BY <1>4, <2>1 DEF EnterCors
  <2>2. ASSUME NEW r \in PreflightReplies, Answer(q, r),
               at' = [at EXCEPT ![q] = "errorsOut"]
        PROVE  Goal
    <3>1. r \in Replies /\ r.id = None
      BY AnswerTypes
    <3> USE DEF Answer
    <3>2. FromInside(made[q], reply[q])'
      BY <2>2, <3>1 DEF FromInside
    <3> QED BY <1>4, <2>2, <3>1, <3>2 DEF EnterCors
  <2> QED BY <1>4, <2>1, <2>2 DEF EnterCors
<1>5. CASE Route(q)
  BY <1>5, AnswerTypes DEF Route, Answer
<1>6. CASE LeaveCors(q)
  <2>1. /\ at[q] = "corsOut" /\ reply[q] \in RouteReplies /\ reply[q] \in Replies
        /\ reply[q].id = None
        /\ reply[q] = made[q]
        /\ UNCHANGED <<requestId, made, log>> /\ at' = [at EXCEPT ![q] = "errorsOut"]
    BY <1>6, AnswerTypes DEF LeaveCors
  <2>2. CASE UNCHANGED reply
    <3>1. FromInside(made[q], reply[q])'
      BY <2>1, <2>2 DEF FromInside
    <3> QED BY <2>1, <2>2, <3>1
  <2>3. CASE reply' = [reply EXCEPT ![q].headers = @ \cup {"Access-Control"}]
    <3> DEFINE x == [reply[q] EXCEPT !.headers = @ \cup {"Access-Control"}]
    <3>1. /\ x \in Replies /\ x.kind = reply[q].kind /\ x.status = reply[q].status
          /\ x.reason = reply[q].reason /\ x.id = reply[q].id
          /\ reply[q].headers \subseteq x.headers
      BY <2>1 DEF Replies
    <3>2. reply' = [reply EXCEPT ![q] = x]
      BY <2>3
    <3> HIDE DEF x
    <3>3. FromInside(made[q], reply[q])'
      BY <2>1, <3>1, <3>2 DEF FromInside
    <3> QED BY <2>1, <3>1, <3>2, <3>3
  <2> QED BY <1>6, <2>2, <2>3 DEF LeaveCors
<1>7. CASE LeaveErrorHandler(q)
  <2>1. /\ at[q] = "errorsOut" /\ reply[q] \in Replies /\ FromInside(made[q], reply[q])
        /\ UNCHANGED <<requestId, made, log>> /\ at' = [at EXCEPT ![q] = "loggingOut"]
    BY <1>7 DEF LeaveErrorHandler
  <2>2. CASE reply[q].status >= 400
    <3>1. reply' = [reply EXCEPT ![q] = Structured(q, reply[q])]
      BY <1>7, <2>2 DEF LeaveErrorHandler
    <3>2. reply'[q] \in Replies /\ Presentable(q, reply'[q])
      BY <2>1, <2>2, <3>1, StructuredKeepsReason
    <3> QED BY <2>1, <3>1, <3>2 DEF Presentable
  <2>3. CASE ~(reply[q].status >= 400)
    <3>1. reply' = [reply EXCEPT ![q] = WithId(q, reply[q])]
      BY <1>7, <2>3 DEF LeaveErrorHandler
    <3>2. reply[q].kind \in {"route", "structured"}
      BY <2>1, <2>3, AnswerTypes DEF FromInside, RouteReplies, PreflightReplies, Raised, Reply
    <3>3. /\ reply'[q] \in Replies /\ reply'[q].kind = reply[q].kind
          /\ reply'[q].status = reply[q].status /\ reply'[q].reason = reply[q].reason
          /\ reply[q].headers \subseteq reply'[q].headers /\ reply'[q].id = requestId[q]
      BY <2>1, <3>1, WithIdKeepsRest
    <3>4. ReasonKept(made[q], reply'[q])
      BY <2>1, <3>3 DEF FromInside, ReasonKept
    <3>5. Presentable(q, reply'[q])
      BY <2>3, <3>2, <3>3, <3>4 DEF Presentable
    <3> QED BY <2>1, <3>1, <3>3, <3>5 DEF Presentable
  <2> QED BY <2>2, <2>3
<1>8. CASE LogCompleted(q)
  <2>1. /\ at[q] = "loggingOut" /\ Presentable(q, reply[q]) /\ reply[q] \in Replies
        /\ reply[q].kind # "raised"
    BY <1>8 DEF LogCompleted, Presentable
  <2>2. /\ log' = [log EXCEPT ![q] = Append(@, Line(q, "completed", reply[q].status))]
        /\ reply' = [reply EXCEPT ![q] = WithId(q, @)]
        /\ UNCHANGED <<requestId, made>> /\ at' = [at EXCEPT ![q] = "done"]
    BY <1>8, <2>1 DEF LogCompleted
  <2>3. Line(q, "completed", reply[q].status) \in Lines
    BY <2>1 DEF Line, Lines, Replies
  <2>4. reply'[q] \in Replies /\ Presentable(q, reply'[q])
    <3>1. reply'[q] = WithId(q, reply[q])
      BY <2>2
    <3>2. WithId(q, reply[q]) \in Replies /\ Presentable(q, WithId(q, reply[q]))
      BY <2>1, WithIdPresents
    <3> QED BY <3>1, <3>2
  <2>5. reply'[q].status = reply[q].status
    BY <2>1, <2>2, WithIdKeepsRest
  <2>6. /\ Len(log'[q]) = 2 /\ log'[q][1] = log[q][1]
        /\ log'[q][2] = Line(q, "completed", reply[q].status)
    BY <2>1, <2>2, <2>3, SecondLine
  <2>7. EndedLogged(q)'
    BY <2>1, <2>2, <2>4, <2>5, <2>6 DEF EndedLogged, Line, Presentable
  <2> QED BY <2>2, <2>3, <2>4, <2>7
<1>9. CASE Cancel(q)
  <2>1. CASE log[q] = <<>>
    BY <1>9, <2>1, AnswerTypes DEF Cancel, EndedUnlogged
  <2>2. CASE log[q] # <<>>
    <3>1. LoggedOnce(q)
      BY <1>9, <2>2 DEF Cancel
    <3>2. Line(q, "completed", 500) \in Lines
      BY DEF Line, Lines
    <3>3. /\ log' = [log EXCEPT ![q] = Append(@, Line(q, "completed", 500))]
          /\ reply' = [reply EXCEPT ![q] = NoReply]
          /\ UNCHANGED <<requestId, made>> /\ at' = [at EXCEPT ![q] = "done"]
      BY <1>9, <2>2 DEF Cancel
    <3>4. /\ Len(log'[q]) = 2 /\ log'[q][1] = log[q][1]
          /\ log'[q][2] = Line(q, "completed", 500)
      BY <3>1, <3>2, <3>3, SecondLine
    <3>5. EndedLogged(q)'
      BY <3>1, <3>3, <3>4 DEF EndedLogged, Line
    <3> QED BY <3>2, <3>3, <3>5, AnswerTypes
  <2> QED BY <2>1, <2>2
<1> QED BY <1>1, <1>2, <1>3, <1>4, <1>5, <1>6, <1>7, <1>8, <1>9 DEF PipelineStep

\* Every step preserves the invariant.
LEMMA PipelineInvStep == PipelineInv /\ [PipelineNext]_vars => PipelineInv'
<1>1. ASSUME PipelineInv, NEW q \in Requests, PipelineStep(q)  PROVE PipelineInv'
  BY <1>1, PlaceInvStep, OtherRequestsStay DEF PipelineInv
<1>2. ASSUME PipelineInv, UNCHANGED vars  PROVE PipelineInv'
  BY <1>2 DEF PipelineInv, PipelineTypes, PlaceInv, LoggedOnce, EndedUnlogged, EndedLogged,
     Presentable, vars
<1> QED BY <1>1, <1>2 DEF PipelineNext, PipelineStep

-----------------------------------------------------------------------------
(***************************************************************************)
(* How a request that is over ended.                                       *)
(***************************************************************************)
LEMMA HowItEnded ==
  ASSUME PipelineInv, NEW q \in Requests, at[q] = "done"
  PROVE  /\ reply[q] \in Replies
         /\ \/ EndedUnlogged(q)
            \/ log[q] # <<>> /\ EndedLogged(q)
<1>1. Len(<<>>) = 0
  OBVIOUS
<1> QED BY <1>1 DEF PipelineInv, PipelineTypes, PlaceInv, EndedUnlogged, EndedLogged

(***************************************************************************)
(* The variables keep their types, and no exception comes as far as the    *)
(* logging middleware (error_middleware.py catches each).                  *)
(***************************************************************************)
THEOREM PipelineTypesHold == PipelineSpec => []PipelineTypeOK
<1>1. ASSUME PipelineInv  PROVE PipelineTypeOK
  <2>1. at \in [Requests -> Inward \cup Outward \cup {"done"}]
    BY <1>1 DEF PipelineInv, PipelineTypes
  <2>2. ASSUME NEW q \in Requests
        PROVE  /\ requestId[q] \in {None, Uuid(q, "logging"), Uuid(q, "errors")}
               /\ reply[q].kind \in {"none", "raised", "route", "structured"}
               /\ reply[q].kind = "raised" => at[q] \in {"corsOut", "errorsOut"}
               /\ reply[q].id \in {None, requestId[q]}
               /\ Len(log[q]) <= 2
    <3>1. PlaceInv(q) /\ reply[q] \in Replies
      BY <1>1 DEF PipelineInv, PipelineTypes
    <3>2. /\ requestId[q] \in {None, Uuid(q, "logging")}
          /\ reply[q].kind \in {"none", "raised", "route", "structured"}
      BY <3>1 DEF PlaceInv, Replies
    <3>3. Len(<<>>) = 0
      OBVIOUS
    <3> DEFINE Fits == /\ reply[q].kind = "raised" => at[q] \in {"corsOut", "errorsOut"}
                       /\ reply[q].id \in {None, requestId[q]}
                       /\ Len(log[q]) <= 2
    <3> SUFFICES Fits
      BY <3>2
    <3>4. CASE at[q] \in {"limiter", "logging"}
      <4>1. log[q] = <<>> /\ reply[q] = NoReply
        BY <3>1, <3>4 DEF PlaceInv
      <4> QED BY <3>3, <4>1, AnswerTypes
    <3>5. CASE at[q] \in {"errors", "cors", "route"}
      <4>1. Len(log[q]) = 1 /\ reply[q] = NoReply
        BY <3>1, <3>5 DEF PlaceInv, LoggedOnce
      <4> QED BY <4>1, AnswerTypes
    <3>6. CASE at[q] = "corsOut"
      <4>1. Len(log[q]) = 1 /\ reply[q] \in RouteReplies
        BY <3>1, <3>6 DEF PlaceInv, LoggedOnce
      <4> QED BY <3>6, <4>1, AnswerTypes
    <3>7. CASE at[q] = "errorsOut"
      <4>1. Len(log[q]) = 1 /\ reply[q].id = None
        BY <3>1, <3>7 DEF PlaceInv, LoggedOnce, FromInside
      <4> QED BY <3>7, <4>1
    <3>8. CASE at[q] = "loggingOut"
      <4>1. Len(log[q]) = 1 /\ Presentable(q, reply[q])
        BY <3>1, <3>8 DEF PlaceInv, LoggedOnce
      <4> QED BY <4>1 DEF Presentable
    <3>9. CASE at[q] = "done"
      <4>1. CASE EndedUnlogged(q)
        BY <3>3, <4>1, AnswerTypes DEF EndedUnlogged
      <4>2. CASE EndedLogged(q)
        BY <4>2, AnswerTypes DEF EndedLogged, Presentable
      <4> QED BY <1>1, <3>9, <4>1, <4>2, HowItEnded
    <3> QED BY <2>1, <3>4, <3>5, <3>6, <3>7, <3>8, <3>9 DEF Inward, Outward
  <2> QED BY <2>1, <2>2 DEF PipelineTypeOK
<1> QED BY <1>1, PipelineInvInit, PipelineInvStep, PTL DEF PipelineSpec

(***************************************************************************)
(* An error of a logged request is structured and shows the id it is       *)
(* logged under, whatever it comes from (error_handler.py).                *)
(***************************************************************************)
THEOREM ErrorsStructured == PipelineSpec => []LoggedErrorsAreStructured
<1>1. ASSUME PipelineInv  PROVE LoggedErrorsAreStructured
  <2>1. ASSUME NEW q \in Requests, at[q] = "done", reply[q].status >= 400, log[q] # <<>>
        PROVE  reply[q].kind = "structured" /\ reply[q].id = log[q][1].id
    <3>1. EndedLogged(q)
      BY <1>1, <2>1, HowItEnded DEF EndedUnlogged
    <3> QED BY <2>1, <3>1, AnswerTypes DEF EndedLogged, Presentable
  <2> QED BY <2>1 DEF LoggedErrorsAreStructured
<1> QED BY <1>1, PipelineInvInit, PipelineInvStep, PTL DEF PipelineSpec

(***************************************************************************)
(* The log tells, once, what the client was told (the finally clause of    *)
(* logging_middleware.py).                                                 *)
(***************************************************************************)
THEOREM LogTellsAnswer == PipelineSpec => []LoggedAsAnswered
<1>1. ASSUME PipelineInv  PROVE LoggedAsAnswered
  <2>1. ASSUME NEW q \in Requests, at[q] = "done", log[q] # <<>>
        PROVE  /\ Len(log[q]) = 2
               /\ log[q][2].event = "completed"
               /\ log[q][2].id = log[q][1].id
               /\ log[q][2].status = IF reply[q] = NoReply THEN 500 ELSE reply[q].status
               /\ reply[q] # NoReply => reply[q].id = log[q][1].id
    <3>1. EndedLogged(q)
      BY <1>1, <2>1, HowItEnded DEF EndedUnlogged
    <3> QED BY <3>1, AnswerTypes DEF EndedLogged, Presentable
  <2> QED BY <2>1 DEF LoggedAsAnswered
<1> QED BY <1>1, PipelineInvInit, PipelineInvStep, PTL DEF PipelineSpec

(***************************************************************************)
(* The status, the challenge, the Retry-After and the detail of the answer *)
(* that was made reach the client (_structured_error).                     *)
(***************************************************************************)
THEOREM ReasonsReachClient == PipelineSpec => []ReasonReachesClient
<1>1. ASSUME PipelineInv  PROVE ReasonReachesClient
  <2>1. ASSUME NEW q \in Requests, at[q] = "done", reply[q] # NoReply
        PROVE  ReasonKept(made[q], reply[q])
    <3>1. CASE EndedUnlogged(q)
      BY <2>1, <3>1 DEF EndedUnlogged, ReasonKept
    <3>2. CASE EndedLogged(q)
      BY <2>1, <3>2 DEF EndedLogged, Presentable
    <3> QED BY <1>1, <2>1, <3>1, <3>2, HowItEnded
  <2> QED BY <2>1 DEF ReasonReachesClient, ReasonKept
<1> QED BY <1>1, PipelineInvInit, PipelineInvStep, PTL DEF PipelineSpec
=============================================================================

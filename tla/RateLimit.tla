----------------------------- MODULE RateLimit -----------------------------
(***************************************************************************)
(* The rate limiter: a counter per organisation and fixed window in Redis, *)
(* shared by the server processes, and, for a process that cannot reach    *)
(* Redis and is configured to fail open, a log of admissions in its own    *)
(* memory, pruned to the last window.                                      *)
(*                                                                         *)
(* Time advances in ticks, Second of them to a second: time.time() has a   *)
(* fraction, window starts and Retry-After are whole seconds.  A request   *)
(* reads the clock once before it calls Redis, and again before it         *)
(* consults the memory log; time may pass between the two, before the      *)
(* counter is incremented, and before its key is given its expiry.         *)
(***************************************************************************)
EXTENDS Integers, Sequences, FiniteSets

CONSTANTS
    Orgs,         \* organisations
    None,         \* the organisation of a request without a valid token
    Procs,        \* server processes
    Requests,     \* requests to the limited prefixes
    OrgOf,        \* the organisation in each request's token, or None
    ProcOf,       \* the process that serves each request
    FailOpen,     \* rate_limit_fail_open of each process
    MaxRequests,  \* RATE_LIMIT_MAX_REQUESTS
    Second,       \* ticks of the clock in a second
    Window,       \* RATE_LIMIT_WINDOW_SECONDS
    MaxTime       \* bound of the clock in the model

ASSUME LimiterAssumption ==
    /\ IsFiniteSet(Requests)
    /\ OrgOf \in [Requests -> Orgs \cup {None}] /\ None \notin Orgs
    /\ ProcOf \in [Requests -> Procs]
    /\ FailOpen \in [Procs -> BOOLEAN]
    /\ MaxRequests \in Nat \ {0} /\ MaxTime \in Nat
    /\ Second \in Nat \ {0} /\ Window \in Nat \ {0}

VARIABLES
    now,       \* the clock
    pc,        \* where each request is
    ts,        \* the time each request last read
    via,       \* who decided on each request
    retry,     \* Retry-After of each limited request, in seconds
    counter,   \* ratelimit:{organisation}:{window start} in Redis, 0 if absent
    expireAt,  \* when Redis removes that key, or NoExpiry
    late,      \* history variable: who was counted after the window it names
    history    \* _REQUEST_LOG of each process

vars == <<now, pc, ts, via, retry, counter, expireAt, late, history>>

\* What TTL says of a key without an expiry.
NoExpiry == -1

\* The window in ticks.
Span == Window * Second

\* The second in which the window of time t starts, and the tick it is over.
WindowStart(t) == (t \div Span) * Window
WindowEnd(w) == (w + Window) * Second

AtLeastOne(n) == IF n < 1 THEN 1 ELSE n

LimiterInit ==
    /\ now = 0
    /\ pc = [r \in Requests |-> "new"]
    /\ ts = [r \in Requests |-> 0]
    /\ via = [r \in Requests |-> "nobody"]
    /\ retry = [r \in Requests |-> 0]
    /\ counter = [o \in Orgs |-> [w \in 0 .. MaxTime |-> 0]]
    /\ expireAt = [o \in Orgs |-> [w \in 0 .. MaxTime |-> NoExpiry]]
    /\ late = [r \in Requests |-> FALSE]
    /\ history = [p \in Procs |-> [o \in Orgs |-> <<>>]]

\* Time passes, and with it the keys that were to live until then.
Tick ==
    /\ now < MaxTime
    /\ now' = now + 1
    /\ counter' = [o \in Orgs |-> [w \in 0 .. MaxTime |->
                      IF expireAt[o][w] = now + 1 THEN 0 ELSE counter[o][w]]]
    /\ expireAt' = [o \in Orgs |-> [w \in 0 .. MaxTime |->
                       IF expireAt[o][w] = now + 1 THEN NoExpiry ELSE expireAt[o][w]]]
    /\ UNCHANGED <<pc, ts, via, retry, late, history>>

-----------------------------------------------------------------------------
\* A request without an organisation is passed on and counted nowhere.
Arrive(r) ==
    /\ pc[r] = "new"
    /\ IF OrgOf[r] = None
          THEN /\ pc' = [pc EXCEPT ![r] = "admitted"]
               /\ UNCHANGED ts
          ELSE /\ pc' = [pc EXCEPT ![r] = "redis"]
               /\ ts' = [ts EXCEPT ![r] = now]
    /\ UNCHANGED <<now, via, retry, counter, expireAt, late, history>>

Admit(r, who) ==
    /\ pc' = [pc EXCEPT ![r] = "admitted"]
    /\ via' = [via EXCEPT ![r] = who]
    /\ UNCHANGED retry

Limit(r, who, after) ==
    /\ pc' = [pc EXCEPT ![r] = "limited"]
    /\ via' = [via EXCEPT ![r] = who]
    /\ retry' = [retry EXCEPT ![r] = after]

\* The seconds of the window that have passed at the time r read, whole ones.
Elapsed(r) == (ts[r] \div Second) - WindowStart(ts[r])

\* Mutant of RetryAtNextWindow: the elapsed part of the window is added.
RetrySignError(r) == AtLeastOne(Window + Elapsed(r))

RetryAtNextWindow(r) == AtLeastOne(Window - Elapsed(r))

\* What INCR returns.
Attempts(r) == counter[OrgOf[r]][WindowStart(ts[r])] + 1

\* Mutant of CountAttempt: the key does not name the organisation.
CountForEveryOrg(r) ==
    counter' = [o \in Orgs |-> [counter[o] EXCEPT ![WindowStart(ts[r])] = @ + 1]]

CountAttempt(r) ==
    counter' = [counter EXCEPT ![OrgOf[r]][WindowStart(ts[r])] = @ + 1]

(***************************************************************************)
(* INCR, and the decision; the one that creates the key is followed by     *)
(* EXPIRE before it.                                                       *)
(***************************************************************************)
Increment(r) ==
    /\ pc[r] = "redis"
    /\ CountAttempt(r)
    /\ \/ /\ Attempts(r) = 1
          /\ pc' = [pc EXCEPT ![r] = "expire"]
          /\ UNCHANGED <<via, retry>>
       \/ /\ Attempts(r) # 1
          /\ IF Attempts(r) > MaxRequests
                THEN Limit(r, "redis", RetryAtNextWindow(r))
                ELSE Admit(r, "redis")
    /\ late' = [late EXCEPT ![r] = now >= WindowEnd(WindowStart(ts[r]))]
    /\ UNCHANGED <<now, ts, expireAt, history>>

\* Mutant of KeepForWindow: the key lives a second less than its window.
KeepForLess(r) ==
    expireAt' = [expireAt EXCEPT ![OrgOf[r]][WindowStart(ts[r])] = now + Span - Second]

\* The key lives as long as a window, from now on.
KeepForWindow(r) ==
    expireAt' = [expireAt EXCEPT ![OrgOf[r]][WindowStart(ts[r])] = now + Span]

\* count = 1, and max_requests is at least one.
SetExpiry(r) ==
    /\ pc[r] = "expire"
    /\ KeepForWindow(r)
    /\ Admit(r, "redis")
    /\ UNCHANGED <<now, ts, counter, late, history>>

(***************************************************************************)
(* Redis raises or times out, with or without having executed the command: *)
(* use the memory, or answer 503.  A key whose EXPIRE is lost stays.       *)
(***************************************************************************)
RedisFails(r) ==
    /\ \/ pc[r] \in {"redis", "expire"} /\ UNCHANGED <<counter, expireAt>>
       \/ pc[r] = "redis" /\ CountAttempt(r) /\ UNCHANGED expireAt
       \/ pc[r] = "expire" /\ KeepForWindow(r) /\ UNCHANGED counter
    /\ pc' = [pc EXCEPT ![r] = IF FailOpen[ProcOf[r]] THEN "memory" ELSE "unavailable"]
    /\ UNCHANGED <<now, ts, via, retry, late, history>>

(***************************************************************************)
(* popleft drops the oldest admissions, up to the first one that is later  *)
(* than the threshold.                                                     *)
(***************************************************************************)
Unpopped(h, threshold) ==
    LET popped == {i \in 1 .. Len(h) : \A j \in 1 .. i : h[j] <= threshold}
    IN  SubSeq(h, Cardinality(popped) + 1, Len(h))

\* Mutant of Recent: admissions are pruned one tick early.
RecentPrunedEarly(p, o, t) == Unpopped(history[p][o], t - Span + 1)

\* The log without the admissions that left the rolling window at time t.
Recent(p, o, t) == Unpopped(history[p][o], t - Span)

\* Mutant of CeilSeconds: int() in place of math.ceil.
FloorSeconds(d) == d \div Second

\* d ticks in seconds, rounded up.
CeilSeconds(d) == (d + Second - 1) \div Second

CheckMemory(r) ==
    LET p == ProcOf[r]
        o == OrgOf[r]
        h == Recent(p, o, now)
    IN  /\ pc[r] = "memory"
        /\ ts' = [ts EXCEPT ![r] = now]
        /\ IF Len(h) >= MaxRequests
              THEN /\ Limit(r, "memory", AtLeastOne(CeilSeconds(Span - (now - h[1]))))
                   /\ history' = [history EXCEPT ![p][o] = h]
              ELSE /\ Admit(r, "memory")
                   /\ history' = [history EXCEPT ![p][o] = Append(h, now)]
        /\ UNCHANGED <<now, counter, expireAt, late>>

LimiterNext ==
    \/ Tick
    \/ \E r \in Requests :
          Arrive(r) \/ Increment(r) \/ SetExpiry(r) \/ RedisFails(r) \/ CheckMemory(r)

LimiterSpec == LimiterInit /\ [][LimiterNext]_vars
=============================================================================

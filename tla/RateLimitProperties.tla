------------------------ MODULE RateLimitProperties ------------------------
(***************************************************************************)
(* What must hold of RateLimit.                                            *)
(***************************************************************************)
EXTENDS RateLimit

\* Types of the variables.
LimiterTypeOK ==
    /\ now \in 0 .. MaxTime
    /\ pc \in [Requests -> {"new", "redis", "expire", "memory", "admitted", "limited",
                            "unavailable"}]
    /\ ts \in [Requests -> 0 .. MaxTime]
    /\ via \in [Requests -> {"nobody", "redis", "memory"}]
    /\ retry \in [Requests -> 0 .. Window]
    /\ counter \in [Orgs -> [0 .. MaxTime -> Nat]]
    /\ expireAt \in [Orgs -> [0 .. MaxTime -> {NoExpiry} \cup (1 .. MaxTime + Span)]]
    /\ late \in [Requests -> BOOLEAN]
    /\ \A p \in Procs, o \in Orgs : Len(history[p][o]) <= MaxRequests

\* The requests of o that were admitted by Redis, or by the memory of p.
ByRedis(o) == {r \in Requests : pc[r] = "admitted" /\ via[r] = "redis" /\ OrgOf[r] = o}
ByMemory(p, o) ==
    {r \in Requests : /\ pc[r] = "admitted" /\ via[r] = "memory"
                      /\ OrgOf[r] = o /\ ProcOf[r] = p}

(***************************************************************************)
(* Of the requests that Redis counts before the window they name is over,  *)
(* it admits no more than MaxRequests of an organisation, over all         *)
(* processes, whatever else happens between the reading of the clock,      *)
(* INCR and EXPIRE (rate_limit.py:92-103): the key outlives its window.    *)
(* A request whose INCR comes later may find the key expired, start again  *)
(* at one and be admitted over the budget; these are not covered.          *)
(***************************************************************************)
RedisBudget ==
    \A o \in Orgs, w \in 0 .. MaxTime :
        Cardinality({r \in ByRedis(o) : WindowStart(ts[r]) = w /\ ~late[r]}) <= MaxRequests

(***************************************************************************)
(* A process that falls back on its memory admits no more than MaxRequests *)
(* of an organisation in any interval as long as the window                *)
(* (rate_limit.py:71-82).                                                  *)
(***************************************************************************)
MemoryBudgetIsRolling ==
    \A p \in Procs, o \in Orgs, t \in 0 .. MaxTime :
        Cardinality({r \in ByMemory(p, o) : t - Span < ts[r] /\ ts[r] <= t}) <= MaxRequests

(***************************************************************************)
(* A tenant is limited for its own traffic only: Redis has counted more    *)
(* than MaxRequests requests of the organisation itself.                   *)
(***************************************************************************)
LimitedForOwnTraffic ==
    \A r \in Requests : pc[r] = "limited" =>
        Cardinality({x \in Requests : OrgOf[x] = OrgOf[r] /\ pc[x] # "new"}) > MaxRequests

(***************************************************************************)
(* A client that waits for Retry-After, a whole number of seconds, meets a *)
(* fresh window in Redis, or a memory log with room, unless others were    *)
(* faster: neither the truncation of the time (rate_limit.py:101) nor the  *)
(* rounding of the rest of the window (line 78) makes the wait too short.  *)
(***************************************************************************)
RetryAfterSuffices ==
    \A r \in Requests : pc[r] = "limited" =>
        LET later == ts[r] + retry[r] * Second
        IN  IF via[r] = "redis"
               THEN WindowStart(later) # WindowStart(ts[r])
               ELSE Cardinality({x \in ByMemory(ProcOf[r], OrgOf[r]) :
                                    ts[x] <= ts[r] /\ later - Span < ts[x]}) < MaxRequests

-----------------------------------------------------------------------------
(***************************************************************************)
(* "per-organisation rolling-window rate limits" (rate_limit.py:121): no   *)
(* interval as long as the window sees more than MaxRequests admissions.   *)
(***************************************************************************)
RollingWindow ==
    \A o \in Orgs, t \in 0 .. MaxTime :
        Cardinality({r \in ByRedis(o) : t - Span < ts[r] /\ ts[r] <= t}) <= MaxRequests
=============================================================================

\* Three requests of one organisation on a process that fails open, one of
\* another on a process that fails closed and one without a token; a window of
\* two seconds of two ticks and the first tick of the next, two admissions each.
CONSTANTS
    r1 = r1
    r2 = r2
    r3 = r3
    r5 = r5
    r6 = r6
    o1 = o1
    o2 = o2
    p1 = p1
    p2 = p2
    None = None
    Orgs = {o1, o2}
    Procs = {p1, p2}
    Requests = {r1, r2, r3, r5, r6}
    OrgOf <- MCOrgOf
    ProcOf <- MCProcOf
    FailOpen <- MCFailOpen
    MaxRequests = 2
    Second = 2
    Window = 2
    MaxTime = 4
SYMMETRY SameRequests
CONSTRAINT OthersArriveFirst
SPECIFICATION LimiterSpec
INVARIANTS
    LimiterTypeOK
    RedisBudget
    MemoryBudgetIsRolling
    RetryAfterSuffices
    LimitedForOwnTraffic
CHECK_DEADLOCK FALSE

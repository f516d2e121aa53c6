\* One organisation and a request without a token; a window of two seconds of
\* two ticks and the first tick of the next window, two admissions to each.
CONSTANTS
    r1 = r1
    r2 = r2
    r3 = r3
    r5 = r5
    r6 = r6
    o1 = o1
    o2 = o2
    p1 = p1
    p2 = p2
    None = None
    Orgs = {o1}
    Procs = {p1}
    Requests = {r1, r2, r3, r6}
    OrgOf <- MCOrgOf
    ProcOf <- MCProcOf
    FailOpen <- MCFailOpen
    MaxRequests = 2
    Second = 2
    Window = 2
    MaxTime = 4
SYMMETRY SameRequests
SPECIFICATION LimiterSpec
INVARIANT
    RollingWindow
CHECK_DEADLOCK FALSE

\* A call and its repetition.
CONSTANTS
    q1 = q1
    q2 = q2
    q3 = q3
    g1 = g1
    s1 = s1
    k1 = k1
    o1 = o1
    p1 = p1
    p2 = p2
    None = None
    Orgs = {o1}
    Procs = {p1, p2}
    Requests = {q1, q2}
    Grants = {}
    SeedRows = {s1}
    Keys = {k1}
    OrgOf <- MCOrgOf
    ProcOf <- MCProcOf
    Endpoint <- MCEndpoint
    KeyOf <- MCKeyOf
    Credit <- MCCredit
    GrantRole <- MCGrantRole
    AnalysisCost = 3
    SummariseCost = 2
    PoolSize = 1
SPECIFICATION ApiSpec
INVARIANT
    RepeatCreatesNoJob
CHECK_DEADLOCK FALSE

\* An organisation without rows, served by one process: its first grant races
\* with two calls.
CONSTANTS
    q1 = q1
    q2 = q2
    q3 = q3
    q4 = q4
    q5 = q5
    q6 = q6
    g1 = g1
    g2 = g2
    g3 = g3
    s1 = s1
    s2 = s2
    s3 = s3
    k1 = k1
    k2 = k2
    o1 = o1
    o2 = o2
    p1 = p1
    p2 = p2
    None = None
    Orgs = {o1}
    Procs = {p1}
    Requests = {q5, q6}
    Grants = {g3}
    SeedRows = {}
    Keys = {k1}
    OrgOf <- MCOrgOf
    ProcOf <- OneProc
    Endpoint <- MCEndpoint
    KeyOf <- MCKeyOf
    Credit <- MCCredit
    GrantRole <- MCGrantRole
    AnalysisCost = 3
    SummariseCost = 2
SPECIFICATION Spec
INVARIANT
    NonNegativeBalance
CHECK_DEADLOCK FALSE

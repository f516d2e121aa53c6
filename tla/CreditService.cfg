\* Two processes serve one organisation, whose balance pays for one call and,
\* after the grant, for two: q1 and q2 race with the same key, whose earlier
\* use s2 may expire and which another organisation has used too (s3), and
\* q4, on the process of q2, carries a key of its own.
CONSTANTS
    q1 = q1
    q2 = q2
    q3 = q3
    q4 = q4
    q5 = q5
    q6 = q6
    g1 = g1
    g2 = g2
    g3 = g3
    s1 = s1
    s2 = s2
    s3 = s3
    k1 = k1
    k2 = k2
    o1 = o1
    o2 = o2
    p1 = p1
    p2 = p2
    None = None
    Orgs = {o1, o2}
    Procs = {p1, p2}
    Requests = {q1, q2, q4}
    Grants = {g1, g2}
    SeedRows = {s1, s2, s3}
    Keys = {k1, k2}
    OrgOf <- MCOrgOf
    ProcOf <- MCProcOf
    Endpoint <- MCEndpoint
    KeyOf <- MCKeyOf
    Credit <- MCCredit
    GrantRole <- MCGrantRole
    AnalysisCost = 3
    SummariseCost = 2
SPECIFICATION FairSpec
INVARIANTS
    TypeOK
    NonNegativeBalance
    CheckedBalanceStillSuffices
    OneDebitPerKey
    DeadlockSpansProcesses
    ReuseRepeatsOwnCall
PROPERTIES
    KeyChangesHands
    ImplementsLedger
    EveryRequestEnds
CHECK_DEADLOCK FALSE

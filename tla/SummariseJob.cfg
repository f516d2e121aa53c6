\* Two jobs, one place in the worker, two deliveries of each.
CONSTANTS
    j1 = j1
    j2 = j2
    Jobs = {j1, j2}
    p1 = p1
    Procs = {p1}
    ProcOf <- MCProcOf
    None = None
    MaxTries = 2
    MaxJobs = 1
SPECIFICATION JobFairSpec
INVARIANTS
    JobTypeOK
    RowIsCoherent
    QueuedJobHasRow
    PoolLockHeldByCreator
    AnsweredJobIsQueuedOrMarked
    DoneMeansSettled
PROPERTIES
    ImplementsJobStatus
    SettledStaysUnlessRedelivered
    QueuedJobFinishes
CHECK_DEADLOCK FALSE

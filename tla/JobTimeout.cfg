\* One job, which may time out.
CONSTANTS
    j1 = j1
    j2 = j2
    Jobs = {j1}
    p1 = p1
    Procs = {p1}
    ProcOf <- MCProcOf
    None = None
    MaxTries = 2
    MaxJobs = 1
SPECIFICATION JobSpec
INVARIANT
    TimedOutJobSettles
CHECK_DEADLOCK FALSE

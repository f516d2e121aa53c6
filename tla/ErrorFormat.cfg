\* A request that the rate limiter refuses.
CONSTANTS
    q1 = q1
    q2 = q2
    Requests = {q1, q2}
    None = None
SPECIFICATION PipelineSpec
INVARIANTS
    AllErrorsAreStructured
CHECK_DEADLOCK FALSE

\* Two requests side by side.
CONSTANTS
    q1 = q1
    q2 = q2
    Requests = {q1, q2}
    None = None
SPECIFICATION PipelineSpec
INVARIANTS
    PipelineTypeOK
    LoggedErrorsAreStructured
    LoggedAsAnswered
    ReasonReachesClient
CHECK_DEADLOCK FALSE

SPECIFICATION Spec
CONSTANTS
    Sessions = {s1}
    Calls = {c1}
    None = None
    MaxSteps = 2
    MaxRetries = 1
    MaxStreamRetries = 0
    MaxCalls = 1
    MaxTurns = 2
    MaxCompactions = 0
    WaitPolicy = "all"
    WaitTimeout = TRUE
INVARIANT CancelledCallsAnswered
CHECK_DEADLOCK FALSE

SPECIFICATION FairSpec
CONSTANTS
    Sessions = {s1}
    Calls = {c1, c2}
    None = None
    MaxSteps = 2
    MaxRetries = 2
    MaxStreamRetries = 1
    MaxCalls = 1
    MaxTurns = 1
    MaxCompactions = 1
    WaitPolicy = "all"
    WaitTimeout = TRUE
INVARIANTS TypeOK ModelSeesPairs ContextFollowsHistory
PROPERTIES CancelEndsTurn ImplementsTurn
CHECK_DEADLOCK FALSE

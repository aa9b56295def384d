SPECIFICATION FairSpec
CONSTANTS
    Planners = {p1}
    Delegations = {d1, d2}
    None = None
    MaxParallel = 1
    WaitAll = TRUE
    Timeout = TRUE
    Lossy = TRUE
INVARIANTS TypeOK RunningIsCancellable EndedIsTerminal
PROPERTIES WaitEnds CancelledStops
CHECK_DEADLOCK FALSE

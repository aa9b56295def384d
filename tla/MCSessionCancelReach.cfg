CONSTANTS
    Prompts = {p1, p2}
    Scheduled = {p2}
    Nobody = Nobody
    MaxMessages = 0
    Snapshots = FALSE
SPECIFICATION Spec
INVARIANTS
    CancelReachesRunningTurn
CHECK_DEADLOCK FALSE

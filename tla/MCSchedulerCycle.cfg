CONSTANTS
    a = a
    b = b
    Schedules = {a}
    Trigger <- Interval
    MaxRuns <- TwoRuns
    MaxFailures = 2
    Threshold = 1
    Debounce = FALSE
    MaxTurns = 2
    RunCap = 2
SPECIFICATION FairSpec
INVARIANTS
    TypeOK
    PendingDeleteHasCycle
    CycleHasTimeout
PROPERTIES
    SchedulesGoOn
    TerminalStays

CONSTANTS
    a = a
    b = b
    Schedules = {a}
    Trigger <- Interval
    MaxRuns <- NoLimit
    MaxFailures = 2
    Threshold = 1
    Debounce = FALSE
    MaxTurns = 1
    RunCap = 1
SPECIFICATION FairSpec
PROPERTIES
    ActiveCycleEnds

CONSTANTS
    a = a
    b = b
    Schedules = {a, b}
    Trigger <- Mixed
    MaxRuns <- OnceOnly
    MaxFailures = 1
    Threshold = 2
    Debounce = TRUE
    MaxTurns = 1
    RunCap = 1
SPECIFICATION Spec
INVARIANTS
    WakeNotLost
    ArmedIsTracked
CONSTRAINT SharedWakeOnly

CONSTANTS
    Callers = {c1, c2}
    Profiles = {1, 2}
    Default = 0
    None = None
    MaxEdits = 2
SPECIFICATION Spec
INVARIANTS
    CachedReadsGoOn
CHECK_DEADLOCK FALSE

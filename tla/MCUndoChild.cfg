CONSTANTS
    Paths = {a, b}
    MaxTurns = 3
    MaxUndos = 2
SPECIFICATION Spec
INVARIANTS
    UndoKeepsEarlierTurns
CHECK_DEADLOCK FALSE

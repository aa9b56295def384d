CONSTANTS
    Prompts = {p1, p2}
    Scheduled = {p2}
    Nobody = Nobody
    MaxMessages = 1
    Snapshots = TRUE
SPECIFICATION FairSpec
INVARIANTS
    TypeOK
    PermitNotLost
    NoSpuriousCancel
    RunningFlagHasOwner
    SnapshotsOwnTurn
PROPERTIES
    EveryPromptFinishes
    ImplementsSerialTurns
CHECK_DEADLOCK FALSE

CONSTANTS
    LastChunk = 3
    BatchSize = 2
    AckWindow = 1
    ChannelSize = 2
    ReplaySize = 1
    WireBound = 1
    MaxFaults = 1
SPECIFICATION FairSpec
CONSTRAINT Bounded
INVARIANTS
    TypeOK
    StreamFaithful
    RunningIsTracked
PROPERTIES
    HostStops
CHECK_DEADLOCK FALSE

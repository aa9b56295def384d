CONSTANTS
    Nodes = {n1, n2, n3}
    NoOwner = NoOwner
    TTL = 3
    Delay = 3
    MaxTime = 9
    Paths = {a, b}
    MaxTurns = 3
    MaxUndos = 2
    Durable = {1, 3, 4}
    Ephemeral = {2}
    Unlisted = {1}
    Finals = {4}
    Deltas = {2}
    Limit = 2
    Capacity = 2
    MaxRequests = 1
    MaxBreaks = 1
    Local = {1, 2}
    Remote = {3, 4, 5}
    None = None
    MaxLoads = 3
    MaxStops = 1
    Callers = {3, 4}
    Profiles = {1, 2}
    Default = 0
    MaxEdits = 2
SPECIFICATION AllSpec
CONSTRAINT Bounded
INVARIANTS
    ServicesTypeOK
    OneLeader
    FrontierStored
    FilesFollowHistory
    ShownInOrder
    NothingMissed
    OneActor
    RemoteSingleFlight
    RequestsGoOn
    RuntimesShared
    CacheCurrent
PROPERTIES
    LeaseHandover
CHECK_DEADLOCK FALSE

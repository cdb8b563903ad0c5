SPECIFICATION FairSpec
CHECK_DEADLOCK FALSE
CONSTANTS
    Rows = {1, 2}
    Nets = {1}
    NetOf <- NetworkOf
    Poison = {1}
    Cursor0 = 3
    MaxRequests = 2
    ChunkSizes <- Sizes
    LiveTTL = 1
    GoneTTL = 1
    Backoff = 1
    MaxClock = 5
    MaxFaults = 1
    MaxFailures = 3
INVARIANTS
    TypeOK
    MemoTrue
PROPERTIES
    ImplementsMirror
    Settles

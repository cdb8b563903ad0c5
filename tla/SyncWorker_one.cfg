SPECIFICATION Spec
CONSTANTS
    Nodes = {n1}
    NoNode = NoNode
    Callers = {"scheduler", "request"}
    Retries = 1
    Keep = 1
    Batch = 1
    MaxCycles = 3
    MaxMoves = 1
INVARIANTS
    TypeOK
    LatchIsOwned
PROPERTIES
    FreshnessKept
CHECK_DEADLOCK FALSE

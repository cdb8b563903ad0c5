SPECIFICATION Spec
CONSTANTS
    Nodes = {n1, n2}
    NoNode = NoNode
    Callers = {"scheduler"}
    Retries = 0
    Keep = 1
    Batch = 1
    MaxCycles = 2
    MaxMoves = 2
INVARIANTS
    PrimaryServesPriorData
CHECK_DEADLOCK FALSE

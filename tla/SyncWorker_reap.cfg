SPECIFICATION Spec
CONSTANTS
    Nodes = {n1, n2}
    NoNode = NoNode
    Callers = {"scheduler", "request"}
    Retries = 0
    Keep = 1
    Batch = 1
    MaxCycles = 1
    MaxMoves = 1
INVARIANTS
    LiveCycleIsRunning
CHECK_DEADLOCK FALSE

SPECIFICATION FairSpec
CONSTANTS
    Nodes = {n1, n2}
    NoNode = NoNode
    Callers = {"scheduler"}
    Retries = 1
    Keep = 1
    Batch = 1
    MaxCycles = 2
    MaxMoves = 2
INVARIANTS
    SuccessMeansCommitted
    WorkerInv
PROPERTIES
    ReplicaBecomesReady
CHECK_DEADLOCK FALSE

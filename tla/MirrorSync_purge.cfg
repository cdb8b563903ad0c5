SPECIFICATION VersionsSpec
CONSTANTS
    t1 = t1
    r1 = r1
    r2 = r2
    Types = {t1}
    Steps <- OneStep
    Rows = {r1, r2}
    Parents = {}
    Purged = {t1}
    Horizon = 1
    Instants <- FourInstants
SYMMETRY RowSymmetry
INVARIANTS
    NoSkippedChange
    IInv
PROPERTIES
    RowsMoveForward
    ImplementsVersionedMirror

SPECIFICATION FairSpec
CHECK_DEADLOCK FALSE
CONSTANTS
    Nodes = {n1, n2}
    Alone = n1
    MaxCommits = 2
    MaxFaults = 2
INVARIANTS
    TypeOK
    RevalidationIsSound
    ResponseIsTrue
PROPERTIES
    ClientConverges
    TagReturns

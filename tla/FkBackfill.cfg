SPECIFICATION Spec
CHECK_DEADLOCK FALSE
CONSTANTS
    Keys <- AllKeys
    Steps <- StepsOfTypes
    ByName <- TypesByName
    Required <- RequiredOf
    Optional <- OptionalOf
    StagedPrefetch = {"fac"}
    Cap = 4
    BatchSize = 2
    ChunkSize = 2
    Fetches <- ThreeFetches
    Purgeable <- MaybeGone
    MaxCycles = 2
INVARIANTS
    TypeOK
    RequestBudget
    NoDanglingReference
    EveryLossExplained

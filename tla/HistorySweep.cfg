SPECIFICATION FairSpec
CHECK_DEADLOCK FALSE
CONSTANTS
    Types = {"campus", "fac", "net"}
    Step <- StepOf
    Width <- WidthOf
    AllStatuses = {"campus"}
    Rows <- AllRows
    TypeOf <- TypeOfRow
    IdOf <- IdOfRow
    Budget = 2
    TTL = 1
    Start = 3
    Begin <- Beginnings
    Changing <- NetsAndFac
    MaxClock = 5
    MaxFaults = 1
INVARIANTS
    TypeOK
    NoLiveRowBehind
    

    

SPECIFICATION FairSpec
CONSTANTS
    t1 = t1
    t2 = t2
    r1 = r1
    r2 = r2
    Types = {t1}
    Steps <- OneStep
    Rows = {r1, r2}
    Parents = {t1}
    Purged = {}
    Horizon = 0
    Instants <- TwoInstants
PROPERTIES
    Converges
    WatermarkCatchesUp

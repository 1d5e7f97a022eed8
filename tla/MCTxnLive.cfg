SPECIFICATION FairSpec
CONSTANTS
    t1 = t1
    t2 = t2
    k1 = k1
    nobody = nobody
    Txns = {t1, t2}
    Keys = {k1}
    NoTxn = nobody
    InitTs = 0
    MapLimit = 1
    ChCap = 1
    LogCap = 1
PROPERTIES
    CommitTerminates
CHECK_DEADLOCK FALSE

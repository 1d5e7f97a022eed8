SPECIFICATION Spec
CONSTANTS
    t1 = t1
    t2 = t2
    k1 = k1
    k2 = k2
    nobody = nobody
    Txns = {t1, t2}
    Keys = {k1, k2}
    NoTxn = nobody
    InitTs = 0
    MapLimit = 2
    ChCap = 2
    LogCap = 1
SYMMETRY TxnSymmetry
INVARIANTS
    SnapshotConsistent
    TrackedReadsProtected
    
PROPERTIES
    NewerVersionsOnly

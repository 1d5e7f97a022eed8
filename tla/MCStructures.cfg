SPECIFICATION StructuresSpec
CONSTANTS
    Keys = {"a", "b", "c"}
    Cost <- MCCost
    MaxCost = 2
    SetBufSize = 2
    Readers = {r1, r2}
    Doomed = {"a"}
    MaxItems = 3
SYMMETRY Symmetry
INVARIANTS
    BufferSafe
    NoDanglingItem
    NoReaderDeadlock
    MemGetExact
    MemScanComplete
    LiveReadable
    
CHECK_DEADLOCK FALSE

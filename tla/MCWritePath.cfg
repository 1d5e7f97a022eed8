SPECIFICATION Spec
CONSTANTS
    NumReqs = 3
    PerReq = 2
    MemCap = 3
    ChCap = 2
    FlushCap = 1
    MaxMem = 4
    Ingests = 1
    IOErrors = 1
INVARIANTS  WriteAhead HeadCovered NewestFirst CloseFlushes
CHECK_DEADLOCK FALSE

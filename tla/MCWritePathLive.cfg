SPECIFICATION FairSpec
CONSTANTS
    NumReqs = 2
    PerReq = 2
    MemCap = 3
    ChCap = 2
    FlushCap = 1
    MaxMem = 3
    Ingests = 1
    IOErrors = 1
PROPERTIES RequestsAnswered CloseReturns
CHECK_DEADLOCK FALSE

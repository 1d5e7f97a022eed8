SPECIFICATION Spec
CONSTANTS
    Flushes <- MCFlushes
    MaxJobs = 3
    MaxFid = 4
    ChSize = 1
    MaxCrashes = 1
INVARIANT LiveReadableAlways
CHECK_DEADLOCK FALSE

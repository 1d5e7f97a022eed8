SPECIFICATION MCSpec
CONSTANTS
    BlockEntries = 3
    OffsetLimit = 2
    NumBuckets = 2
    Internal = {3}
    MaxKey = 4
    MaxTs = 3
    Layouts <- MCLayouts
    Options <- MCOptions
INVARIANTS ScanExact GetExact PruningSound NeverMisses SeekExact
CHECK_DEADLOCK FALSE

SPECIFICATION Spec
CONSTANTS
    MaxKey = 3
    MaxTableSize = 2
    MinSkippedSize = 1
    MaxExpandSize = 10
    MaxLevels = 3
    NumLevelZeroTables = 1
    NumLevelZeroStall = 2
    LevelOneSize = 1
    LevelSizeMultiplier = 20
    Workers = {w1}
    Batches <- MCBatches
    IngestKeys <- MCIngestKeys
    DeleteRanges <- MCDeleteRanges
    ReadKeys = {2}
    MaxTs = 3
    MaxExtras = 0
    w1 = w1
CHECK_DEADLOCK FALSE
INVARIANT NoResurrection

SPECIFICATION Spec
CONSTANTS
    MaxKey = 3
    MaxTableSize = 2
    MinSkippedSize = 1
    MaxExpandSize = 10
    MaxLevels = 3
    NumLevelZeroTables = 1
    NumLevelZeroStall = 2
    LevelOneSize = 1
    LevelSizeMultiplier = 20
    Workers = {w1, w2}
    Batches <- MCBatches
    IngestKeys <- MCIngestKeys
    DeleteRanges <- MCDeleteRanges
    ReadKeys = {2}
    MaxTs = 3
    MaxExtras = 1
    w1 = w1
    w2 = w2
INVARIANTS LevelsValid   
PROPERTIES ReaderCorrect
CHECK_DEADLOCK FALSE
SYMMETRY Symmetry

SPECIFICATION Spec
CONSTANTS
    MaxTs = 3
    Width = 2
    MemCap = 3
    FlushCap = 1
    LogEntries = 3
    MaxNumFiles = 1
    RewriteAt = 1
    RewriteRatio = 1
    MaxStops = 2
    MaxMoves = 1
INVARIANTS DiskCoversAcked  VersionsFresh ManifestFilesExist ReadsNewest ReplayAsserts
PROPERTIES ImplementsDurableLog
CHECK_DEADLOCK FALSE

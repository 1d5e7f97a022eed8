SPECIFICATION FairSpec
CONSTANTS
    g1 = g1
    g2 = g2
    r1 = r1
    nobody = nobody
    Guards = {g1, g2}
    Resources = {r1}
    NoGuard = nobody
    InitRead = 1
    MaxRead = 3
    MaxTs = 7
INVARIANTS
    NoUseAfterFree
    
    NoGuardLost
PROPERTIES
    DeletedGetsFreed

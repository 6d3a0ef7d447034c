SPECIFICATION FairSpec
CONSTANTS
    Threads = {t1, t2, t3}
    WorldSizes = {1, 3}
    WorldRank = 0
    NCalls = 3
    MaxLen = 3
    Programs <- SharedPrograms
INVARIANT LockStep
INVARIANT SumCorrect
INVARIANT BufferExact
PROPERTY Termination
CHECK_DEADLOCK FALSE

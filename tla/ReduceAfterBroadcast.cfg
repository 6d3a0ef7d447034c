SPECIFICATION Spec
CONSTANTS
    Threads = {t1, t2}
    WorldSizes = {2}
    WorldRank = 0
    NCalls = 2
    MaxLen = 2
    Programs <- BroadcastThenReduce
INVARIANT SumCorrect
CHECK_DEADLOCK FALSE

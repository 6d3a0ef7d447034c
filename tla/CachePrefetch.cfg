SPECIFICATION FairSpec
CONSTANTS
    Layers = {0}
    BlockIndexes = {0, 1}
    BlockSize = 1
    Limit = 1
    MaxId = 2
    Tags = {1}
    Prefetching = TRUE
    Timeouts = TRUE
    Bulk = {"clear"}
INVARIANT InflightTracked
PROPERTY WaitEnds
PROPERTY WorkerStops
CHECK_DEADLOCK FALSE

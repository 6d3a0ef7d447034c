SPECIFICATION Spec
CONSTANTS
    Layers = {0}
    BlockIndexes = {0, 1, 2}
    BlockSize = 1
    Limit = 2
    MaxId = 3
    Tags = {1, 2}
    Prefetching = TRUE
    Timeouts = FALSE
    Bulk = {}
INVARIANT TokensKept
CHECK_DEADLOCK FALSE

SPECIFICATION Spec
CONSTANTS
    Layers = {0, 1}
    BlockIndexes = {0, 1}
    BlockSize = 2
    Limit = 1
    MaxId = 2
    Tags = {1, 2}
    Prefetching = FALSE
    Timeouts = FALSE
    Bulk = {"flush_to_disk", "load_from_disk", "unload_memory", "clear"}
INVARIANT TokensKept
INVARIANT ReadsLatest
INVARIANT MemoryExact
INVARIANT WithinBudget
INVARIANT FilesExact
INVARIANT SlotsFilled
CHECK_DEADLOCK FALSE

SPECIFICATION FairSpec
CONSTANTS
    Producers = {p1, p2}
    Consumers = {c1, c2}
    NPrompts = 3
    Capacity = 2
    MaxRetries = 2
INVARIANT ProducerOrder
INVARIANT FalseMeansOver
PROPERTY IsFifo
PROPERTY CloseEnds
PROPERTY AllTaken
CHECK_DEADLOCK FALSE

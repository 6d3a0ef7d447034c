SPECIFICATION FairSpec
CONSTANTS
    Workers = {w1, w2}
    r1 = r1
    r2 = r2
    r3 = r3
    Requests = {r1, r2, r3}
    prio <- Priorities
    Long = {r1}
    MaxBatch = 2
    MaxStarts = 2
INVARIANT CalledOnce
INVARIANT CountsExact
INVARIANT PeakCovers
PROPERTY Served
PROPERTY StopReturns
CHECK_DEADLOCK FALSE

SPECIFICATION FairSpec
CONSTANTS
    Names = {n1}
    Callers = {c1, c2}
    Worker = Worker
    None = None
    MaxCalls = 4
    MaxStale = 2
    MaxLag = 1
INVARIANT ExactlyOnce
INVARIANT InOrder
INVARIANT GradientOnce
PROPERTY Processed
CHECK_DEADLOCK FALSE

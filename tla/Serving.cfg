SPECIFICATION FairSpec
CONSTANTS
    Workers = {w1, w2}
    Conns = {c1, c2}
    Caps = {0, 1, 2}
    Changes = 1
    BindFails = TRUE
    NoConn = NoConn
INVARIANT ConnsTracked
INVARIANT SlotsExact
INVARIANT AbortsOnFailure
PROPERTY AdmissionExact
PROPERTY Served
PROPERTY StopReturns
CHECK_DEADLOCK FALSE

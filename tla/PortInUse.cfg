SPECIFICATION Spec
CONSTANTS
    Workers = {w1}
    Conns = {c1}
    Caps = {1}
    Changes = 0
    BindFails = TRUE
    NoConn = NoConn
INVARIANT NoAbort
CHECK_DEADLOCK FALSE

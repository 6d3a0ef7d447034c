SPECIFICATION Spec
CONSTANTS
    Clients = {"a"}
    Rates = {0, 1, 3}
    Bursts = {0, 2}
    TopRate = 3
    Callers = 2
    Pauses = {300, 400, 1000}
    Horizon = 2000
    MaxGrants = 6
INVARIANT RateBound
INVARIANT StretchBound
INVARIANT NeverStarved
CHECK_DEADLOCK FALSE

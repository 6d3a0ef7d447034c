SPECIFICATION FairSpec
CONSTANTS
    p1 = p1
    p2 = p2
    p3 = p3
    Pages = {p1, p2, p3}
    Getters = {t1, t2}
    Lists <- PageLists
    MaxResident = 2
    MaxCalls = 4
    NoPage = NoPage
INVARIANT LruExact
INVARIANT LostOnce
PROPERTY GetReturns
PROPERTY StopDrains
CHECK_DEADLOCK FALSE

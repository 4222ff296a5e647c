SPECIFICATION MCSpec
CONSTANTS
    p1 = p1
    p2 = p2
    Pools = {p1, p2}
    PoolsOn <- MCPoolsOnBase
    Handlers = {h1, h2}
    NoPool = NoPool
    PoolHost = FALSE
    Faults <- MCNoFaults
    MaxRequests = 3
    MaxWapJoins = 0
    MaxChanges = 0
    MaxCrashes = 0
CHECK_DEADLOCK FALSE
PROPERTIES
    LeaveClearsOnlyThePoolAsked

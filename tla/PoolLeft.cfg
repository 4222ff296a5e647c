SPECIFICATION MCFairSpec
CONSTANTS
    p1 = p1
    p2 = p2
    Pools = {p1}
    PoolsOn <- MCPoolOnBoth
    Handlers = {h1}
    NoPool = NoPool
    PoolHost = FALSE
    Faults <- MCRpcFaults
    MaxRequests = 1
    MaxWapJoins = 1
    MaxChanges = 3
    MaxCrashes = 1
CHECK_DEADLOCK FALSE
PROPERTIES
    LeftPoolIsDropped

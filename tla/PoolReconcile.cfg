SPECIFICATION MCSpec
CONSTANTS
    p1 = p1
    p2 = p2
    Pools = {p1}
    PoolsOn <- MCPoolOnBoth
    Handlers = {h1}
    NoPool = NoPool
    PoolHost = FALSE
    Faults <- MCFaults
    MaxRequests = 1
    MaxWapJoins = 0
    MaxChanges = 5
    MaxCrashes = 1
CHECK_DEADLOCK FALSE
INVARIANTS
    TypeOK
    ReconcileActsOnLeftMembership
    ReconcileRateLimit

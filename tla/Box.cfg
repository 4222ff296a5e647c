SPECIFICATION BoxSpec
CONSTANTS
    LanAddrs = {l1, l2}
    MaxAttempts = 1
    MaxConfig = 2
    MaxChecks = 1
    MaxConnects = 1
    p1 = p1
    p2 = p2
    p3 = p3
    n1 = n1
    n2 = n2
    Plugins = {p1, p2, p3}
    Params <- MCParams
    Updated = {p2}
    Handlers = {h1, h2}
    Junk = Junk
    Callers = {h1, h2}
    Tokens = {k1, k2}
    MaxSecrets = 3
    Conns = {r1, r2}
    Blocks = {b1}
    PoolHost = FALSE
INVARIANTS
    OnlyRaceLeaks
    OneServer
    ParamsBeforeActive
    InstalledStays
    AnsweredIsStored
    DatastoreClosesLast
    ListedOrSkipped
PROPERTIES
    CloseReturns
    HotspotIsServed
    ConfigIsAdvertised
    SecretIsStable
    ShutdownExits
CHECK_DEADLOCK FALSE

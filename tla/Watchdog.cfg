SPECIFICATION MCSpec
CONSTANTS
    Protocols = {blockchain}
    Threshold = 2
    MinGap = 3
    Window = 10
    MaxRestarts = 3
    Grace = 2
    MaxFailed = 3
    LongCooldown = 4
    Bootstrap = 3
    HostActs = FALSE
    CallsFail = FALSE
    MaxStops = 0
INVARIANTS
    TypeOK
    ProcessRateLimit
    RestartsSpaced
    UnhelpfulBounded
PROPERTIES
    NoRestartInBootstrap

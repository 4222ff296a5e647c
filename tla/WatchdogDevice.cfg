SPECIFICATION MCSpec
CONSTANTS
    Protocols = {blockchain}
    Threshold = 2
    MinGap = 3
    Window = 20
    MaxRestarts = 3
    Grace = 2
    MaxFailed = 3
    LongCooldown = 4
    Bootstrap = 3
    HostActs = TRUE
    CallsFail = FALSE
    MaxStops = 0
INVARIANTS
    DeviceRateLimit

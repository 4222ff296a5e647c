SPECIFICATION MCFairSpec
CONSTANTS
    Protocols = {blockchain, ping}
    Threshold = 1
    MinGap = 1
    Window = 1
    MaxRestarts = 1
    Grace = 1
    MaxFailed = 1
    LongCooldown = 1
    Bootstrap = 1
    HostActs = TRUE
    CallsFail = TRUE
    MaxStops = 1
PROPERTIES
    RegistrationRecovers

SPECIFICATION WapSpec
CONSTANTS
    LanAddrs = {l1, l2}
    MaxAttempts = 1
INVARIANTS
    NothingBoundAfterClose
CHECK_DEADLOCK FALSE

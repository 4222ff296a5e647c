SPECIFICATION ChatFairSpec
CONSTANTS
    ChanCap = 2
    MaxLines = 3
    MaxPeeks = 1
PROPERTIES
    EndIsReported
CHECK_DEADLOCK FALSE

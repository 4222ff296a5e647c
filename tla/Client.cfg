SPECIFICATION AppSpec
CONSTANTS
    Ops = {op1, op2}
    Chats = {chat}
    Setters = {setter}
    Closers = {closer1, closer2}
    HasDHT = TRUE
    ChanCap = 2
    MaxLines = 3
    MaxPeeks = 2
    t1 = t1
    t2 = t2
    Callers = {t1, t2}
    May <- MCMay
    x1 = x1
    x2 = x2
    x3 = x3
    c1 = c1
    c2 = c2
    p1 = p1
    p2 = p2
    Peers = {p1, p2}
    Pulls = {x1, x2, x3}
    Cids = {c1, c2}
    Dag <- MCDag
    Root <- MCRoot
    From <- MCFrom
    Retries = 2
    TripAfter = 3
    HalfOpenMax = 1
    MaxFaults = 1
INVARIANTS
    TypeOK
    DrainedBeforeClose
    DeliveredInOrder
    CompleteMeansAll
    DoneIsTold
    UndoneIsTold
    PushMeansStored
    TempAuthsAreSpentOnce
PROPERTIES
    ShutdownIsPrompt
    StreamIsBag
    ReaderEnds
    PushesEnd
    PulledRootArrives
CHECK_DEADLOCK FALSE

SPECIFICATION Spec
CONSTANTS
    Ops = {op1, op2}
    Chats = {chat}
    Setters = {setter}
    Closers = {closer1, closer2}
    HasDHT = TRUE
SYMMETRY ThreadSymmetry
INVARIANTS
    NothingUsesClosedHost

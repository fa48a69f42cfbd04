SPECIFICATION Spec
CONSTANTS
    Addrs = {a1, a2, a3}
    NoAddr = NoAddr
    Peers = {p, q}
    NoPeer = NoPeer
    Names = {}
    Calls = {"disconnect", "shutdown"}
    MaxSessions = 2
    MaxAttempts = 2
    MaxLookups = 1
SYMMETRY Renamings
INVARIANTS
    TypeOK
    
    ClosesAreReported
PROPERTIES
    AnswersFindConnecting
CHECK_DEADLOCK FALSE

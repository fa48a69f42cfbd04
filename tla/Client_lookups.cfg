SPECIFICATION FairSpec
CONSTANTS
    Addrs = {a1, a2}
    NoAddr = NoAddr
    Peers = {p}
    NoPeer = NoPeer
    Names = {n, m}
    Calls = {"disconnect"}
    MaxSessions = 1
    MaxAttempts = 2
    MaxLookups = 2
INVARIANTS
    PendingConnectionsExist
    ListedConnectionsExist
    AliasesAreListed

    
CHECK_DEADLOCK FALSE

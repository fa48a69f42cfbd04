SPECIFICATION Spec
CONSTANTS
    Addrs = {1, 2}
    NoAddr = NoAddr
    Peers = {p}
    NoPeer = NoPeer
    Channels = {c1, c2}
    Sizes = {1}
    HeaderSize = 1
    SizeModulus = 100
    FlushLimit = 3
    Calls = {"recvfrom", "disconnect"}
    UseRelay = TRUE
    MaxSends = 2
    MaxArrivals = 2
SYMMETRY PeersAndChannels
INVARIANTS
    PendingHaveData
    DeliveredInOrder
    NothingMissed
    TypeOK
    ListedConnectionsExist
    ClosesAreReported
    
CHECK_DEADLOCK FALSE

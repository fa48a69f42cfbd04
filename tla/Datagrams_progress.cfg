SPECIFICATION FairSpec
CONSTANTS
    Addrs = {1}
    NoAddr = NoAddr
    Peers = {p}
    NoPeer = NoPeer
    Channels = {c1, c2}
    Sizes = {1}
    HeaderSize = 1
    SizeModulus = 100
    FlushLimit = 3
    Calls = {"recvfrom", "peek"}
    UseRelay = FALSE
    MaxSends = 2
    MaxArrivals = 2

PROPERTIES
    QueuedIsFlushed
    RecvReturns
CHECK_DEADLOCK FALSE

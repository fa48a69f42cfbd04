SPECIFICATION FairSpec
CONSTANTS
    Addrs = {1}
    NoAddr = NoAddr
    Peers = {p}
    NoPeer = NoPeer
    Channels = {c1}
    Sizes = {1}
    HeaderSize = 1
    SizeModulus = 100
    FlushLimit = 3
    Calls = {"recvfrom"}
    UseRelay = FALSE
    MaxSends = 1
    MaxArrivals = 1

PROPERTIES
    ReliableIsSent
CHECK_DEADLOCK FALSE

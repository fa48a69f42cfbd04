SPECIFICATION FairSpec
CONSTANTS
    Fds = {f}
    Apps = {a, b}
    Chain = Chain
    NoThread = NoThread
    MaxSessions = 2
INVARIANTS
    TypeOK
    ChangesAreSeen
PROPERTIES
    WebsocketsAreServed
    StoppedChainEnds
CHECK_DEADLOCK FALSE

SPECIFICATION FairSpec
CONSTANTS
    Ids = {i}
    Apps = {a}
    Chain = Chain
    Sig = Sig
    NoThread = NoThread
INVARIANTS
    TypeOK
    TablesHoldLiveConnections
    SocketsOfConnectionsExist
PROPERTIES
    CallsReturn
    EndsAreReported
    ClosedSocketsAreDestroyed
CHECK_DEADLOCK FALSE

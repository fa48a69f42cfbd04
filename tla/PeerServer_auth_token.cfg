SPECIFICATION Spec
CONSTANTS
    g1 = g1
    g2 = g2
    Conns = {c1, c2}
    NoConn = NoConn
    NoGame = NoGame
    NoSig = NoSig
    NoName = NoName
    Names = {n1}
    Targets = {1, 2, 3}
    GameDB <- VerifyDB
    Hellos <- AuthTokenHellos
    IdModulus = 5
    MaxIds = 2
    MaxQueued = 1
PROPERTY SignedClientsAreAccepted

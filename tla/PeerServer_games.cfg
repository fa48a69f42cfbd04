SPECIFICATION Spec
CONSTANTS
    g1 = g1
    g2 = g2
    Conns = {c1, c2}
    NoConn = NoConn
    NoGame = NoGame
    NoSig = NoSig
    NoName = NoName
    Names = {n1, n2}
    Targets = {1, 2}
    GameDB <- VerifyDB
    Hellos <- MixedHellos
    IdModulus = 5
    MaxIds = 3
    MaxQueued = 1
SYMMETRY ConnSymmetry
INVARIANTS
    TypeOK
    GamesListLivePeers
    AliasesResolveToLivePeers
    AnswersAreSolicited
    
PROPERTIES
    ImplementsRegistry
    OriginatorsAreRegistered
    SignedClientsAreAccepted

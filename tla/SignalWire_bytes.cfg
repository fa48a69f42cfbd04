SPECIFICATION FairSpec
CONSTANTS
    Sockets = {1, 2}
    NoSocket = NoSocket
    Lengths = {3}
    SizeBytes = 2
    MaxFrames = 2
    MaxInAll = 3
INVARIANTS
    TypeOK
    CompleteFramesAreHandled
    CurrentSocketIsLive
PROPERTIES
    CarriesMessages
    MessagesArrive
CHECK_DEADLOCK FALSE

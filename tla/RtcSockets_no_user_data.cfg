SPECIFICATION Spec
CONSTANTS
    Ids = {i}
    Apps = {a}
    Chain = Chain
    Sig = Sig
    NoThread = NoThread
INVARIANT CallbacksLeaveClosedConnectionsAlone
CHECK_DEADLOCK FALSE

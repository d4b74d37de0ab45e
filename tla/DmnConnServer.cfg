SPECIFICATION DmnSpec
CONSTANTS
    Messages = {r1, r2}
    NoMessage = NoMessage
    INVALID = INVALID
    UNBLOCK = UNBLOCK
    PIPE_ROOM = 1
CHECK_DEADLOCK FALSE
INVARIANTS DmnTypeOK DelegateOutlivesUsers RequestsConserved
PROPERTIES TaskFreed ImplementsChannel RequestReachesEngine ManagerReturns

CONSTANTS
    Code = {c1}
    NoMessage = NoMessage
    MaxRequests = 1
    MaxTimers = 2
    h1 = h1
    h2 = h2
    h3 = h3
    Byte3 = 16777216
    NoHandler = NoHandler
    Handler = {}
    Key <- NoKey
    Validating = {}
    MaxReceived = 0
    Expiring = TRUE
SPECIFICATION Spec
INVARIANT HandlersTakeNoLock
CHECK_DEADLOCK FALSE

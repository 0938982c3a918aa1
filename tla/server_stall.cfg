CONSTANTS
    Code = {c1, c2}
    NoMessage = NoMessage
    MaxRequests = 2
    MaxTimers = 3
    h1 = h1
    h2 = h2
    h3 = h3
    Byte3 = 16777216
    NoHandler = NoHandler
    Handler = {h1}
    Key <- OneKey
    Validating = {h1}
    MaxReceived = 1
    Expiring = FALSE
SPECIFICATION Spec
INVARIANT SendingInProgress
CHECK_DEADLOCK FALSE

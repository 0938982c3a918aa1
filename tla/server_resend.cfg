CONSTANTS
    Code = {c1}
    NoMessage = NoMessage
    MaxRequests = 1
    MaxTimers = 4
    h1 = h1
    h2 = h2
    h3 = h3
    Byte3 = 16777216
    NoHandler = NoHandler
    Handler = {h1, h2, h3}
    Key <- MCKey
    Validating = {h1, h2}
    MaxReceived = 1
    Expiring = TRUE
SPECIFICATION Spec
INVARIANTS
    NoRequestForgotten
    SendingInProgress
    HandlersRunOnce
    HandlersRunForOwnService
    ServicesApart
CHECK_DEADLOCK FALSE

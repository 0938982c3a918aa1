CONSTANTS
    Code = {c1, c2}
    NoMessage = NoMessage
    MaxRequests = 3
    MaxTimers = 4
    h1 = h1
    h2 = h2
    h3 = h3
    Byte3 = 16777216
    NoHandler = NoHandler
    Handler = {}
    Key <- NoKey
    Validating = {}
    MaxReceived = 0
    Expiring = FALSE
SPECIFICATION LiveSpec
INVARIANTS
    TypeOK
    SendingInProgress
    EntriesNameLiveTimers
    NoRequestForgotten
    OnlySharedCodesStray
PROPERTY QueuedIsTransmitted
CHECK_DEADLOCK FALSE

CONSTANTS
    MaxSockets = 1
    MaxPings = 1
SPECIFICATION Spec
INVARIANT ShutdownRequestSent
CHECK_DEADLOCK FALSE

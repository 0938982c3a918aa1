CONSTANTS
    MaxSockets = 2
    MaxPings = 1
SPECIFICATION LiveSpec
INVARIANTS
    TypeOK
    PingsCarryCode
    OnePingCyclePerConnection
    LossIsNoticed
PROPERTIES
    IoThreadLeaves
    StartUpDecides
CHECK_DEADLOCK FALSE

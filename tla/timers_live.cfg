CONSTANTS
    oneShot = oneShot
    delayed = delayed
    periodic = periodic
    NoTimer = NoTimer
    Timer <- TwoTimers
    Client = {user, io}
    Duration <- MCDuration
    Repeatable <- MCRepeatable
    MaxTime = 2
SPECIFICATION LiveSpec
PROPERTIES
    ExpiredTimerFires
    EndedTimerLeaves

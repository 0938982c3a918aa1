CONSTANTS
    oneShot = oneShot
    delayed = delayed
    periodic = periodic
    NoTimer = NoTimer
    Timer <- AllTimers
    Client = {user}
    Duration <- MCDuration
    Repeatable <- MCRepeatable
    MaxTime = 2
SPECIFICATION Spec
INVARIANTS
    TypeOK
    TimerIdsUnique
    KeysInStep
    CallbackHoldsTimer
    NoLostWakeup
    EndedTimersSwept
PROPERTY ImplementsTimerService

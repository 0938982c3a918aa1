CONSTANTS
    MaxSockets = 2
    MaxPings = 0
SPECIFICATION LiveSpec
PROPERTY WatcherLeaves
CHECK_DEADLOCK FALSE

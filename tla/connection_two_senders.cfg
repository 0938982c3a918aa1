CONSTANTS
    Sender = {main, io}
    Io = io
    MaxMessages = 2
    EmptyBody = {}
SPECIFICATION Spec
INVARIANT OneSendingThread
CHECK_DEADLOCK FALSE

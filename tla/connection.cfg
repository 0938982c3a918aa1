CONSTANTS
    Sender = {main}
    Io = io
    MaxMessages = 5
    EmptyBody = {4}
SPECIFICATION LiveSpec
INVARIANTS
    TypeOK
    FramesIntact
    QueueIsServed
PROPERTIES
    QueuedIsWritten
    ImplementsMessageStream
CHECK_DEADLOCK FALSE

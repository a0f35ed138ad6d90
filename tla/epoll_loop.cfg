SPECIFICATION Spec
CONSTANTS
    Client = {c1, c2}
    Fd = {4, 5}
    ServerFd = 3
    MaxPending = 2
    MaxLines = 1
    MaxEvents = 2
    MaxResets = 2
    MaxSigInt = 2
    NULL = NULL
INVARIANTS
    TypeOK
    EventsLive
    NobodyStranded
PROPERTIES
    InputServed
    FlushRetried
    ShutdownCompletes
CHECK_DEADLOCK FALSE

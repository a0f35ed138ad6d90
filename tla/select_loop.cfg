SPECIFICATION Spec
CONSTANTS
    Client = {c1, c2}
    Fd = {4, 5}
    ServerFd = 3
    MaxPending = 1
    MaxLines = 2
    Urgent = FALSE
    MaxSigInt = 0
    NULL = NULL
INVARIANTS
    TypeOK
    SocketsOwned
    LookupCurrent
    QuittingIsCurrent
    SelectSucceeds
PROPERTIES
    InputServed
CHECK_DEADLOCK FALSE

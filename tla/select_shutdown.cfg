SPECIFICATION Spec
CONSTANTS
    Client = {c1, c2, c3}
    Fd = {4}
    ServerFd = 3
    MaxPending = 2
    MaxLines = 2
    Urgent = TRUE
    MaxSigInt = 2
    NULL = NULL
INVARIANTS
    LookupCurrent
PROPERTIES
    ShutdownCompletes
CHECK_DEADLOCK FALSE

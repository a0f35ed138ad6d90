SPECIFICATION Spec
CONSTANTS
    Client = {c1, c2}
    Fd = {4, 5}
    ServerFd = 3
    MaxPending = 1
    MaxLines = 1
    Urgent = TRUE
    MaxSigInt = 0
    NULL = NULL
SYMMETRY Symmetry
INVARIANTS
    SelectSucceeds
CHECK_DEADLOCK FALSE

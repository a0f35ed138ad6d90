SPECIFICATION Spec
CONSTANTS
    Client = {c1, c2}
    Buffer = {b1, b2}
    m1 = m1
    m2 = m2
    Message <- MCMessage
    Length <- MCLength
    MaxCopies = 2
    MaxQueue = 3
INVARIANTS
    TypeOK
    CountExact
    QueueWellFormed
PROPERTIES
    FreedWithLast
    StreamSpec

SPECIFICATION Spec
CONSTANTS
    Client = {c1, c2, c3}
    n1 = n1
    n2 = n2
    n3 = n3
    n4 = n4
    Nick <- MCNick
    Bucket = {1, 2, 3}
    Hash <- MCHash
    NULL = NULL
INVARIANTS
    TypeOK
    IndexExact
PROPERTIES
    AddHidesNobody

SPECIFICATION Spec
CONSTANTS
    Client = {c1, c2, c3}
    Channel = {h1, h2, h3}
    n1 = n1
    n2 = n2
    n3 = n3
    n4 = n4
    Name <- MCName
    Bucket = {1, 2, 3}
    Hash <- MCHash
    NULL = NULL
SYMMETRY Symmetry
INVARIANTS
    TypeOK
    MembershipMirrored
    NoEmptyChannel
    IndexExact

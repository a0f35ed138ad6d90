SPECIFICATION Spec
CONSTANTS
    Client = {c1, c2}
    Channel = {h1, h2}
    n1 = n1
    n2 = n2
    n3 = n3
    n4 = n4
    x1 = x1
    x2 = x2
    x3 = x3
    Nick <- MCNick
    Name <- MCName
    NickBucket = {1, 2, 3}
    NickHash <- MCNickHash
    NameBucket = {1, 2}
    NameHash <- MCNameHash
    AfterQuit = TRUE
    NULL = NULL
SYMMETRY Symmetry
INVARIANTS
    ViewsAgree

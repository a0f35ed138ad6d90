SPECIFICATION MessageSpec
CONSTANTS
    Space = " "
    Colon = ":"
    Char <- MCChar
    Code <- MCCode
    Lower <- MCLower
    Unset = Unset
    PrefixMax = 1
    CommandMax = 3
    ArgumentMax = 2
    HashRange = 65536
    Buckets = 2
    f = f
    g = g
    Callback = {f, g}
    Command <- MCCommand
    MaxHandlers = 2
    MaxLine = 5
INVARIANTS
    MessageTypeOK
    ParseDerives
    HandlersExact
CHECK_DEADLOCK FALSE

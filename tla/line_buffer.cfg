SPECIFICATION Spec
CONSTANTS
    x = x
    CR = CR
    LF = LF
    Byte <- MCByte
    ReadMax = 4
    LineMax = 4
    MaxSent = 8
INVARIANTS
    TypeOK
    LinesExact
    LinesFit
CHECK_DEADLOCK FALSE

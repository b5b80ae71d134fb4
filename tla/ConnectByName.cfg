SPECIFICATION Spec
CONSTANTS
    Words <- MCWords
    Numeral <- MCNumeral
    MaxLong = 3
    MaxUnsigned = 7
    MaxPort = 2
    Addresses = {"10.0.0.1"}
    Long = "long"
    MaxHeaders = 2
    Volume = 0
    Window = 1
    Buffer = 1
    Openings <- MCNamed
INVARIANT NamedTargetTried
CHECK_DEADLOCK FALSE

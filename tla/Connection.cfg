SPECIFICATION Spec
CONSTANTS
    Words <- MCWords
    Numeral <- MCNumeral
    MaxLong = 3
    MaxUnsigned = 7
    MaxPort = 2
    Addresses = {"10.0.0.1"}
    Long = "long"
    MaxHeaders = 2
    Volume = 2
    Window = 2
    Buffer = 2
    Openings <- MCOpenings
INVARIANTS
    TypeOK
    ReadAsMeant
    NextHopReadsOneLess
    InOrder
    LastWordsArrive
PROPERTIES
    TunnelEnds
    EverythingArrives
CHECK_DEADLOCK FALSE

SPECIFICATION Spec
CONSTANTS
    Clients = {c1, c2}
    Settings <- MCSettings
    NParts = 2
    MaxAccepts = 3
SYMMETRY MCSymmetry
INVARIANTS
    TypeOK
    NothingLeaks
    PrivateNotCached
    StaleOnlyByOvertaking
    OneSource
    BufferedIsSent
PROPERTY WriteInvalidates
CHECK_DEADLOCK FALSE

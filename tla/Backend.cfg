SPECIFICATION FairSpec
CONSTANTS
    Backends = {b1, b2}
    Clients = {c1, c2}
    Requests <- MCRequests
    NInodes = 2
    MaxCells = 2
    Backlog = 2
    IOFaults = TRUE
    MaxConnects = 3
    None = None
INVARIANTS
    TypeOK
    NothingHeld
    MixedOnlyByOverlap
    PartOnlyByWriter
PROPERTY EveryConnectionClosed
CHECK_DEADLOCK FALSE

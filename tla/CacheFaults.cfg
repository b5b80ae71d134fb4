SPECIFICATION Spec
CONSTANTS
    w1 = w1  w2 = w2  w3 = w3  k1 = k1  k2 = k2  p1 = p1  p2 = p2
    Workers = {w1, w2}
    Cleaner = cleaner
    Keys = {k1, k2}
    KeysOf <- MCAllKeys
    KeyRead <- MCNewline
    Rest <- MCUndated
    Paths = {p1, p2}
    FilePath <- MCSamePath
    None = None
    NoFile = NoFile
    TTL = 1
    NChunks = 1
    IOFaults = TRUE
    MaxTime = 1
    MaxResponses = 2
    MaxCrashes = 1
SYMMETRY MCWorkerSymmetry
INVARIANTS
    OneHolder
    ServedFresh
PROPERTY IndexAtomic

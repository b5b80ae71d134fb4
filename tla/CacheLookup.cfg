SPECIFICATION Spec
CONSTANTS
    w1 = w1  w2 = w2  w3 = w3  k1 = k1  k2 = k2  p1 = p1  p2 = p2
    Workers = {w1, w2}
    Cleaner = cleaner
    Keys = {k1}
    KeysOf <- MCAllKeys
    KeyRead <- MCPlain
    Rest <- MCNoRest
    Paths = {p1}
    FilePath <- MCDistinctPaths
    None = None
    NoFile = NoFile
    TTL = 1
    NChunks = 1
    IOFaults = FALSE
    MaxTime = 2
    MaxResponses = 2
    MaxCrashes = 0
SYMMETRY MCWorkerSymmetry
PROPERTY LookupRemovesExpired

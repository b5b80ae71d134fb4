SPECIFICATION Spec
CONSTANTS
    Clients = {c1}
    Settings <- MCLeaving
    NParts = 2
    MaxAccepts = 2
INVARIANT CachedWhole
CHECK_DEADLOCK FALSE

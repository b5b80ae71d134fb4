SPECIFICATION FairSpec
CONSTANTS
    N = 3
    Clients = {c1, c2}
    Main = main
    None = None
INVARIANTS
    TypeOK
    OneAtATime
    AliveCountExact
    GivesUpOnlyIfAllDead
    RoundRobinFair
PROPERTY EveryRequestDecided

SPECIFICATION FairSpec
CONSTANTS
    NServers = 1
    NClients = 1
    Settings <- MCBuilds
INVARIANTS
    TypeOK
    AllWatched
    RetIsZero
    CountsTheOpen
    ClosesItsOwn
    LeaksNothing
PROPERTY
    GivesUp
CHECK_DEADLOCK FALSE

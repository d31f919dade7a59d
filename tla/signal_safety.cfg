SPECIFICATION Spec
CONSTANTS
    NServers = 1
    NClients = 2
    Models <- MCModels
INVARIANTS
    TypeOK
    NoHoldAndWait
    StartsTogether
PROPERTY
    ImplementsBarrier
CHECK_DEADLOCK FALSE

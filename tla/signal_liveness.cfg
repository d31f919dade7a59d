SPECIFICATION FairSpec
CONSTANTS
    NServers = 1
    NClients = 1
    Models <- MCModels
PROPERTY
    KeepsThePromise
CHECK_DEADLOCK FALSE

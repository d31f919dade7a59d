SPECIFICATION FairSpec
CONSTANTS
    NServers = 2
    NClients = 1
    Tests <- MCTests
    Settings <- MCReverse
    MaxIterations = 1
PROPERTY
    DaemonKeepsAccepting
CHECK_DEADLOCK FALSE

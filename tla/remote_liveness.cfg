SPECIFICATION FairSpec
CONSTANTS
    NServers = 2
    NClients = 1
    Tests <- MCTests
    Settings <- MCLiveness
    MaxIterations = 2
PROPERTIES
    TesterEnds
    DaemonServesOn
    CleanRunsDeliver
CHECK_DEADLOCK FALSE

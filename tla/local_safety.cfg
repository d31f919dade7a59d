SPECIFICATION Spec
CONSTANTS
    NServers = 2
    NClients = 2
    Tests <- MCTests
    Settings <- MCSafetySettings
    Faults = {"setup", "prepare", "create", "server_setup", "server_alloc", "connect", "recv", "slow"}
    MaxIterations = 2
INVARIANTS
    TypeOK
    CountdownsExact
    ClientsFindServers
    GoBarrier
    NobodyMissesTheStop
    CompleteResultsAreReal
    RequestsOutliveThreads
CHECK_DEADLOCK FALSE

SPECIFICATION Spec
CONSTANTS
    NServers = 2
    NClients = 2
    Tests <- MCTests
    Settings <- MCProcessStream
    Faults = {"recv"}
    MaxIterations = 1
INVARIANT
    StopAllStopsAll
CHECK_DEADLOCK FALSE

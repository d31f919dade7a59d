SPECIFICATION Spec
CONSTANTS
    NServers = 2
    NClients = 2
    Tests <- MCTests
    Settings <- MCProcessStream
    Faults = {"create"}
    MaxIterations = 1
INVARIANT
    NobodyLeftBehind
CHECK_DEADLOCK FALSE

SPECIFICATION Spec
CONSTANTS
    NServers = 2
    NClients = 1
    Tests <- MCTests
    Settings <- MCSafety
    MaxIterations = 2
INVARIANTS
    TypeOK
    InStep
    StartsTogether
    SameTest
    CompleteResultsAreReal
CHECK_DEADLOCK FALSE

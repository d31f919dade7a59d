SPECIFICATION Spec
CONSTANTS
    NServers = 2
    NClients = 2
    Tests <- MCTests
    Settings <- MCThreadedStream
    Faults = {"server_setup"}
    MaxIterations = 1
INVARIANT
    AllClientsConnected
CHECK_DEADLOCK FALSE

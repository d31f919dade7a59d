SPECIFICATION FairSpec
CONSTANTS
    NServers = 2
    NClients = 1
    Tests <- MCOneClientTests
    Settings <- MCAllSettings
    Faults = {"setup", "prepare", "create", "server_setup", "accept", "server_alloc", "connect", "client_alloc", "recv", "send", "send_stats", "collect", "slow"}
    MaxIterations = 1
PROPERTIES
    Termination
    CleanRunsDeliver
CHECK_DEADLOCK FALSE

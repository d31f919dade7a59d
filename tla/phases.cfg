SPECIFICATION FairSpec
CONSTANTS
    CommandLines <- MCCommandLines
    Libraries = {"permutes", "getopt.c"}
    Hosts <- MCHosts
    Arguments <- MCArguments
    Ports <- MCPorts
    HeaderSize = 3
    StatsSize = 4
    TextSizes = {1, 3}
    TestsWidth = 3
    MaxTests = 3
    MaxResults = 3
    Durations <- MCDurations
    Starts <- MCStarts
    Delays <- MCDelays
    ClockSteps <- MCForward
    MaxSignals = 2
    MaxWait = 62650
    Sockets = {s1, s2}
    Rates <- MCRates
    Microsecond = 1000000
    Pauses <- MCPauses
    MaxTime = 20
    MaxSends = 24
    Totals <- MCTotals
    WrapAt = 30
    Columns = {0, 1, 3}
    Cut = 10
    Intervals = {13, 30}
    Bounds <- MCBounds
INVARIANTS
    TypeOK
    MeansWhatItSays
    DaemonTakesNothing
    OneRequestPerMask
    PortsApart
    EveryTestIsServed
    OnlyWhatWasSent
    EndsOnTime
    WithinTheRate
    OnTheSafeSide
PROPERTY
    EveryTestEnds
CHECK_DEADLOCK FALSE

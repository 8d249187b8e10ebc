SPECIFICATION Spec
CONSTANTS
    NoProc = "nobody"
    Procs = {"p1", "p2"}
    Ids = {"c1", "c2"}
    Topics = {"a"}
    IdOf <- TwoRunsOfOne
    Prior <- Unordered
    Cuts <- NoPrefix
    Segments = 1
    MAX_CONNECTIONS = 5
    FdLimit = 7
    Typing = {"other"}
    MaxTyped = 2
    UdpLimit = 0
    Pausing = {}
    MaxCommands <- OneEach
CHECK_DEADLOCK FALSE
INVARIANT SubscriptionsMatchCommands

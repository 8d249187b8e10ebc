SPECIFICATION Spec
CONSTANTS
    NoProc = "nobody"
    Procs = {"p1"}
    Ids = {"c1", "c2"}
    Topics = {"a"}
    IdOf <- TwoRunsOfOne
    Prior <- Unordered
    Cuts <- NoPrefix
    Segments = 1
    MAX_CONNECTIONS = 6
    FdLimit = 8
    Typing = {}
    MaxTyped = 0
    UdpLimit = 1
    Pausing = {}
    MaxCommands <- NoCommands
CHECK_DEADLOCK FALSE
PROPERTY FailsOnFailure

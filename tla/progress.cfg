SPECIFICATION FairSpec
CONSTANTS
    NoProc = "nobody"
    Procs = {"p1", "p2"}
    Ids = {"c1", "c2"}
    Topics = {"a"}
    IdOf <- TwoRunsOfOne
    Prior <- Unordered
    Cuts <- NoPrefix
    Segments = 1
    MAX_CONNECTIONS = 5
    FdLimit = 7
    Typing = {"exit", "space", "eof"}
    MaxTyped = 1
    UdpLimit = 1
    Pausing = {"p2"}
    MaxCommands <- NoCommands
CHECK_DEADLOCK FALSE
INVARIANT ReportedReady
PROPERTY RunsFollowServer
PROPERTY ExitObeyed

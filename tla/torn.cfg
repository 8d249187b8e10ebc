SPECIFICATION Spec
CONSTANTS
    NoProc = "nobody"
    Procs = {"p1", "p2"}
    Ids = {"c1", "c12"}
    Topics = {"a", "ab"}
    IdOf <- TwoRunsOfOne
    Prior <- Unordered
    Cuts <- Prefix
    Segments = 2
    MAX_CONNECTIONS = 5
    FdLimit = 7
    Typing = {}
    MaxTyped = 0
    UdpLimit = 0
    Pausing = {}
    MaxCommands <- TwoOfOne
CHECK_DEADLOCK FALSE
INVARIANT RegisteredAsItself
INVARIANT AwaitedPacketsCome
INVARIANT SubscriptionsMatchCommands
PROPERTY ImplementsRegistry
PROPERTY OnlyOwnerChanges

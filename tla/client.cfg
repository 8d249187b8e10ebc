SPECIFICATION Spec
CONSTANTS
    Lines <- TypedLines
    Numbers = {"1"}
    Pieces = 2
    MaxLines = 2
    MaxMessages = 2
CHECK_DEADLOCK FALSE
INVARIANT DoesAsTyped
INVARIANT FirstIntact
INVARIANT PrintsAsSent
INVARIANT ReceivesWhatComes
PROPERTY FollowsServer
PROPERTY InputRead

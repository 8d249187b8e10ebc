SPECIFICATION FairSpec
CONSTANTS
    Addresses = {p1, p2, p3, p4}
    NULL = NULL
    Fds = {4, 5, 6, 7}
    Ids = {c1}
    NoId = none
CHECK_DEADLOCK FALSE
INVARIANT Linked
INVARIANT Owned
INVARIANT NoUseAfterFree
INVARIANT FindsFirst
PROPERTY ImplementsList
PROPERTY CallsReturn

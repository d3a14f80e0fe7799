CONSTANTS
    Server = {n1}
    Call = {k1, p1}
    connections <- MCconnections
    PeerCall = {p1}
    MaxStarts = 3
SPECIFICATION FairSpec
INVARIANT PositiveReplyKept
PROPERTY DeadServerAnswered
CHECK_DEADLOCK FALSE

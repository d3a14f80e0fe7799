CONSTANTS
    Server = {s1, s2}
    c1 = c1
    c2 = c2
    Client = {c1, c2}
    Key = {x}
    Kinds <- MCKinds
    Requests <- KVRequests
    InitState <- EmptyStore
    Apply <- ApplyKV
    Answer <- AnswerKV
    MaxRaftState = 2
    MaxOps = 2
    MaxRepeats = 1
    Restarting = {s1}
    MaxRestarts = 1
SPECIFICATION FairSpec
INVARIANTS ExactlyOnce OnePlace NoSleeperLeft
PROPERTIES Linearizable CallsReturn
CHECK_DEADLOCK FALSE

CONSTANTS
    NShards = 10
    Gid = {1, 2, 3, 4}
    Server = {s1, s2}
    Client = {c1}
    Requests <- MCRequests
    InitState <- NoConfigs
    Apply <- ApplyConfig
    Answer <- AnswerConfig
    MaxRaftState = 0
    Orders <- MCOrders
    MaxOps = 4
    MaxRepeats = 0
    Restarting = {s1}
    MaxRestarts = 1
SPECIFICATION CtrlerSpec
INVARIANTS Balanced NoExchange MovedForCause ReplicasAgree
CHECK_DEADLOCK FALSE

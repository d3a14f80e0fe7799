CONSTANTS
    NShards = 1
    Gid = {1, 2}
    a1 = a1
    a2 = a2
    b1 = b1
    Server = {a1, a2, b1}
    gid <- MCgid
    Poller = {a1, b1}
    Configs <- MCConfigs
    Client = {c1}
    Requests <- MCRequests
    MaxOps = 2
    MaxRepeats = 0
    MaxRaftState = 1
    Restarting = {a2}
    MaxRestarts = 1
SPECIFICATION MovedOnceSpec
INVARIANTS OneOwner ReplicasAgree WritesKept
PROPERTY ConfigsAdopted
CHECK_DEADLOCK FALSE

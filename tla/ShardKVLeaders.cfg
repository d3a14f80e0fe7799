CONSTANTS
    NShards = 1
    Gid = {1, 2}
    a1 = a1
    a2 = a2
    b1 = b1
    Server = {a1, a2, b1}
    gid <- MCgidLeaders
    Poller = {a1, a2, b1}
    Configs <- MCConfigs
    Client = {}
    Requests <- MCRequests
    MaxOps = 0
    MaxRepeats = 0
    MaxRaftState = 0
    Restarting = {}
    MaxRestarts = 0
SPECIFICATION Spec
SYMMETRY Alike
INVARIANT OneOwner
CHECK_DEADLOCK FALSE

CONSTANTS
    s1 = s1
    s2 = s2
    s3 = s3
    v1 = v1
    Nil = Nil
    Value = {v1}
    Server = {s1, s2, s3}
    Candidates = {s1, s2}
    Appliers = {s1, s2}
    Snapshotters = {s1, s2}
    MaxTerm = 2
    MaxIndex = 2
    MaxInFlight = 1
    MaxRestarts = 0
SPECIFICATION TwoLeadersSpec
VIEW RaftView
CHECK_DEADLOCK FALSE
INVARIANT SnapshotReplacesHead

CONSTANTS
    s1 = s1
    s2 = s2
    s3 = s3
    v1 = v1
    Nil = Nil
    Value = {v1}
    Server = {s1, s2, s3}
    Candidates = {s1, s2}
    Appliers = {s2, s3}
    Snapshotters = {s2, s3}
    MaxTerm = 2
    MaxIndex = 2
    MaxInFlight = 1
    MaxRestarts = 1
SPECIFICATION SuccessionSpec
VIEW RaftView
CHECK_DEADLOCK FALSE
INVARIANTS NothingUnsaved LogCoversApplied OverlapAgreesWithSnapshot ApplyInOrder NoLostWakeup
PROPERTIES ImplementsReplicatedLog

CONSTANTS
    s1 = s1
    s2 = s2
    s3 = s3
    v1 = v1
    Nil = Nil
    Value = {v1}
    Server = {s1, s2, s3}
    Candidates = {s1, s2}
    Appliers = {}
    Snapshotters = {}
    MaxTerm = 2
    MaxIndex = 0
    MaxInFlight = 3
    MaxRestarts = 1
SPECIFICATION Spec
SYMMETRY CandidateSymmetry
VIEW RaftView
CHECK_DEADLOCK FALSE
INVARIANTS TypeOK ElectionSafety NothingUnsaved

CONSTANTS
    s1 = s1
    s2 = s2
    s3 = s3
    v1 = v1
    Nil = Nil
    Value = {v1}
    Server = {s1, s2, s3}
    Candidates = {s1, s2}
    Appliers = {}
    Snapshotters = {}
    MaxTerm = 4
    MaxIndex = 2
    MaxInFlight = 2
    MaxRestarts = 0
SPECIFICATION Figure8Spec
VIEW RaftView
CHECK_DEADLOCK FALSE
INVARIANTS LogMatching CommittedAgree LeaderCompleteness MatchIndexSound NextIndexSound
PROPERTIES LeaderAppendOnly CommitMonotonic

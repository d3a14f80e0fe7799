SPECIFICATION Spec
CONSTANTS
    MaxTime = 3
    Timeouts = TRUE
    Histories <- MCHistories
INVARIANT VerdictRight
INVARIANT ListRestored

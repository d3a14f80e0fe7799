CONSTANTS
    Worker = {w1, w2}
    NMap = 2
    NReduce = 2
SPECIFICATION FairSpec
CHECK_DEADLOCK FALSE
INVARIANTS TypeOK NoMissingInput OutputComplete NoLostWakeup OneTimeout
PROPERTIES FinishedForGood JobEnds

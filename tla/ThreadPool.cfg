CONSTANTS
    Workers = {w1, w2, w3}
    Callers = {c1, c2, c3}
    queue_max_num = 2
    MaxJobs = 5
SPECIFICATION FairSpec
INVARIANT WakeupsNotLost
INVARIANT FifoExactlyOnce
INVARIANT DrainedBeforeFree
PROPERTY EveryJobRuns
PROPERTY DestroyReturns

SPECIFICATION FairSpec
CONSTANTS
    Writer = {w1}
    Reader = {r1, r2}
    MaxBatch = 1
    CacheLimit = 1
    Failures = {"TIMEOUT"}
    MayStop = TRUE
    MaxTerm = 1
    MaxLog = 0
PROPERTIES
    AllAnswered
    StopReturns
CHECK_DEADLOCK FALSE

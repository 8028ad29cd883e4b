SPECIFICATION Spec
CONSTANTS
    Writer = {w1, w2}
    Reader = {r1}
    MaxBatch = 2
    CacheLimit = 2
    Failures = {"TIMEOUT"}
    MayStop = FALSE
    MaxTerm = 2
    MaxLog = 2
SYMMETRY Symmetry

    
    
PROPERTIES
    AnsweredOnce
CHECK_DEADLOCK FALSE

CONSTANTS
    Entry = {a, b}
    MaxIndex = 4
    MaxPack = 2
    MaxFrames = 6
    Faults = {"write", "rewrite"}
    FailStop = TRUE
    OrderedWriteback = FALSE
    SyncedRestart = TRUE
SPECIFICATION Spec
INVARIANTS
    PendingIsTail
    
    
PROPERTIES
    RecoveryKeepsPromise
    ImplementsDurableLog
\* the node stays down once the loader has refused the file
CHECK_DEADLOCK FALSE

CONSTANTS
    Entry = {a, b}
    MaxIndex = 3
    MaxPack = 2
    MaxFrames = 5
    Faults = {"write", "rewrite"}
    FailStop = TRUE
    OrderedWriteback = FALSE
    SyncedRestart = TRUE
SPECIFICATION Spec
INVARIANTS
    NeverRefused
CHECK_DEADLOCK FALSE

SPECIFICATION Spec
CONSTANTS
    Thread = {t1, t2}
    Node = {n1, n2}
    NoVote = NoVote
    NoFile = NoFile
    FailStop = TRUE
    SyncedRestart = TRUE
    MaxTerm = 2
    MaxConfig = 1
SYMMETRY Symmetry
INVARIANTS
    OneVotePerTerm
    StateRemembered
    ConfigRemembered
    NeverRefused
CHECK_DEADLOCK FALSE

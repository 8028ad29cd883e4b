SPECIFICATION FairSpec
CONSTANTS
    k1 = k1
    abc = abc
    plus1 = plus1
    c1 = c1
    Key = {k1}
    Text = {abc}
    MinInt <- MCMinInt
    MaxInt = 2
    Spelling <- MCSpelling
    Absent = Absent
    Client = {c1}
    NoClient = NoClient
    Commands <- MCCommands
    CacheLimit = 2
    Reserved = 1
    Distance = 1
    Overlap = FALSE
    MaxLog = 3
    MaxCrashes = 2
INVARIANTS
    TypeOK
    StateIsReplay
    ResultsAreExpected
    ReplayPossible
    
PROPERTIES
    NeverRegresses
    CatchesUp
CHECK_DEADLOCK FALSE

SPECIFICATION Spec
CONSTANTS
    k1 = k1
    abc = abc
    plus1 = plus1
    c1 = c1
    Key = {k1}
    Text = {abc}
    MinInt <- MCMinInt
    MaxInt = 2
    Spelling <- MCSpelling
    Absent = Absent
    Client = {c1}
    NoClient = NoClient
    Commands <- MCAllCommands
    CacheLimit = 2
    Reserved = 1
    Distance = 1
    Overlap = TRUE
    MaxLog = 3
    MaxCrashes = 1
INVARIANTS
    
    ExactlyOnce
    
CHECK_DEADLOCK FALSE

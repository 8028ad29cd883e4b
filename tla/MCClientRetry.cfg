SPECIFICATION FairSpec
CONSTANTS
    Key = {k1}
    Text = {}
    MinInt <- MCMinInt
    MaxInt = 4
    Spelling <- MCSpelling
    Absent = Absent
    Client = {c1}
    NoClient = NoClient
    TheClient = c1
    TheKey = k1
    Attempts = 2
    MaxCalls = 2
INVARIANTS
    AtMostOnce
    ResultIsOwn

    
CHECK_DEADLOCK FALSE

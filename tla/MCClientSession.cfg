CONSTANTS
    MaxRequestSize = 64
    MaxDepth = 2
    MaxResponseSize = 64
    Chunk = {1, 7, 40, 70}
    Script <- MCScript
    Requirepass <- MCRequirepass
    Value <- MCValue
    Endpoint <- MCEndpoint
SPECIFICATION Spec
INVARIANTS
    ServedInOrder
    RefusedForCause
    NothingLeftWaiting
    OnlyAuthenticated
    AnswerUnderstood
    LoggedAsWritten
CHECK_DEADLOCK FALSE

SPECIFICATION Spec
CONSTANTS
    Node = {leader, n1, n2, learner}
    Learner = {learner}
    Leader = leader
    Request = {get1}
    Lower = 5
    Heartbeat = 3
    MaxDelay = 4
    Drift = 0
    NoAnswer = NoAnswer
SYMMETRY Symmetry
INVARIANTS
    NoStaleRead
CHECK_DEADLOCK FALSE

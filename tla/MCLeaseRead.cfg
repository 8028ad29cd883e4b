SPECIFICATION Spec
CONSTANTS
    Node = {leader, n1, n2, learner}
    Learner = {learner}
    Leader = leader
    Request = {get1}
    Lower = 5
    Heartbeat = 3
    MaxDelay = 1
    Drift = 1
    NoAnswer = NoAnswer
SYMMETRY Symmetry
INVARIANTS
    LeaseExcludesElection
    NoStaleRead
CHECK_DEADLOCK FALSE

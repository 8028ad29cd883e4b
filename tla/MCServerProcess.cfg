CONSTANTS
    Session = {s1, s2, s3}
    MaxConnections = 2
    File <- MCFile
    Environment <- MCEnvironment
SPECIFICATION ProcessSpec
INVARIANTS
    WithinLimit
    NodeOutlivesRequests
    FieldsAsWritten
    ConfigFits
PROPERTIES
    ProcessEnds
CHECK_DEADLOCK FALSE

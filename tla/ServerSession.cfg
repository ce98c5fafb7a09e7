SPECIFICATION ServerFairSpec
INVARIANTS
    GateFirst
    AnswersInOrder
    RecordHonest
PROPERTY SessionEnds
CONSTANTS
    Profile <- MCProfile
    Groups <- MCGroups
    SuiteKeys <- MCSuiteKeys
    PqNamed <- MCPqNamed
    WantClientCert = TRUE
    Insecure = FALSE
    MaxMessages = 2
    Oversized = {"echo"}
    Sends = {"ping", "echo", "telemetry", "close", "error", "malformed", "bad length", "truncated"}
    MaxSent = 3
    MaxReads = 2
CHECK_DEADLOCK FALSE

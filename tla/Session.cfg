SPECIFICATION FairSpec
INVARIANTS
    BothAgree
    ResponsesMatch
    ProtocolErrorExplained
    NeverBothWait
PROPERTIES
    ImplementsServerSpec
    BothEnd
CONSTANTS
    Profile <- MCProfile
    ClientProfile <- MCClientProfile
    Groups <- MCGroups
    SuiteKeys <- MCSuiteKeys
    PqNamed <- MCPqNamed
    Workloads <- MCWorkloads
    WantClientCert = FALSE
    Insecure = FALSE
    ClientInsecure = FALSE
    MaxMessages = 2
    Oversized = {"echo"}
    TooLong = {"acknowledgement"}
    TooLongReply = {"capabilities"}
    Sends = {"ping", "echo", "telemetry", "capabilities", "close", "error", "pong", "acknowledgement", "bad length"}
    MaxSent = 3
    MaxReads = 2
CHECK_DEADLOCK FALSE

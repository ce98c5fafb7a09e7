SPECIFICATION CapabilitiesSpec
CONSTANTS
    SuiteKeys <- MCSuiteKeys
    Definitions <- Nodes
    MaxNodes = 2
    Hosts <- SomeHosts
INVARIANTS LastWins UsableIsApplicable
CHECK_DEADLOCK FALSE

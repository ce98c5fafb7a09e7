SPECIFICATION FairSpec
CONSTANTS
    Conns = {c1, c2, c3}
    Workers = {w1, w2}
    MaxConnections = 2
    MaxDeaths = 2
    None = None
INVARIANTS
    Ownership
    CountersAddUp
    CleanShutdown
    WakeupsCoverQueue
    StopOnLiveServer
PROPERTIES
    RefusesOnlyBusy
    ConnectionsEnd
    RepeatedStopReturns

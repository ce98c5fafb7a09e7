SPECIFICATION FairSpec
CONSTANTS
    Conns = {c1, c2}
    Workers = {w1, w2}
    MaxConnections = 2
    MaxDeaths = 0
    None = None
PROPERTIES
    StopReturns

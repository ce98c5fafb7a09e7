SPECIFICATION FairSpec
CONSTANTS
    Connections = 3
    Concurrency = 2
    Warmups = 2
    ReuseSession = TRUE
    MaxDeaths = 2
INVARIANTS Conservation SummaryRight
PROPERTY BenchmarkEnds

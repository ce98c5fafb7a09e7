SPECIFICATION FairSpec
CONSTANTS
  Matrix <- MCMatrix
  Availability = {{}, {"classical", "hybrid"}}
  Ids = {"a"}
  Warmups = 1
  Connections = 1
  MaxRuns = 2
  MaxCrashes = 1
  Nobody = Nobody
CHECK_DEADLOCK FALSE
INVARIANTS StaleOnlyAfterCrash ManifestRight
PROPERTY HarnessEnds

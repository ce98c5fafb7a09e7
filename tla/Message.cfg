SPECIFICATION MessageSpec
CONSTANTS
  kMaxJsonDepth = 3
  MaxId = 128
  IntModulus = 256
  Versions <- MCVersions
  Rests <- MCRests
  Absent = Absent
  Wrong = Wrong
  Rejected = Rejected
  Nothing = Nothing
  Bytes <- MCBytes
  MaxLen = 4
CHECK_DEADLOCK FALSE
INVARIANTS RequestUnchanged RepliesUnderstood MatchesTable

SPECIFICATION NetemSpec
CONSTANTS
  Interfaces = {lo, veth}
  Mtus = {1280, 1500}
  Original = 1500
  NoFile = NoFile
  Torn = Torn
INVARIANT ShapedIsListed
PROPERTIES OneApplyIsUndone ChangeIsCovered

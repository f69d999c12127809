CONSTANTS
  HeadLen = 2
  DefaultSize = 2
  Modulus = 6
  UpLens = {0, 1}
  DownLens = {1, 2}
  Space = 2
  MaxUp = 1
  MaxDown = 2
  MaxDepth = 3
  NoMsg = NoMsg
SPECIFICATION Spec
CHECK_DEADLOCK FALSE
INVARIANT HandedOverWhole

CONSTANTS
  HeadLen = 2
  DefaultSize = 2
  Modulus = 6
  UpLens = {1}
  DownLens = {1, 4}
  Space = 2
  MaxUp = 2
  MaxDown = 2
  MaxDepth = 3
  NoMsg = NoMsg
SPECIFICATION FairSpec
CHECK_DEADLOCK FALSE
INVARIANTS InOrder WithinBuffer OutputArmed
PROPERTY NothingStuck


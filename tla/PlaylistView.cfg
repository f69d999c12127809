CONSTANTS
  Songs = {a, b}
  MaxLen = 3
  MaxChanges = 1
  MaxUser = 2
SPECIFICATION FairSpec
CHECK_DEADLOCK FALSE
INVARIANTS InStep NoException
PROPERTIES DeletesSeen Settles

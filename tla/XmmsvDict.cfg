CONSTANTS
  Keys = {1, 2, 3, 4}
  Vals = {a, b}
  Its = {x, y}
  Tmp = Tmp
  Fails = {"insert"}
  Careful = TRUE
  Junk = Junk
SPECIFICATION Spec
CHECK_DEADLOCK FALSE
INVARIANT Consistent
PROPERTIES NoSkip Implements

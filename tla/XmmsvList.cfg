CONSTANTS
  Values = {i1, s1}
  Ints = {i1}
  Its = {x, y}
  MaxInserts = 3
  Junk = Junk
SPECIFICATION Spec
CHECK_DEADLOCK FALSE
INVARIANTS ValueRefs Compact
PROPERTY Implements

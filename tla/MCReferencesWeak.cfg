CONSTANTS
  Refs = {r1, r2, r3}
  Vals = {v1}
  NoVal = none
  MaxCount = 2
  MaxDepth = 2
  MaxHeld = 3
SPECIFICATION Spec
SYMMETRY Symmetry
CHECK_DEADLOCK FALSE
INVARIANTS NotFreedTwice

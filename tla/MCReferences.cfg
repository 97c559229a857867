CONSTANTS
  Refs = {r1, r2, r3, r4}
  Vals = {v1, v2}
  NoVal = none
  MaxCount = 2
  MaxDepth = 2
  MaxHeld = 4
SPECIFICATION Spec
SYMMETRY Symmetry
CHECK_DEADLOCK FALSE
INVARIANTS TypeOK ContextCounted ValuesHeld RefsSound
PROPERTIES TouchesLiving

CONSTANTS
  Scopes = {s1, s2}
  NULL = NULL
  Objects = {o1}
  Errors = {e1}
  Immediate = immediate
  FixedSize = 1
  MaxSlots = 1
  MaxRefs = 2
  MaxDepth = 4
  MaxJobs = 2
  ScriptInFinalizers = FALSE
SPECIFICATION Spec
SYMMETRY Symmetry
INVARIANTS AllReleased

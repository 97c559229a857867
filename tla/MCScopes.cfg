CONSTANTS
  Scopes = {s1, s2}
  NULL = NULL
  Objects = {o1}
  Errors = {e1}
  Immediate = immediate
  FixedSize = 1
  MaxSlots = 2
  MaxRefs = 2
  MaxDepth = 4
  MaxJobs = 2
  ScriptInFinalizers = TRUE
SPECIFICATION Spec
SYMMETRY Symmetry
INVARIANTS TypeOK ScopeList Accounted RunToCompletion JobsInOrder SlotAwaits
PROPERTIES CaughtAlive StackSpec

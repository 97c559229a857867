CONSTANTS
  Scopes = {s1, s2}
  NULL = NULL
  Objects = {o1}
  Errors = {}
  Immediate = immediate
  FixedSize = 1
  MaxSlots = 1
  MaxRefs = 1
  MaxDepth = 3
  MaxJobs = 1
  ScriptInFinalizers = FALSE
SPECIFICATION FairSpec
PROPERTIES CloseReturns

SPECIFICATION FairSpec
CONSTANTS
  Ptrs = {p1}
  NullPtr = null
  TypeIds = {A, U}
  PtrType = Ptr
  Registered = {A}
  Finalizable = {A}
  Traced = {A}
  Wrappers = {w1, w2, w3}
  Nobody = nobody
  MaxRefs = 1
  MaxDepth = 1
  Contract = {"fresh", "quiet"}
INVARIANTS
  CacheSound
  NodePerWrapper
PROPERTIES
  FreeingEnds

CONSTANTS
  Ptrs = {p1}
  NullPtr = null
  TypeIds = {A, B}
  Registered = {A, B}
  Finalizable = {A}
  Traced = {A, B}
  PtrType = Ptr
  Wrappers = {w1, w2, w3}
  Nobody = nobody
  MaxRefs = 1
  MaxDepth = 1
  Contract = {"fresh", "quiet", "released", "linked"}
SPECIFICATION Spec
SYMMETRY Symmetry
INVARIANTS ExitUserData

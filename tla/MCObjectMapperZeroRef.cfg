CONSTANTS
  Ptrs = {p1, p2}
  NullPtr = null
  TypeIds = {A}
  Registered = {A}
  Finalizable = {A}
  Traced = {A}
  PtrType = Ptr
  Wrappers = {w1, w2, w3}
  Nobody = nobody
  MaxRefs = 1
  MaxDepth = 1
  Contract = {"fresh", "single", "released", "linked"}
SPECIFICATION Spec
SYMMETRY Symmetry
INVARIANTS ZeroRefAssert

CONSTANTS
  Ptrs = {p1, p2}
  NullPtr = null
  TypeIds = {A, B}
  Registered = {A, B}
  Finalizable = {A, B}
  Traced = {A, B}
  PtrType = Ptr
  Wrappers = {w1, w2, w3}
  Nobody = nobody
  MaxRefs = 2
  MaxDepth = 2
  Contract = {"fresh", "single", "quiet", "released", "linked"}
SPECIFICATION Spec
SYMMETRY Symmetry
INVARIANTS TypeOK NoDanglingRef UserDataKept DestroyReleasesAll
PROPERTIES HooksPaired

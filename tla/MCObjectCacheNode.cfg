CONSTANTS
  Ptrs = {p1, p2}
  TypeIds = {T1, T2}
  Values = {v1, v2}
  Addrs = {a1, a2}
  NULL = NULL
SPECIFICATION FairSpec
INVARIANTS TypeOK MemorySound
PROPERTIES ImplementsChain WalkEnds

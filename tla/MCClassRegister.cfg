SPECIFICATION FairSpec
CONSTANTS
  TypeIds = {A, B}
  PtrType = Ptr
  Names = {m, n}
  Defs = {d1, d2, d3}
  PtrDef = ptr
  Ctors = {k1, k2, k3}
  Objs = {o1}
  None = none
  MaxDepth = 1
  Contract = {"idle", "named", "acyclic", "shy", "honest", "early"}
INVARIANTS
  TypeOK
  DefinitionsAlive
  NamesAlive
  OneConstructor
PROPERTIES
  SuperLinked
  ExitMatchesEnter
  CreationReturns

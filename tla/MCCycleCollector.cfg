SPECIFICATION FairSpec
CONSTANTS
  Values = {a, b}
  Parts = {s, t}
  MaxHeld = 1
INVARIANTS
  TypeOK
  ReachableKept
  CollectsExactlyGarbage
  Counted
  AssertionsHold
  NoDanglingEdge
PROPERTIES
  EngineReturns

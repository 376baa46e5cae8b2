CONSTANTS
  Nodes = {n1, n2, n3, n4}
  Root = root
  Nil = nil
  Keys = {k1, k2, k3, k4}
  Values = {v1, v2}
  Capacity = 3
  None = none
  Refused = refused
  Panic = panic
SYMMETRY HeapSymmetry
SPECIFICATION Spec
INVARIANTS
  TypeOK
  ListIntact
  MapMatchesList
  SizeBounded
  NoPanic
  FlushLoopEmpties
PROPERTIES
  KeepsBoundedMap
  KeepsLruOrder

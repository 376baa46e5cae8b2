CONSTANTS
  Threads = {t1, t2, t3}
  Nodes = {n1, n2, n3, n4, n5}
  Root = root
  Nil = nil
SYMMETRY ThreadSymmetry
SPECIFICATION Spec
INVARIANTS
  TypeOK
  ListIntact
  ReturnedOnce
  Accounted
  BackNeverRefuses
CHECK_DEADLOCK FALSE

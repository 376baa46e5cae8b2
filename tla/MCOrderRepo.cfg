CONSTANTS
  HalfWord = 512
  HalfColumn = 4
  Uids = {"u0", "u1", "u2", "u3", "u4", "u5"}
  Tracks = {"t0", "t1", "t3", "t4", "t5"}
  ChrtIds = {10, 11, 12, 13, 14, 15}
  Messages <- MCMessages
  Content <- MCContent
  PoolSizes = {1, 2}
  MaxDeliveryId = 3
  None = none
  Ok = ok
  Error = error
SPECIFICATION Spec
INVARIANTS
  TypeOK
  StoredWhole
  StoredTotalsAddUp
  OneConnectionStoresNothing
PROPERTIES
  CommittedRowsStay
  KeepsOrderStore

CONSTANTS
  Orders = {o1, o2}
  Versions = {v1, v2}
  Readers = {r1, r2}
  Writers = {w1}
  Capacity = 1
  None = none
  MaxRequests = 2
  TripAt = 2
  Ok = ok
  Error = error
  Rejected = rejected
SPECIFICATION Spec
INVARIANT
  AcceptedIsStored

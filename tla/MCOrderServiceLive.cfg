CONSTANTS
  Orders = {o1}
  Versions = {v1, v2}
  Readers = {r1}
  Writers = {w1, w2}
  Capacity = 1
  None = none
  MaxRequests = 2
  TripAt = 2
  Ok = ok
  Error = error
  Rejected = rejected
SPECIFICATION LiveSpec
PROPERTIES
  CallsReturn
  CallsAreAtomic

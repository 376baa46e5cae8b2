CONSTANTS
  Conns = {c1, c2}
  WriteTimeout = 30
  RequestTimeout = 30
  None = none
  Timeout = timeout
SPECIFICATION LiveSpec
INVARIANTS
  TypeOK
  DeliveredIsTheHandlers
PROPERTIES
  RequestsReturn

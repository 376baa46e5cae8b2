CONSTANTS
  MaxLog = 2
  MaxStarts = 2
  MaxCrashes = 1
  MaxRequests = 1
  MaxFailers = 0
  TimeoutSet = FALSE
  Faults = {malformed, invalid}
SYMMETRY Symmetry
CHECK_DEADLOCK FALSE
SPECIFICATION Spec
INVARIANT OneLoop

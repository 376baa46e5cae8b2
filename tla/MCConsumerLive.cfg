CONSTANTS
  MaxLog = 2
  MaxStarts = 1
  MaxCrashes = 1
  MaxRequests = 1
  MaxFailers = 2
  TimeoutSet = TRUE
  Faults = {invalid}
CHECK_DEADLOCK FALSE
SPECIFICATION LiveSpec
PROPERTIES
  MessagesAreHandled

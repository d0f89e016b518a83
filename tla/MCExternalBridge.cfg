CONSTANTS
  Requests <- MCRequests
  Nics = {"e0", "e1"}
  MaxCleanups = 2
SPECIFICATION ExtSpec
INVARIANTS Restored Untouched NothingLeft
CHECK_DEADLOCK FALSE

SPECIFICATION Spec
CONSTANTS
  Rows = {"m1", "m2"}
  Entry <- MCEntry
  Runs = {u1}
  Overrides = {}
  BatchLimit = 2
  MaxFaults = 1
INVARIANT FailedRowsAreKept
CHECK_DEADLOCK FALSE

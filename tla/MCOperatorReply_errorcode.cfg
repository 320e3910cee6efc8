SPECIFICATION Spec
CONSTANTS
  NoReceipt = NoReceipt
  Id <- UuidOrder
  NReplies = 1
  Workers = {w1}
  Hooks = {h1}
  MaxAttempts = 1
  MaxReplies = 1
  PageSize = 1
  Callbacks = {"FAILED_FINAL"}
  MaxClaims = 1
  MaxBatch = 1
  MaxFaults = 0
INVARIANT FailureCodeKept

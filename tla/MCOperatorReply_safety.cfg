SPECIFICATION Spec
CONSTANTS
  NoReceipt = NoReceipt
  Id <- UuidOrder
  NReplies = 1
  Workers = {w1, w2}
  Hooks = {h1}
  MaxAttempts = 2
  MaxReplies = 1
  PageSize = 2
  Callbacks = {"DELIVERED", "FAILED_FINAL"}
  MaxClaims = 2
  MaxBatch = 2
  MaxFaults = 1
SYMMETRY WorkerSymmetry
INVARIANTS TypeOK ClaimExclusive NoReceiptLost RestIsHonest
PROPERTIES ResendOnlyAfterLostLease ImplementsPromise

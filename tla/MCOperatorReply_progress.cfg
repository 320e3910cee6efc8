SPECIFICATION FairSpec
CONSTANTS
  NoReceipt = NoReceipt
  Id <- UuidOrder
  NReplies = 1
  Workers = {w1, w2}
  Hooks = {h1}
  MaxAttempts = 2
  MaxReplies = 1
  PageSize = 1
  Callbacks = {"DELIVERED"}
  MaxClaims = 3
  MaxBatch = 1
  MaxFaults = 1
INVARIANTS FailuresBounded
PROPERTIES EveryReplySettles EveryReceiptReflected

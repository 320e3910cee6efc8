SPECIFICATION Spec
CONSTANTS
  Messages = {"album", "anonymous", "note", "dispute", "echo", "orphan", "noise", "video", "loosenote", "order", "chat"}
  Requests = {"r1", "r2", "r3", "r4", "r5", "r6", "r7", "r8", "r9", "r10"}
  Workers = {w1, w2}
  Senders = {"s1", "s2"}
  Trait <- MCTrait
  Payload <- MCPayload
  Traffic <- MCTraffic
  MaxFaults = 1
INVARIANTS AcknowledgedIsDurable OneEffectPerMessage
PROPERTIES RequestsAreAcknowledged
CHECK_DEADLOCK FALSE

SPECIFICATION Spec
CONSTANTS
  NoJob = NoJob
  Packets = {p1}
  OpenPackets = {p1}
  LegacyPackets = {p1}
  Workers = {w1, w2}
  OperatorKeys = {k1}
  Budget = 2
  ModelBudget = 1
  MaxMessages = 2
  MaxContexts = 0
  MaxBlocks = 1
  MaxLegacyAttempts = 1
SYMMETRY Symmetry
CHECK_DEADLOCK FALSE
INVARIANTS OpenEntryIsStopped AttemptsBounded
PROPERTIES TerminationsAudited LegacyStoppedByOperatorOnly

SPECIFICATION FairSpec
CONSTANTS
  NoJob = NoJob
  Packets = {p1}
  OpenPackets = {p1}
  LegacyPackets = {}
  Workers = {w1, w2}
  OperatorKeys = {}
  Budget = 2
  ModelBudget = 1
  MaxMessages = 2
  MaxContexts = 0
  MaxBlocks = 0
  MaxLegacyAttempts = 0
CHECK_DEADLOCK FALSE
INVARIANTS TypeOK LeaseExclusive ConclusionMatchesClaim EvidenceConsidered
PROPERTIES EveryPacketHasCase

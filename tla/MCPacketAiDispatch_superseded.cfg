SPECIFICATION FairSpec
CONSTANTS
  NoJob = NoJob
  Packets = {p1}
  OpenPackets = {}
  LegacyPackets = {}
  Workers = {w1}
  OperatorKeys = {}
  Budget = 1
  ModelBudget = 1
  MaxMessages = 1
  MaxContexts = 2
  MaxBlocks = 0
  MaxLegacyAttempts = 0

CHECK_DEADLOCK FALSE

PROPERTIES EveryJobSettles

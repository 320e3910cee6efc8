SPECIFICATION Spec
CONSTANTS
  NoJob = NoJob
  Packets = {p1}
  OpenPackets = {p1}
  LegacyPackets = {}
  Workers = {w1, w2}
  OperatorKeys = {}
  Budget = 1
  ModelBudget = 1
  MaxMessages = 1
  MaxContexts = 2
  MaxBlocks = 0
  MaxLegacyAttempts = 0
SYMMETRY Symmetry
CHECK_DEADLOCK FALSE

PROPERTIES SupersededNeverCompletes ImplementsDuty

SPECIFICATION Spec
CONSTANTS
  NoJob = NoJob
  Packets = {p1}
  OpenPackets = {p1}
  LegacyPackets = {}
  Workers = {w1}
  OperatorKeys = {}
  Budget = 2
  ModelBudget = 1
  MaxMessages = 1
  MaxContexts = 0
  MaxBlocks = 0
  MaxLegacyAttempts = 0
SYMMETRY Symmetry
CHECK_DEADLOCK FALSE
INVARIANTS ReviewHasTask


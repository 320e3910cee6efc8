SPECIFICATION FairSpec
CONSTANTS
  Focus = {"provision", "inbox"}
  None = None
PROPERTIES RetriesConverge InboxCatchesUp
CHECK_DEADLOCK FALSE

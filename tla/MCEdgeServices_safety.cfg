SPECIFICATION Spec
CONSTANTS
  Focus = {"notify", "provision", "session", "inbox", "identity", "bi_monthly", "rescue", "interpretation", "reconciliation", "resolution", "retry", "certification"}
  None = None
INVARIANTS EdgeTypeOK ToldOnce OutcomesAreTrue ProvisioningIsSafe BoundIsKept CluesDecide LedgerTellsTheTruth QuestionsFitTheLease ResultsAreProven LossesAreOnRecord RowOrderIsIrrelevant BudgetIsKept VerdictIsEarned NothingIsPassedBy
CHECK_DEADLOCK FALSE

------------------------- MODULE EdgeServicesProofs -------------------------
(***************************************************************************)
(* The services that share a run, each proved for all values of its          *)
(* constants in a module of its own: a behaviour of MCEdgeServices is a      *)
(* behaviour of the service in focus, so the run's properties follow from    *)
(* the services' theorems.                                                   *)
(***************************************************************************)
EXTENDS MCEdgeServices, TLAPS

\* A behaviour stays with its service.
LEMMA FocusStays == [Next]_pool => focus' = focus
<1> SUFFICES ASSUME [Next]_pool PROVE focus' = focus OBVIOUS
<1>1. CASE NotifyNext BY <1>1 DEF NotifyNext, Notify
<1>2. CASE ProvisionNext BY <1>2 DEF ProvisionNext, Provision
<1>3. CASE SessionNext BY <1>3 DEF SessionNext, Session
<1>4. CASE InboxNext BY <1>4 DEF InboxNext, Inbox
<1>5. CASE IdentityNext BY <1>5 DEF IdentityNext, Identity
<1>6. CASE LedgerNext BY <1>6 DEF LedgerNext, Ledger
<1>7. CASE InterpretationNext BY <1>7 DEF InterpretationNext, Interpretation
<1>8. CASE ReconciliationNext BY <1>8 DEF ReconciliationNext, Reconciliation
<1>9. CASE ResolutionNext BY <1>9 DEF ResolutionNext, Resolution
<1>10. CASE RetryNext BY <1>10 DEF RetryNext, Retry
<1>11. CASE CertificationNext BY <1>11 DEF CertificationNext, Certification
<1>12. CASE UNCHANGED pool BY <1>12 DEF pool
<1> QED BY <1>1, <1>2, <1>3, <1>4, <1>5, <1>6, <1>7, <1>8, <1>9, <1>10, <1>11, <1>12 DEF Next

\* Each disjunct of Next belongs to the service it names.
LEMMA StepsAreFocused ==
  ASSUME Next
  PROVE  \/ focus = "notify" /\ NotifyNext
         \/ focus \in LedgerKinds /\ LedgerNext
         \/ focus = "interpretation" /\ InterpretationNext
         \/ focus = "retry" /\ RetryNext
         \/ focus = "session" /\ SessionNext
         \/ focus = "identity" /\ IdentityNext
         \/ focus = "provision" /\ ProvisionNext
         \/ focus = "reconciliation" /\ ReconciliationNext
         \/ focus = "certification" /\ CertificationNext
         \/ focus = "inbox" /\ InboxNext
         \/ focus = "resolution" /\ ResolutionNext
<1>1. CASE NotifyNext BY <1>1 DEF NotifyNext, Notify
<1>2. CASE ProvisionNext BY <1>2 DEF ProvisionNext, Provision
<1>3. CASE SessionNext BY <1>3 DEF SessionNext, Session
<1>4. CASE InboxNext BY <1>4 DEF InboxNext, Inbox
<1>5. CASE IdentityNext BY <1>5 DEF IdentityNext, Identity
<1>6. CASE LedgerNext BY <1>6 DEF LedgerNext, Ledger
<1>7. CASE InterpretationNext BY <1>7 DEF InterpretationNext, Interpretation
<1>8. CASE ReconciliationNext BY <1>8 DEF ReconciliationNext, Reconciliation
<1>9. CASE ResolutionNext BY <1>9 DEF ResolutionNext, Resolution
<1>10. CASE RetryNext BY <1>10 DEF RetryNext, Retry
<1>11. CASE CertificationNext BY <1>11 DEF CertificationNext, Certification
<1> QED BY <1>1, <1>2, <1>3, <1>4, <1>5, <1>6, <1>7, <1>8, <1>9, <1>10, <1>11 DEF Next
-----------------------------------------------------------------------------
(* notify-event.                                                             *)

LEMMA NotifyStarts == focus = "notify" /\ Init => N!Init
  BY DEF Init, LedgerKinds

LEMMA NotifyMoves == focus = "notify" /\ [Next]_pool => [N!Next]_(N!vars)
<1> SUFFICES ASSUME focus = "notify", [Next]_pool PROVE [N!Next]_(N!vars) OBVIOUS
<1>1. CASE NotifyNext BY <1>1 DEF NotifyNext, N!Next
<1>2. CASE UNCHANGED pool BY <1>2 DEF pool, N!vars
<1> QED BY <1>1, <1>2, StepsAreFocused DEF LedgerKinds

LEMMA NotifyStays ==
  /\ focus = "notify" /\ [Next]_pool => (focus = "notify")'
  /\ ~(focus = "notify") /\ [Next]_pool => (~(focus = "notify"))'
  BY FocusStays DEF LedgerKinds

LEMMA NotifyRuns == Spec /\ focus = "notify" => N!Spec
  BY NotifyStays, NotifyStarts, NotifyMoves, PTL DEF Spec, N!Spec

\* A customer is told once per channel, with the text on record.
THEOREM RunTellsOnce == Spec => []ToldOnce
<1>1. N!Spec => []N!ToldOnce BY N!CustomersToldOnce, EdgeAssumption
<1>2. (N!ToldOnce => ToldOnce) /\ (~(focus = "notify") => ToldOnce) BY DEF ToldOnce
<1> QED BY <1>1, <1>2, NotifyStays, NotifyRuns, PTL DEF Spec

\* What notify-event reports as sent, or has given up, is true and on record.
THEOREM RunReportsTruly == Spec => []OutcomesAreTrue
<1>1. N!Spec => []N!OutcomesAreTrue BY N!OutcomesStayTrue, EdgeAssumption
<1>2. (N!OutcomesAreTrue => OutcomesAreTrue) /\ (~(focus = "notify") => OutcomesAreTrue) BY DEF OutcomesAreTrue
<1> QED BY <1>1, <1>2, NotifyStays, NotifyRuns, PTL DEF Spec
-----------------------------------------------------------------------------
(* Account statements.                                                       *)

LEMMA LedgerStarts == focus \in LedgerKinds /\ Init => L!Init
  BY DEF Init, LedgerKinds

LEMMA LedgerMoves == focus \in LedgerKinds /\ [Next]_pool => [L!Next]_(L!vars)
<1> SUFFICES ASSUME focus \in LedgerKinds, [Next]_pool PROVE [L!Next]_(L!vars) OBVIOUS
<1>1. CASE LedgerNext BY <1>1 DEF LedgerNext, L!Next
<1>2. CASE UNCHANGED pool BY <1>2 DEF pool, L!vars
<1> QED BY <1>1, <1>2, StepsAreFocused DEF LedgerKinds

LEMMA LedgerStays ==
  /\ focus \in LedgerKinds /\ [Next]_pool => (focus \in LedgerKinds)'
  /\ ~(focus \in LedgerKinds) /\ [Next]_pool => (~(focus \in LedgerKinds))'
  BY FocusStays DEF LedgerKinds

LEMMA LedgerRuns == Spec /\ focus \in LedgerKinds => L!Spec
  BY LedgerStays, LedgerStarts, LedgerMoves, PTL DEF Spec, L!Spec

\* A statement is delivered once, and its row says what became of it.
THEOREM RunLedgerIsTrue == Spec => []LedgerTellsTheTruth
<1>1. L!Spec => []L!LedgerTellsTheTruth BY L!LedgerIsTrue, EdgeAssumption
<1>2. (L!LedgerTellsTheTruth => LedgerTellsTheTruth) /\ (~(focus \in LedgerKinds) => LedgerTellsTheTruth) BY DEF LedgerTellsTheTruth
<1> QED BY <1>1, <1>2, LedgerStays, LedgerRuns, PTL DEF Spec
-----------------------------------------------------------------------------
(* One packet's interpretation.                                              *)

LEMMA InterpretationStarts == focus = "interpretation" /\ Init => X!Init
  BY DEF Init, LedgerKinds

LEMMA InterpretationMoves == focus = "interpretation" /\ [Next]_pool => [X!Next]_(X!vars)
<1> SUFFICES ASSUME focus = "interpretation", [Next]_pool PROVE [X!Next]_(X!vars) OBVIOUS
<1>1. CASE InterpretationNext BY <1>1 DEF InterpretationNext, X!Next
<1>2. CASE UNCHANGED pool BY <1>2 DEF pool, X!vars, X!work
<1> QED BY <1>1, <1>2, StepsAreFocused DEF LedgerKinds

LEMMA InterpretationStays ==
  /\ focus = "interpretation" /\ [Next]_pool => (focus = "interpretation")'
  /\ ~(focus = "interpretation") /\ [Next]_pool => (~(focus = "interpretation"))'
  BY FocusStays DEF LedgerKinds

LEMMA InterpretationRuns == Spec /\ focus = "interpretation" => X!Spec
  BY InterpretationStays, InterpretationStarts, InterpretationMoves, PTL DEF Spec, X!Spec

\* The packet worker's questions to the model fit into its lease.
THEOREM RunStaysInLease == Spec => []QuestionsFitTheLease
<1>1. X!Spec => []X!QuestionsFitTheLease BY X!QuestionsStayInLease, EdgeAssumption
<1>2. (X!QuestionsFitTheLease => QuestionsFitTheLease) /\ (~(focus = "interpretation") => QuestionsFitTheLease) BY DEF QuestionsFitTheLease
<1> QED BY <1>1, <1>2, InterpretationStays, InterpretationRuns, PTL DEF Spec

\* A stored interpretation neither hides nor invents evidence.
THEOREM RunStoresProvenResults == Spec => []ResultsAreProven
<1>1. X!Spec => []X!ResultsAreProven BY X!StoredResultsAreProven, EdgeAssumption
<1>2. (X!ResultsAreProven => ResultsAreProven) /\ (~(focus = "interpretation") => ResultsAreProven) BY DEF ResultsAreProven
<1> QED BY <1>1, <1>2, InterpretationStays, InterpretationRuns, PTL DEF Spec
-----------------------------------------------------------------------------
(* One integration call.                                                     *)

LEMMA RetryStarts == focus = "retry" /\ Init => G!Retry!Init
  BY DEF Init, LedgerKinds

LEMMA RetryMoves == focus = "retry" /\ [Next]_pool => [G!Retry!Next]_(G!Retry!vars)
<1> SUFFICES ASSUME focus = "retry", [Next]_pool PROVE [G!Retry!Next]_(G!Retry!vars) OBVIOUS
<1>1. CASE RetryNext BY <1>1 DEF RetryNext, G!Retry!Next
<1>2. CASE UNCHANGED pool BY <1>2 DEF pool, G!Retry!vars
<1> QED BY <1>1, <1>2, StepsAreFocused DEF LedgerKinds

LEMMA RetryStays ==
  /\ focus = "retry" /\ [Next]_pool => (focus = "retry")'
  /\ ~(focus = "retry") /\ [Next]_pool => (~(focus = "retry"))'
  BY FocusStays DEF LedgerKinds

LEMMA RetryRuns == Spec /\ focus = "retry" => G!Retry!Spec
  BY RetryStays, RetryStarts, RetryMoves, PTL DEF Spec, G!Retry!Spec

\* A retried call ends within its budget.
THEOREM RunKeepsBudgets == Spec => []BudgetIsKept
<1>1. G!Retry!Spec => []G!Retry!BudgetIsKept BY G!BudgetsAreKept, EdgeAssumption
<1>2. (G!Retry!BudgetIsKept => BudgetIsKept) /\ (~(focus = "retry") => BudgetIsKept) BY DEF BudgetIsKept
<1> QED BY <1>1, <1>2, RetryStays, RetryRuns, PTL DEF Spec
-----------------------------------------------------------------------------
(* msg91-session-bridge.                                                   *)

LEMMA SessionStarts == focus = "session" /\ Init => G!Session!Init
  BY DEF Init, LedgerKinds

LEMMA SessionMoves == focus = "session" /\ [Next]_pool => [G!Session!Next]_(G!Session!vars)
<1> SUFFICES ASSUME focus = "session", [Next]_pool PROVE [G!Session!Next]_(G!Session!vars) OBVIOUS
<1>1. CASE SessionNext BY <1>1 DEF SessionNext, G!Session!Next
<1>2. CASE UNCHANGED pool BY <1>2 DEF pool, G!Session!vars, G!Session!Rows
<1> QED BY <1>1, <1>2, StepsAreFocused DEF LedgerKinds

LEMMA SessionStays ==
  /\ focus = "session" /\ [Next]_pool => (focus = "session")'
  /\ ~(focus = "session") /\ [Next]_pool => (~(focus = "session"))'
  BY FocusStays DEF LedgerKinds

LEMMA SessionRuns == Spec /\ focus = "session" => G!Session!Spec
  BY SessionStays, SessionStarts, SessionMoves, PTL DEF Spec, G!Session!Spec

\* The session bridge never removes an identity a phone is bound to.
THEOREM RunKeepsLoginsBound == Spec => []BoundIsKept
<1>1. G!Session!Spec => []G!Session!BoundIsKept BY G!LoginsStayBound, EdgeAssumption
<1>2. (G!Session!BoundIsKept => BoundIsKept) /\ (~(focus = "session") => BoundIsKept)
  BY DEF BoundIsKept
<1> QED BY <1>1, <1>2, SessionStays, SessionRuns, PTL DEF Spec
-----------------------------------------------------------------------------
(* Customer identity.                                                      *)

LEMMA IdentityStarts == focus = "identity" /\ Init => G!Customer!Init
  BY DEF Init, LedgerKinds

LEMMA IdentityMoves == focus = "identity" /\ [Next]_pool => [G!Customer!Next]_(G!Customer!vars)
<1> SUFFICES ASSUME focus = "identity", [Next]_pool PROVE [G!Customer!Next]_(G!Customer!vars) OBVIOUS
<1>1. CASE IdentityNext BY <1>1 DEF IdentityNext, G!Customer!Next
<1>2. CASE UNCHANGED pool BY <1>2 DEF pool, G!Customer!vars, G!Customer!World
<1> QED BY <1>1, <1>2, StepsAreFocused DEF LedgerKinds

LEMMA IdentityStays ==
  /\ focus = "identity" /\ [Next]_pool => (focus = "identity")'
  /\ ~(focus = "identity") /\ [Next]_pool => (~(focus = "identity"))'
  BY FocusStays DEF LedgerKinds

LEMMA IdentityRuns == Spec /\ focus = "identity" => G!Customer!Spec
  BY IdentityStays, IdentityStarts, IdentityMoves, PTL DEF Spec, G!Customer!Spec

\* The webhook gives a message to the company its clues agree on, or to none.
THEOREM RunFollowsTheClues == Spec => []CluesDecide
<1>1. G!Customer!Spec => []G!Customer!CluesDecide BY G!CluesAlwaysDecide, EdgeAssumption
<1>2. (G!Customer!CluesDecide => CluesDecide) /\ (~(focus = "identity") => CluesDecide)
  BY DEF CluesDecide
<1> QED BY <1>1, <1>2, IdentityStays, IdentityRuns, PTL DEF Spec
-----------------------------------------------------------------------------
(* admin-provision-user.                                                   *)

LEMMA ProvisionStarts == focus = "provision" /\ Init => G!Provision!Init
  BY DEF Init, LedgerKinds

\* The list of identities holds up to three.
LEMMA ThreeAreListed == G!Provision!Cardinality({"e1"} \cup {"o1", "o2"}) = 3
<1>1. G!IsFiniteSet({}) /\ G!Cardinality({}) = 0 BY G!FS_EmptySet
<1>2. G!IsFiniteSet({} \cup {"e1"}) /\ G!Cardinality({} \cup {"e1"}) = 1
  BY <1>1, G!FS_AddElement
<1>3. G!IsFiniteSet({"e1"} \cup {"o1"}) /\ G!Cardinality({"e1"} \cup {"o1"}) = 2
  <2>1. {} \cup {"e1"} = {"e1"} OBVIOUS
  <2> QED BY <1>2, <2>1, G!FS_AddElement
<1>4. G!Cardinality(({"e1"} \cup {"o1"}) \cup {"o2"}) = 3
  BY <1>3, G!FS_AddElement
<1>5. {"e1"} \cup {"o1", "o2"} = ({"e1"} \cup {"o1"}) \cup {"o2"} OBVIOUS
<1> QED BY <1>4, <1>5, G!ProvisionCounts

LEMMA ProvisionMoves == focus = "provision" /\ [Next]_pool => [G!Provision!Next]_(G!Provision!vars)
<1> SUFFICES ASSUME focus = "provision", [Next]_pool PROVE [G!Provision!Next]_(G!Provision!vars) OBVIOUS
<1>1. CASE ProvisionNext BY <1>1, ThreeAreListed DEF ProvisionNext, G!Provision!Next, G!Provision!Step
<1>2. CASE UNCHANGED pool BY <1>2 DEF pool, G!Provision!vars
<1> QED BY <1>1, <1>2, StepsAreFocused DEF LedgerKinds

LEMMA ProvisionStays ==
  /\ focus = "provision" /\ [Next]_pool => (focus = "provision")'
  /\ ~(focus = "provision") /\ [Next]_pool => (~(focus = "provision"))'
  BY FocusStays DEF LedgerKinds

LEMMA ProvisionRuns ==
  Spec /\ focus = "provision" => G!Provision!Init /\ [][G!Provision!Next]_(G!Provision!vars)
  BY ProvisionStays, ProvisionStarts, ProvisionMoves, PTL DEF Spec

\* admin-provision-user loses no identity, no password and no step-up check.
THEOREM RunProvisionsSafely == Spec => []ProvisioningIsSafe
<1>1. G!Provision!Init /\ [][G!Provision!Next]_(G!Provision!vars) => []G!Provision!ProvisioningIsSafe BY G!ProvisioningStaysSafe, EdgeAssumption
<1>2. (G!Provision!ProvisioningIsSafe => ProvisioningIsSafe) /\ (~(focus = "provision") => ProvisioningIsSafe)
  BY DEF ProvisioningIsSafe
<1> QED BY <1>1, <1>2, ProvisionStays, ProvisionRuns, PTL DEF Spec
-----------------------------------------------------------------------------
(* The hourly reconciliation.                                              *)

LEMMA ReconciliationStarts == focus = "reconciliation" /\ Init => G!Hourly!Init
  BY DEF Init, LedgerKinds

LEMMA ReconciliationMoves == focus = "reconciliation" /\ [Next]_pool => [G!Hourly!Next]_(G!Hourly!vars)
<1> SUFFICES ASSUME focus = "reconciliation", [Next]_pool PROVE [G!Hourly!Next]_(G!Hourly!vars) OBVIOUS
<1>1. CASE ReconciliationNext BY <1>1 DEF ReconciliationNext, G!Hourly!Next
<1>2. CASE UNCHANGED pool BY <1>2 DEF pool, G!Hourly!vars
<1> QED BY <1>1, <1>2, StepsAreFocused DEF LedgerKinds

LEMMA ReconciliationStays ==
  /\ focus = "reconciliation" /\ [Next]_pool => (focus = "reconciliation")'
  /\ ~(focus = "reconciliation") /\ [Next]_pool => (~(focus = "reconciliation"))'
  BY FocusStays DEF LedgerKinds

LEMMA ReconciliationRuns == Spec /\ focus = "reconciliation" => G!Hourly!Spec
  BY ReconciliationStays, ReconciliationStarts, ReconciliationMoves, PTL DEF Spec, G!Hourly!Spec

\* The hourly reconciliation has every message that went nowhere on record.
THEOREM RunRecordsLosses == Spec => []LossesAreOnRecord
<1>1. G!Hourly!Spec => []G!Hourly!LossesAreOnRecord BY G!LossesStayOnRecord, EdgeAssumption
<1>2. (G!Hourly!LossesAreOnRecord => LossesAreOnRecord) /\ (~(focus = "reconciliation") => LossesAreOnRecord)
  BY DEF LossesAreOnRecord
<1> QED BY <1>1, <1>2, ReconciliationStays, ReconciliationRuns, PTL DEF Spec
-----------------------------------------------------------------------------
(* A preview's certification.                                                *)

LEMMA CertificationStarts == focus = "certification" /\ Init => G!Preview!Init
  BY DEF Init, LedgerKinds

LEMMA CertificationMoves ==
  focus = "certification" /\ [Next]_pool => [G!Preview!Next]_(G!Preview!vars)
<1> SUFFICES ASSUME focus = "certification", [Next]_pool
             PROVE  [G!Preview!Next]_(G!Preview!vars) OBVIOUS
<1>1. CASE CertificationNext BY <1>1 DEF CertificationNext, G!Preview!Next
<1>2. CASE UNCHANGED pool BY <1>2 DEF pool, G!Preview!vars
<1> QED BY <1>1, <1>2, StepsAreFocused DEF LedgerKinds

LEMMA CertificationStays ==
  /\ focus = "certification" /\ [Next]_pool => (focus = "certification")'
  /\ ~(focus = "certification") /\ [Next]_pool => (~(focus = "certification"))'
  BY FocusStays DEF LedgerKinds

LEMMA CertificationRuns == Spec /\ focus = "certification" => G!Preview!Spec
  BY CertificationStays, CertificationStarts, CertificationMoves, PTL DEF Spec, G!Preview!Spec

\* A preview that passed its certification earned it.
THEOREM RunEarnsVerdicts == Spec => []VerdictIsEarned
<1>1. G!Preview!Spec => []G!Preview!VerdictIsEarned BY G!VerdictsAreEarned, EdgeAssumption
<1>2. /\ G!Preview!VerdictIsEarned => VerdictIsEarned
      /\ ~(focus = "certification") => VerdictIsEarned
  BY DEF VerdictIsEarned
<1> QED BY <1>1, <1>2, CertificationStays, CertificationRuns, PTL DEF Spec
-----------------------------------------------------------------------------
(* The studio inbox bridge.                                                  *)

LEMMA BridgeStarts == focus = "inbox" /\ Init => G!Inbox!Init
  BY DEF Init, LedgerKinds

LEMMA BridgeMoves == focus = "inbox" /\ [Next]_pool => [G!Inbox!Next]_(G!Inbox!vars)
<1> SUFFICES ASSUME focus = "inbox", [Next]_pool PROVE [G!Inbox!Next]_(G!Inbox!vars) OBVIOUS
<1>1. CASE InboxNext BY <1>1 DEF InboxNext, G!Inbox!Next
<1>2. CASE UNCHANGED pool BY <1>2 DEF pool, G!Inbox!vars
<1> QED BY <1>1, <1>2, StepsAreFocused DEF LedgerKinds

LEMMA BridgeStays ==
  /\ focus = "inbox" /\ [Next]_pool => (focus = "inbox")'
  /\ ~(focus = "inbox") /\ [Next]_pool => (~(focus = "inbox"))'
  BY FocusStays DEF LedgerKinds

LEMMA BridgeRuns ==
  Spec /\ focus = "inbox" => G!Inbox!Init /\ [][G!Inbox!Next]_(G!Inbox!vars)
  BY BridgeStays, BridgeStarts, BridgeMoves, PTL DEF Spec

\* The studio inbox's cursor passes no message by that has still to get there.
THEOREM RunLeavesNothingBehind == Spec => []NothingIsPassedBy
<1>1. G!Inbox!Init /\ [][G!Inbox!Next]_(G!Inbox!vars) => []G!Inbox!NothingIsPassedBy
  BY G!NothingLeftBehind, EdgeAssumption
<1>2. /\ G!Inbox!NothingIsPassedBy => NothingIsPassedBy
      /\ ~(focus = "inbox") => NothingIsPassedBy
  BY DEF NothingIsPassedBy
<1> QED BY <1>1, <1>2, BridgeStays, BridgeRuns, PTL DEF Spec
-----------------------------------------------------------------------------
(* The product a message names.                                              *)

LEMMA ResolutionStarts == focus = "resolution" /\ Init => G!Resolution!Init
  BY DEF Init, LedgerKinds

LEMMA ResolutionMoves ==
  focus = "resolution" /\ [Next]_pool => [G!Resolution!Next]_(G!Resolution!vars)
<1> SUFFICES ASSUME focus = "resolution", [Next]_pool
             PROVE  [G!Resolution!Next]_(G!Resolution!vars) OBVIOUS
<1>1. CASE ResolutionNext BY <1>1 DEF ResolutionNext, G!Resolution!Next
<1>2. CASE UNCHANGED pool BY <1>2 DEF pool, G!Resolution!vars
<1> QED BY <1>1, <1>2, StepsAreFocused DEF LedgerKinds

LEMMA ResolutionStays ==
  /\ focus = "resolution" /\ [Next]_pool => (focus = "resolution")'
  /\ ~(focus = "resolution") /\ [Next]_pool => (~(focus = "resolution"))'
  BY FocusStays DEF LedgerKinds

LEMMA ResolutionRuns == Spec /\ focus = "resolution" => G!Resolution!Spec
  BY ResolutionStays, ResolutionStarts, ResolutionMoves, PTL DEF Spec, G!Resolution!Spec

\* The product a message names does not depend on the order of the catalogue.
THEOREM RunIgnoresRowOrder == Spec => []RowOrderIsIrrelevant
<1>1. G!Resolution!Spec => []G!Resolution!RowOrderIsIrrelevant
  BY G!RowOrderNeverMatters, EdgeAssumption
<1>2. /\ G!Resolution!RowOrderIsIrrelevant => RowOrderIsIrrelevant
      /\ ~(focus = "resolution") => RowOrderIsIrrelevant
  BY DEF RowOrderIsIrrelevant
<1> QED BY <1>1, <1>2, ResolutionStays, ResolutionRuns, PTL DEF Spec
-----------------------------------------------------------------------------
(* All of them.                                                              *)

\* Every service's state is well formed.
THEOREM RunTypesCorrect == Spec => []EdgeTypeOK
<1>1. Spec => [](focus = "notify" => N!TypeOK)
  <2>1. N!Spec => []N!TypeOK BY N!NotifyTypeCorrect, EdgeAssumption
  <2> QED BY <2>1, NotifyStays, NotifyRuns, PTL DEF Spec
<1>2. Spec => [](focus \in LedgerKinds => L!TypeOK)
  <2>1. L!Spec => []L!TypeOK BY L!LedgerTypeCorrect, EdgeAssumption
  <2> QED BY <2>1, LedgerStays, LedgerRuns, PTL DEF Spec
<1>3. Spec => [](focus = "interpretation" => X!TypeOK)
  <2>1. X!Spec => []X!TypeOK BY X!InterpretationTypeCorrect, EdgeAssumption
  <2> QED BY <2>1, InterpretationStays, InterpretationRuns, PTL DEF Spec
<1>4. Spec => [](focus = "retry" => G!Retry!TypeOK)
  <2>1. G!Retry!Spec => []G!Retry!TypeOK BY G!RetryTypeCorrect, EdgeAssumption
  <2> QED BY <2>1, RetryStays, RetryRuns, PTL DEF Spec
<1>5. Spec => [](focus = "session" => G!Session!TypeOK)
  <2>1. G!Session!Spec => []G!Session!TypeOK BY G!SessionTypeCorrect, EdgeAssumption
  <2> QED BY <2>1, SessionStays, SessionRuns, PTL DEF Spec
<1>6. Spec => [](focus = "identity" => G!Customer!TypeOK)
  <2>1. G!Customer!Spec => []G!Customer!TypeOK BY G!IdentityTypeCorrect, EdgeAssumption
  <2> QED BY <2>1, IdentityStays, IdentityRuns, PTL DEF Spec
<1>7. Spec => [](focus = "provision" => G!Provision!TypeOK)
  <2>1. G!Provision!Init /\ [][G!Provision!Next]_(G!Provision!vars) => []G!Provision!TypeOK
    BY G!ProvisionTypeCorrect, EdgeAssumption
  <2> QED BY <2>1, ProvisionStays, ProvisionRuns, PTL DEF Spec
<1>8. Spec => [](focus = "reconciliation" => G!Hourly!TypeOK)
  <2>1. G!Hourly!Spec => []G!Hourly!TypeOK BY G!ReconciliationTypeCorrect, EdgeAssumption
  <2> QED BY <2>1, ReconciliationStays, ReconciliationRuns, PTL DEF Spec
<1>9. Spec => [](focus = "certification" => G!Preview!TypeOK)
  <2>1. G!Preview!Spec => []G!Preview!TypeOK BY G!CertificationTypeCorrect, EdgeAssumption
  <2> QED BY <2>1, CertificationStays, CertificationRuns, PTL DEF Spec
<1>10. Spec => [](focus = "inbox" => G!Inbox!TypeOK)
  <2>1. G!Inbox!Init /\ [][G!Inbox!Next]_(G!Inbox!vars) => []G!Inbox!TypeOK
    BY G!InboxTypeCorrect, EdgeAssumption
  <2> QED BY <2>1, BridgeStays, BridgeRuns, PTL DEF Spec
<1>11. Spec => [](focus = "resolution" => G!Resolution!TypeOK)
  <2>1. G!Resolution!Spec => []G!Resolution!TypeOK BY G!ResolutionTypeCorrect, EdgeAssumption
  <2> QED BY <2>1, ResolutionStays, ResolutionRuns, PTL DEF Spec
<1>12. /\ focus = "notify" => N!TypeOK
       /\ focus \in LedgerKinds => L!TypeOK
       /\ focus = "interpretation" => X!TypeOK
       /\ focus = "retry" => G!Retry!TypeOK
       /\ focus = "session" => G!Session!TypeOK
       /\ focus = "identity" => G!Customer!TypeOK
       /\ focus = "provision" => G!Provision!TypeOK
       /\ focus = "reconciliation" => G!Hourly!TypeOK
       /\ focus = "certification" => G!Preview!TypeOK
       /\ focus = "inbox" => G!Inbox!TypeOK
       /\ focus = "resolution" => G!Resolution!TypeOK
    => EdgeTypeOK
  BY DEF EdgeTypeOK
<1> QED BY <1>1, <1>2, <1>3, <1>4, <1>5, <1>6, <1>7, <1>8, <1>9, <1>10, <1>11, <1>12, PTL
=============================================================================

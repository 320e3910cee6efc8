---------------------------- MODULE MCEdgeServices ----------------------------
(***************************************************************************)
(* Instances for TLC of the services around the dispatch queue that do not   *)
(* share state with it: each behaviour runs one of them (focus), so the      *)
(* state space of a run is the sum of theirs.  The services share the pool   *)
(* v1 .. v14 of variables; those a service does not use stay as they are.    *)
(* A service with proofs is instantiated with them, for EdgeServicesProofs.  *)
(***************************************************************************)
EXTENDS Integers, Sequences, FiniteSets

CONSTANTS Focus,   \* the services of this run
          None

VARIABLES focus, v1, v2, v3, v4, v5, v6, v7, v8, v9, v10, v11, v12, v13, v14

pool == <<focus, v1, v2, v3, v4, v5, v6, v7, v8, v9, v10, v11, v12, v13, v14>>

W == {"w1", "w2"}      \* concurrent invocations
Runs == {"r1", "r2"}   \* concurrent runs of a job

-----------------------------------------------------------------------------
(* notify-event: one approval, or one other event to several recipients.     *)
Approval == [caller |-> "staff", event |-> "approval_granted", app |-> "a1",
             fields |-> FALSE, text |-> FALSE, direct |-> {}, company |-> FALSE,
             audiences |-> {}]
Generic == [Approval EXCEPT !.event = "other", !.text = TRUE, !.direct = {"email"},
                            !.company = TRUE, !.audiences = {"buyer", "admin"}]
N == INSTANCE NotifyEventProofs WITH
       posted <- v1, application <- v2, outbox <- v3, worker <- v4, delivered <- v5,
       unsure <- v6, deadLetters <- v7, faults <- v8,
       Applications <- {"a1"}, Reach <- [a \in {"a1"} |-> {"whatsapp"}],
       Traffic <- {{Approval, [Approval EXCEPT !.caller = "outsider"]}, {Generic}},
       Directory <- [buyer |-> {"email"}, sales_exec |-> {}, admin |-> {"whatsapp"},
                     direct |-> {}],
       Workers <- W, MaxAttempts <- 2, MaxFaults <- 1

(* admin-provision-user: two actors, step-up roles, a list of two pages.     *)
Grant == [origin |-> "none", actor |-> "root", aal2 |-> FALSE, valid |-> TRUE,
          email |-> "e1", role |-> "packer", mode |-> "service_credential"]
GrantRequests ==
  {Grant, [Grant EXCEPT !.origin = "foreign"],
   [Grant EXCEPT !.actor = "adm", !.role = "finance_head", !.aal2 = TRUE, !.mode = "invite"],
   [Grant EXCEPT !.actor = "adm", !.role = "finance_head"],
   [Grant EXCEPT !.actor = "adm", !.role = "owner"]}
(* msg91-session-bridge: one phone, two logins at once.                      *)
Verified == [phone |-> "p1", valid |-> TRUE, verified |-> TRUE,
             fields |-> <<"blank", "indian">>]
SessionRequests ==
  {Verified, [Verified EXCEPT !.fields = <<"foreign", "indian">>],
   [Verified EXCEPT !.verified = FALSE]}
(* The studio inbox bridge: four rows, batches of two, overlapping runs, and *)
(* an operator's cursor.                                                     *)
Entries ==
  [m1 |-> [ts |-> 1, id |-> 1, kind |-> "unsupported", key |-> "k1"],
   m2 |-> [ts |-> 3, id |-> 3, kind |-> "text", key |-> "k2"],
   m3 |-> [ts |-> 5, id |-> 2, kind |-> "text", key |-> "k3"],
   m4 |-> [ts |-> 6, id |-> 5, kind |-> "no_phone", key |-> "k5"]]

(* Customer identity: two companies of one name, senders bound to one        *)
(* company, to two, to one before another as staff's proxy, and staff.       *)
Companies == {"c1", "c2", "c3"}
Senders == {"single", "double", "clerk", "rep"}
Text(f, d, g, n, o, s) ==
  [from |-> s, forwarded |-> f, dispute |-> d, gsts |-> g, named |-> n, mention |-> o]
Texts ==
  UNION {{Text(FALSE, FALSE, {}, None, None, s), Text(TRUE, TRUE, {}, None, None, s),
          Text(FALSE, TRUE, {"g2"}, "n1", None, s), Text(TRUE, FALSE, {"g1", "g2"}, None, None, s),
          Text(TRUE, FALSE, {}, "n1", None, s), Text(FALSE, FALSE, {"g1"}, "n2", "n1", s)}
         : s \in Senders}
(* Account statements: overlapping runs over one company's statement, of the *)
(* kind the focus names.                                                     *)
LedgerKinds == {"bi_monthly", "rescue"}
L == INSTANCE LedgerDeliveryProofs WITH
       ledger <- v1, pdf <- v2, phone <- v3, accepted <- v4, run <- v5, faults <- v6,
       gateway <- v7, phones <- v8,
       Companies <- {"c1"}, Kinds <- LedgerKinds, Callers <- {"cron", "other"},
       Runs <- Runs, MaxFaults <- 1, MaxGateway <- 1, MaxPhones <- 1

(* One packet's interpretation, in units of five seconds.                    *)
Msg(i, m, u, s) == [id |-> i, media |-> m, url |-> u, size |-> s]
Packets ==
  {<<Msg("a", FALSE, FALSE, 0)>>,
   <<Msg("a", TRUE, TRUE, 1), Msg("b", TRUE, FALSE, 0)>>,
   <<Msg("a", TRUE, TRUE, 1), Msg("a", TRUE, TRUE, 1), Msg("c", TRUE, TRUE, 1)>>,
   <<Msg("a", TRUE, TRUE, 3), Msg("b", TRUE, TRUE, 1)>>,
   <<Msg("a", TRUE, TRUE, 1), Msg("b", FALSE, FALSE, 0), Msg("c", TRUE, TRUE, 3)>>}
Line(s, c, n, q) == [status |-> s, cites |-> c, named |-> n, quantity |-> q]
Said(p) == [from |-> p, stated |-> TRUE]
Reply(f, ls, k, t) ==
  [form |-> f, review |-> FALSE, lines |-> ls, corrections |-> k, facts |-> t]
Sure(c) == <<Line("explicit", c, TRUE, TRUE), Line("interpreted", <<>>, TRUE, FALSE)>>
Replies ==
  {Reply(f, Sure(<<"a">>), <<>>, <<>>) : f \in {"text", "json", "schema"}}
    \cup {Reply("schema", Sure(c), <<>>, <<>>) :
            c \in {<<>>, <<"a", "x">>, <<"a", "a", "x">>}}
    \cup {Reply("schema", Sure(<<"a">>), k, <<>>) :
            k \in {<<Said("x")>>, <<Said("a"), Said("x")>>, <<Said(None)>>,
                   <<[Said("x") EXCEPT !.stated = FALSE]>>}}
    \cup {Reply("schema", <<Line("explicit", <<"x">>, FALSE, FALSE),
                            Line("explicit", <<"a">>, FALSE, TRUE)>>, <<>>, t) :
            t \in {<<>>, <<Said("x")>>}}
X == INSTANCE PacketInterpretationProofs WITH
       mode <- v1, packet <- v2, stage <- v3, now <- v4, loaded <- v5, next <- v6,
       bytes <- v7, seen <- v8, ask <- v9, tries <- v10, asked <- v11, reply <- v12,
       result <- v13, completed <- v14,
       Durations <- {0, 1, 7}, LegacyMessages <- 2, MaxBytes <- 3, MediaBudget <- 5,
       FetchTimeout <- 4, CallBudget <- 18, Delay <- 1, MaxAttempts <- 3, Lease <- 24,
       Margin <- 1, MaxLines <- 2, MaxCites <- 2, MaxCorrections <- 1, MaxFacts <- 1,
       Blank <- None

(* Product resolution: three products, duplicates and aliases among them.    *)
Row(g, a, o, f, s, u) ==
  [group |-> g, active |-> a, created |-> 1, serial |-> 0, source |-> s, overlap |-> o,
   fit |-> f, bulk |-> u, boost |-> 0]
Alias(p, o, f, c) == [product |-> p, overlap |-> o, fit |-> f, canonical |-> c]
Catalogue ==
  {Row("g1", TRUE, 75, "other", "name", 6), Row("g1", TRUE, 67, "other", "name", 0),
   Row("g2", TRUE, 75, "anagram", "short_name", 0), Row("g2", FALSE, 100, "other", "sku", 0)}
AliasTerms ==
  {Alias(1, 94, "same", 0), Alias(2, 67, "same", 75), Alias(1, 94, "anagram", 0),
   Alias(1, 100, "other", 94)}

(* A preview's certification: three fixtures, two jobs of others.            *)
MayLeave ==
  [p \in {"question", "notice", "clip", "clarify", "first", "second", "old", "real"} |->
     CASE p \in {"question", "clarify"} -> {"right", "wrong"}
       [] p = "notice" -> {"right", "wrong", "dangerous", "caseless"}
       [] OTHER -> {"right"}]

(* The services that ServiceProofs is about: one integration call; the two   *)
(* logins; a message and its clues; the grants; one message over two hours of *)
(* three ten-minute units; a certification; the inbox; and a product's name. *)
G == INSTANCE ServiceProofs WITH
       budget <- v1, lenient <- v2, now <- v3, stage <- v4, attempt <- v5, due <- v6,
       running <- v7, last <- v8, result <- v9,
       MaxAttempts <- 3, Delays <- <<1, 2>>, Budgets <- {2, 4, None}, RetryMaxLate <- 1,
       RetryHorizon <- 8,
       identity <- v1, created <- v2, worker <- v3, owner <- v4, eligible <- v5,
       faults <- v6, minted <- v8, late <- v9,
       Phones <- {"p1"}, SessionRequests <- SessionRequests, Workers <- W,
       MaxIdentities <- 2, SessionMaxFaults <- 3, SessionMaxLate <- 1,
       active <- v1, auth <- v2, disputed <- v4, changes <- v5,
       Companies <- Companies, gst <- [c1 |-> "g1", c2 |-> "g2", c3 |-> "g3"],
       name <- [c1 |-> "n1", c2 |-> "n2", c3 |-> "n2"],
       Numbers <- {"g1", "g2", "g3"}, Names <- {"n1", "n2"}, Senders <- Senders,
       phones <- [single |-> {"c1"}, double |-> {"c1", "c2"}, clerk |-> {"c2"},
                  rep |-> {"c2", "c3"}],
       exactPhones <- [single |-> {"c1"}, double |-> {"c1", "c2"}, clerk |-> {},
                       rep |-> {"c3"}],
       staff <- {"clerk"}, proxies <- {"clerk", "rep"}, CustomerMessages <- Texts,
       CustomerWorkers <- {"w1"}, CustomerMaxFaults <- 1, MaxChanges <- 2,
       identities <- v2, grants <- v4, orphaned <- v5,
       Actors <- {"root", "adm"}, ActorRole <- [root |-> "super_admin", adm |-> "admin"],
       Emails <- {"e1"}, Others <- {"o1", "o2"}, Roles <- {"packer", "finance_head", "owner"},
       StepUp <- {"finance_head", "owner"}, ProvisionRequests <- GrantRequests, PerPage <- 1,
       ProvisionMaxFaults <- 1,
       state <- v1, sent <- v2, came <- v4, runs <- v5, exceptions <- v6, scheduled <- v7,
       HourlyMessages <- {"m1"}, Hour <- 3, Phase <- 1, Window <- 4, MinAge <- 1,
       Windows <- {2}, HourlyMaxLate <- 2, MaxMissed <- 1, HourlyHorizon <- 6,
       queue <- v1, leased <- v2, outcome <- v3, run <- v4, verdict <- v5,
       Manifest <- <<"question", "notice", "clip">>, Mandatory <- {"question", "notice"},
       Kind <- [question |-> "question", notice |-> "closed", clip |-> "order"],
       NonOrder <- {"notice"}, NonOrderMin <- 1, Outside <- {"old", "real"},
       CertOwned <- {"old"}, MayLeave <- MayLeave, Replays <- 2, MaxDrain <- 1,
       CertMaxFaults <- 1,
       arrived <- v1, inbox <- v2, cursor <- v3, excused <- v5, failed <- v7,
       Rows <- DOMAIN Entries, Entry <- Entries, Runs <- Runs, Overrides <- {4},
       BatchLimit <- 2, InboxMaxFaults <- 1,
       row <- v1, aliases <- v2, vague <- v3, rounding <- v4, answers <- v5,
       Products <- {1, 2, 3}, ResolutionRows <- Catalogue, AliasRows <- AliasTerms,
       MaxAliases <- 2

ASSUME EdgeAssumption ==
  /\ N!NotifyAssumption /\ G!Provision!ProvisionAssumption /\ G!Session!BridgeAssumption
  /\ G!Inbox!InboxAssumption /\ G!Customer!IdentityAssumption /\ L!LedgerAssumption
  /\ X!InterpretationAssumption /\ G!Hourly!ReconciliationAssumption
  /\ G!Resolution!ResolutionAssumption /\ G!Retry!RetryAssumption /\ G!Preview!CertificationAssumption

-----------------------------------------------------------------------------
(* The pool from its n-th variable on, which a service with fewer leaves alone. *)
Rest10 == <<v10, v11, v12, v13, v14>>
Rest9 == <<v9, Rest10>>
Rest8 == <<v8, Rest9>>
Rest7 == <<v7, Rest8>>
Rest6 == <<v6, Rest7>>
Unused10 == v10 = 0 /\ v11 = 0 /\ v12 = 0 /\ v13 = 0 /\ v14 = 0
Unused9 == v9 = 0 /\ Unused10
Unused8 == v8 = 0 /\ Unused9
Unused7 == v7 = 0 /\ Unused8
Unused6 == v6 = 0 /\ Unused7

Init ==
  /\ focus \in Focus
  /\ \/ focus = "notify" /\ N!Init /\ Unused9
     \/ focus = "provision" /\ G!Provision!Init /\ Unused7
     \/ focus = "session" /\ G!Session!Init /\ Unused10
     \/ focus = "inbox" /\ G!Inbox!Init /\ Unused8
     \/ focus = "identity" /\ G!Customer!Init /\ Unused7
     \/ focus \in LedgerKinds /\ L!Init /\ Unused9
     \/ focus = "interpretation" /\ X!Init
     \/ focus = "reconciliation" /\ G!Hourly!Init /\ Unused8
     \/ focus = "resolution" /\ G!Resolution!Init /\ Unused6
     \/ focus = "retry" /\ G!Retry!Init /\ Unused10
     \/ focus = "certification" /\ G!Preview!Init /\ Unused7

Notify == focus = "notify" /\ UNCHANGED <<focus, Rest9>>
Provision == focus = "provision" /\ UNCHANGED <<focus, Rest7>>
Session == focus = "session" /\ UNCHANGED <<focus, Rest10>>
Inbox == focus = "inbox" /\ UNCHANGED <<focus, Rest8>>
Identity == focus = "identity" /\ UNCHANGED <<focus, Rest7>>
Ledger == focus \in LedgerKinds /\ UNCHANGED <<focus, Rest9>>
Interpretation == focus = "interpretation" /\ UNCHANGED focus
Reconciliation == focus = "reconciliation" /\ UNCHANGED <<focus, Rest8>>
Resolution == focus = "resolution" /\ UNCHANGED <<focus, Rest6>>
Retry == focus = "retry" /\ UNCHANGED <<focus, Rest10>>
Certification == focus = "certification" /\ UNCHANGED <<focus, Rest7>>

(* Each service's next-state relation, action by action.                     *)
NotifyNext ==
  \/ Notify /\ \E w \in W : \E r \in v1 : N!Accept(w, r)
  \/ Notify /\ \E w \in W : N!ReadApplication(w)
  \/ Notify /\ \E w \in W : N!SelectRow(w)
  \/ Notify /\ \E w \in W : N!InsertRow(w)
  \/ Notify /\ \E w \in W : N!Claim(w)
  \/ Notify /\ \E w \in W : N!Send(w)
  \/ Notify /\ \E w \in W : N!Complete(w)
  \/ Notify /\ \E w \in W : N!QuarantineRow(w)
  \/ Notify /\ \E w \in W : N!Fail(w)
  \/ Notify /\ \E w \in W : N!LookUp(w)
  \/ Notify /\ \E w \in W : N!Audit(w)
  \/ Notify /\ \E w \in W : N!Crash(w)
  \/ Notify /\ \E k \in N!Keys : N!LeaseExpires(k)
  \/ Notify /\ \E k \in N!Keys : N!RetryFallsDue(k)
  \/ Notify /\ N!Approve("a1")
  \/ Notify /\ N!Edit("a1")
ProvisionNext ==
  \/ Provision /\ \E r \in GrantRequests : G!Provision!Served(r)
  \/ Provision /\ \E w \in W : G!Provision!MayGrant(w)
  \/ Provision /\ \E w \in W : G!Provision!CheckStepUp(w)
  \/ Provision /\ \E w \in W : G!Provision!ScanPage(w)
  \/ Provision /\ \E w \in W : G!Provision!Create(w)
  \/ Provision /\ \E w \in W : G!Provision!GrantRole(w)
  \/ Provision /\ \E w \in W : G!Provision!Respond(w)
  \/ Provision /\ \E w \in W : G!Provision!Crash(w)
  \/ Provision /\ \E a \in {"root", "adm"} : G!Provision!Revoke(a)
  \/ Provision /\ \E i \in 1..3 : G!Provision!Delete(i)
SessionNext ==
  \/ Session /\ \E w \in W : \E r \in SessionRequests : G!Session!Accept(w, r)
  \/ Session /\ \E w \in W : G!Session!AskLegacy(w)
  \/ Session /\ \E w \in W : G!Session!AskProvider(w)
  \/ Session /\ \E w \in W : G!Session!Inspect(w)
  \/ Session /\ \E w \in W : G!Session!CreateUser(w)
  \/ Session /\ \E w \in W : G!Session!Reconcile(w)
  \/ Session /\ \E w \in W : G!Session!ReadState(w)
  \/ Session /\ \E w \in W : G!Session!Cleanup(w)
  \/ Session /\ \E w \in W : G!Session!MintToken(w)
  \/ Session /\ \E w \in W : G!Session!Crash(w)
  \/ Session /\ G!Session!Disqualify("p1")
  \/ Session /\ \E id \in G!Session!Ids : G!Session!RunLate("p1", id)
InboxNext ==
  \/ Inbox /\ \E u \in Runs : G!Inbox!Start(u)
  \/ Inbox /\ \E u \in Runs : G!Inbox!ReadBatch(u)
  \/ Inbox /\ \E u \in Runs : G!Inbox!Process(u)
  \/ Inbox /\ \E u \in Runs : G!Inbox!SaveCursor(u)
  \/ Inbox /\ \E u \in Runs : G!Inbox!Die(u)
  \/ Inbox /\ \E r \in DOMAIN Entries : G!Inbox!Arrive(r)
IdentityNext ==
  \/ Identity /\ \E m \in Texts : G!Customer!Accept("w1", m)
  \/ Identity /\ G!Customer!DecideDispute("w1")
  \/ Identity /\ G!Customer!MarkDisputed("w1")
  \/ Identity /\ G!Customer!Classify("w1")
  \/ Identity /\ G!Customer!Decide("w1")
  \/ Identity /\ G!Customer!ReadManager("w1")
  \/ Identity /\ G!Customer!Finish("w1")
  \/ Identity /\ \E c \in Companies : G!Customer!Suspend(c)
  \/ Identity /\ \E c \in Companies, s \in Senders : G!Customer!Authorize(s, c)
  \/ Identity /\ \E c \in Companies, s \in Senders : G!Customer!Withdraw(s, c)
LedgerNext ==
  \/ Ledger /\ \E r \in Runs, caller \in {"cron", "other"}, todo \in SUBSET {"c1"} :
       L!Start(r, caller, focus, todo)
  \/ Ledger /\ \E r \in Runs : L!Take(r)
  \/ Ledger /\ \E r \in Runs : L!Look(r)
  \/ Ledger /\ \E r \in Runs : L!ReadOrders(r)
  \/ Ledger /\ \E r \in Runs : L!Upload(r)
  \/ Ledger /\ \E r \in Runs : L!Insert(r)
  \/ Ledger /\ \E r \in Runs : L!Skip(r)
  \/ Ledger /\ \E r \in Runs : L!Claim(r)
  \/ Ledger /\ \E r \in Runs : L!Sign(r)
  \/ Ledger /\ \E r \in Runs : L!SendDocument(r)
  \/ Ledger /\ \E r \in Runs : L!SendText(r)
  \/ Ledger /\ \E r \in Runs : L!Finalize(r)
  \/ Ledger /\ \E r \in Runs : L!Fail(r)
  \/ Ledger /\ \E r \in Runs : L!Stop(r)
  \/ Ledger /\ \E k \in L!Keys : L!Dispute(k)
  \/ Ledger /\ L!ChangePhone("c1")
InterpretationNext ==
  \/ Interpretation /\ X!Load
  \/ Interpretation /\ X!MediaDone
  \/ Interpretation /\ X!TakeText
  \/ Interpretation /\ X!Fetch
  \/ Interpretation /\ X!Call
  \/ Interpretation /\ X!Parse
  \/ Interpretation /\ X!CompleteMedia
  \/ Interpretation /\ X!Persist
ReconciliationNext ==
  \/ Reconciliation /\ G!Hourly!Tick
  \/ Reconciliation /\ G!Hourly!CronRun
  \/ Reconciliation /\ G!Hourly!CronMissed
  \/ Reconciliation /\ G!Hourly!Arrive("m1")
  \/ Reconciliation /\ G!Hourly!Settle("m1")
  \/ Reconciliation /\ G!Hourly!ServiceRun(2)
  \/ Reconciliation /\ \E e \in v6 : G!Hourly!Resolve(e)
  \/ Reconciliation /\ \E k \in G!Hourly!Keys : G!Hourly!SignOff(k)
ResolutionNext ==
  \/ Resolution /\ G!Resolution!Resolve
  \/ Resolution /\ G!Resolution!ReadFails
RetryNext ==
  \/ Retry /\ G!Retry!Begin
  \/ Retry /\ G!Retry!TimeOut
  \/ Retry /\ G!Retry!Wake
  \/ Retry /\ G!Retry!Tick
  \/ Retry /\ \E outcome \in {"value", "retryable", "permanent"} : G!Retry!Settle(outcome)
  \/ Retry /\ \E o \in v7 : G!Retry!Leave(o)
CertificationNext ==
  \/ Certification /\ \E offered \in SUBSET G!Preview!Fixtures : G!Preview!Start(offered)
  \/ Certification /\ G!Preview!CheckBacklog
  \/ Certification /\ G!Preview!Replay
  \/ Certification /\ G!Preview!Seed
  \/ Certification /\ G!Preview!Claim
  \/ Certification /\ G!Preview!Finish
  \/ Certification /\ G!Preview!Load
  \/ Certification /\ G!Preview!Direct
  \/ Certification /\ G!Preview!Judge
  \/ Certification /\ G!Preview!Break
  \/ Certification /\ G!Preview!Abandon
  \/ Certification /\ G!Preview!Leave
  \/ Certification /\ G!Preview!OtherClaims
  \/ Certification /\ \E p \in G!Preview!Packets : G!Preview!Arrive(p)
  \/ Certification /\ \E p \in G!Preview!Packets : G!Preview!OtherFinishes(p)
  \/ Certification /\ \E p \in G!Preview!Packets : G!Preview!Again(p)

Next ==
  \/ NotifyNext \/ ProvisionNext \/ SessionNext \/ InboxNext \/ IdentityNext
  \/ LedgerNext \/ InterpretationNext \/ ReconciliationNext \/ ResolutionNext
  \/ RetryNext \/ CertificationNext
Spec == Init /\ [][Next]_pool

(* The fairness of AdminProvision and InboxBridge, while they run.           *)
Fairness ==
  /\ WF_pool(Provision /\ G!Provision!Steps)
  /\ \A r \in G!Provision!Qualified : SF_pool(Provision /\ G!Provision!Served(r))
  /\ WF_pool(Inbox /\ \E u \in Runs : G!Inbox!Working(u))
FairSpec == Spec /\ Fairness

-----------------------------------------------------------------------------
(* The services' properties, each said of the behaviours its service runs.   *)

\* Every service's state is well formed.
EdgeTypeOK ==
  /\ focus = "notify" => N!TypeOK
  /\ focus = "provision" => G!Provision!TypeOK
  /\ focus = "session" => G!Session!TypeOK
  /\ focus = "inbox" => G!Inbox!TypeOK
  /\ focus = "identity" => G!Customer!TypeOK
  /\ focus \in LedgerKinds => L!TypeOK
  /\ focus = "interpretation" => X!TypeOK
  /\ focus = "reconciliation" => G!Hourly!TypeOK
  /\ focus = "resolution" => G!Resolution!TypeOK
  /\ focus = "retry" => G!Retry!TypeOK
  /\ focus = "certification" => G!Preview!TypeOK

\* notify-event tells a customer once per channel, the text on record.
ToldOnce == focus = "notify" => N!ToldOnce
\* What notify-event reports as sent or has given up is true and on record.
OutcomesAreTrue == focus = "notify" => N!OutcomesAreTrue
\* admin-provision-user loses no identity, no password and no step-up check.
ProvisioningIsSafe == focus = "provision" => G!Provision!ProvisioningIsSafe
\* The session bridge never removes an identity a phone is bound to.
BoundIsKept == focus = "session" => G!Session!BoundIsKept
\* The webhook gives a message to the company its clues agree on, or to none.
CluesDecide == focus = "identity" => G!Customer!CluesDecide
\* A statement is delivered once, and its row says what became of it.
LedgerTellsTheTruth == focus \in LedgerKinds => L!LedgerTellsTheTruth
\* The packet worker's questions to the model fit into its lease.
QuestionsFitTheLease == focus = "interpretation" => X!QuestionsFitTheLease
\* A stored interpretation neither hides nor invents evidence.
ResultsAreProven == focus = "interpretation" => X!ResultsAreProven
\* The hourly reconciliation has every message that went nowhere on record.
LossesAreOnRecord == focus = "reconciliation" => G!Hourly!LossesAreOnRecord
\* The studio inbox's cursor passes no message by that has still to get there.
NothingIsPassedBy == focus = "inbox" => G!Inbox!NothingIsPassedBy
\* The product a message names does not depend on the order of the catalogue.
RowOrderIsIrrelevant == focus = "resolution" => G!Resolution!RowOrderIsIrrelevant
\* A retried call ends within its budget.
BudgetIsKept == focus = "retry" => G!Retry!BudgetIsKept

\* A preview that passed its certification earned it.
VerdictIsEarned == focus = "certification" => G!Preview!VerdictIsEarned

\* A repeated grant request is in the end served.
RetriesConverge == \A r \in G!Provision!Qualified : <>(focus = "provision" => G!Provision!Converged(r))
\* Every message that arrived in order gets to the inbox.
InboxCatchesUp ==
  \A r \in G!Inbox!Texts :
    (focus = "inbox" /\ r \in v1) ~> (focus = "inbox" => G!Inbox!Settled(r))
=============================================================================

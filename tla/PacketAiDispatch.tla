--------------------------- MODULE PacketAiDispatch ---------------------------
(***************************************************************************)
(* The durable queue that hands WhatsApp packets to the AI worker: the     *)
(* table whatsapp_packet_ai_dispatch_jobs with the triggers and RPCs that  *)
(* write it, the worker (functions/whatsapp-packet-ai-worker) that claims, *)
(* interprets, materialises and completes a job, the consumer that runs    *)
(* the worker once a minute, and the operators who park or requeue jobs.   *)
(*                                                                         *)
(* One step is one SQL transaction or one read of the worker, except that  *)
(* the two RPCs that check the lease in one statement and write in a later *)
(* one are two steps.  Between two steps of a worker anything may happen:  *)
(* a new message, the expiry of its lease, a claim by another worker, an   *)
(* operator command, its own crash.                                        *)
(***************************************************************************)
EXTENDS Naturals, Sequences, FiniteSets

CONSTANTS
    Packets,           \* message packets; a packet has at most one communication case
    OpenPackets,       \* packets whose status is open: nothing here writes it
    LegacyPackets,     \* packets whose job is older than bounded retry
    Workers,           \* overlapping invocations of the consumer
    OperatorKeys,      \* idempotency keys the operators use
    NoJob,             \* what an idle worker holds
    Budget,            \* retry_policies: whatsapp.packet_ai_dispatch.default
    ModelBudget,       \* retry_policies: whatsapp.packet_ai_dispatch.model_output
    MaxMessages,       \* bound: inbound messages per packet
    MaxContexts,       \* bound: context revisions per case
    MaxBlocks,         \* bound: knowledge-authority outages met by one job
    MaxLegacyAttempts  \* bound: claims of a job that has no retry budget

(* A packet has one PACKET job, <<p, 0>>; its case has one CASE_CONTEXT     *)
(* job <<p, k>> per context revision k (the two partial unique indexes).    *)
JobIds == Packets \X (0 .. MaxContexts)

ASSUME DispatchAssumption ==
    /\ OpenPackets \subseteq Packets /\ LegacyPackets \subseteq Packets
    /\ NoJob \notin JobIds
    /\ Budget \in Nat \ {0}
    /\ ModelBudget \in 1 .. Budget
    /\ MaxMessages \in Nat \ {0} /\ MaxContexts \in Nat
    /\ MaxBlocks \in Nat /\ MaxLegacyAttempts \in Nat

(* What an interpretation was made from: the first msgs inbound messages of *)
(* the packet and the first answers clarification answers of its case.      *)
(* Two evidence sets have the same fingerprint exactly when they are equal. *)
Evidence == [msgs : Nat, answers : Nat]
Covers(c, d) == c.msgs >= d.msgs /\ c.answers >= d.answers

Waiting == {"QUEUED", "RETRY", "BLOCKED_KNOWLEDGE_AUTHORITY"}
Terminal == {"COMPLETED", "DEAD_LETTERED"}
States == {"ABSENT", "LEASED"} \union Waiting \union Terminal
Classes == {"DETERMINISTIC", "HUMAN_REVIEW_REQUIRED", "RETRY_EXHAUSTED",
            "OPERATOR_QUARANTINE"}

Errors == {"TRANSIENT", "MODEL_OUTPUT", "DETERMINISTIC", "AMBIGUOUS_ORDERS",
           "KNOWLEDGE", "KNOWLEDGE_TOO_LARGE"}
Knowledge(e) == e \in {"KNOWLEDGE", "KNOWLEDGE_TOO_LARGE"}

Stages == {"idle", "claimed", "loaded", "interpreted", "persisting", "persisted",
           "materialising", "materialised", "governed"}

VARIABLES
    revision,  \* whatsapp_message_packets.ai_dispatch_revision = inbound messages so far
    case,      \* status of the packet's communication case
    context,   \* whatsapp_communication_cases.context_revision
    answers,   \* clarification answers admitted as evidence of the case
    jobs,      \* whatsapp_packet_ai_dispatch_jobs
    cause,     \* for a CASE_CONTEXT job, the evidence that raised it
    clone,     \* TRUE: the job carries a cloned interpretation (identity confirmed)
    interps,   \* whatsapp_packet_ai_interpretations by created_at, clones left out
    applied,   \* evidence whose conclusion was materialised into the case
    tasks,     \* the AMBIGUOUS_POTENTIAL_ORDER_REVIEW task of each job
    console,   \* dead_letter_entries of each job: OPEN when one is open
    audit,     \* ..._dead_letter_events, as <<event_type, idempotency key>>
    workers    \* what each invocation of the worker holds in memory

packetVars == <<revision, case, context, answers, cause, clone>>
deadLetterVars == <<tasks, console, audit>>
vars == <<packetVars, jobs, interps, applied, deadLetterVars, workers>>

-----------------------------------------------------------------------------
(* Rows.  token stands for lease_token, a fresh uuid per claim; live says   *)
(* that lease_expires_at is still ahead.  claims and blocks are history:    *)
(* claims, and knowledge blocks, since the retry budget was last reset.     *)

Row == [state : States, rev : Nat, attempt : Nat, token : Nat, live : BOOLEAN,
        bounded : BOOLEAN, used : Nat, class : Classes \union {"NONE"},
        claims : Nat, blocks : Nat]

NoRow == [state |-> "ABSENT", rev |-> 0, attempt |-> 0, token |-> 0,
          live |-> FALSE, bounded |-> FALSE, used |-> 0, class |-> "NONE",
          claims |-> 0, blocks |-> 0]
NewRow(rev) == [NoRow EXCEPT !.state = "QUEUED", !.rev = rev, !.bounded = TRUE]

Idle == [stage |-> "idle", job |-> NoJob, token |-> 0, rev |-> 0,
         seen |-> [msgs |-> 0, answers |-> 0]]

Unpaid(row) == IF row.state = "LEASED" THEN 1 ELSE 0

(* Mutant: a revived job keeps its dead-letter class.                       *)
Revive_KeepsClass(old, new) ==
    IF \/ old.state = "DEAD_LETTERED" /\ new.state # "DEAD_LETTERED"
       \/ old.rev # new.rev
    THEN [new EXCEPT !.bounded = TRUE, !.used = 0, !.claims = Unpaid(new), !.blocks = 0]
    ELSE new

(* The before-update trigger every write of a row goes through.             *)
Revive(old, new) ==
    LET fresh == [new EXCEPT !.bounded = TRUE, !.used = 0,
                             !.claims = Unpaid(new), !.blocks = 0]
    IN  IF old.state = "DEAD_LETTERED" /\ new.state # "DEAD_LETTERED"
        THEN [fresh EXCEPT !.class = "NONE"]
        ELSE IF old.rev # new.rev THEN fresh ELSE new

Unleased(row, state) == [row EXCEPT !.state = state, !.token = 0, !.live = FALSE]

EnqueueRow(row, rev) ==
    IF row.state = "ABSENT" THEN NewRow(rev)
    ELSE Revive(row, [row EXCEPT !.rev = rev,
                        !.state = IF @ = "LEASED" THEN @ ELSE "QUEUED"])

(* Mutant: a reclaim after a crash is free.                                 *)
ClaimRow_FreeReclaim(row) ==
    [row EXCEPT !.state = "LEASED", !.live = TRUE, !.attempt = @ + 1,
                !.token = row.attempt + 1, !.claims = @ + 1]

(* Mutant: a reclaim hands out the token the crashed worker already has.    *)
ClaimRow_SameToken(row) ==
    [row EXCEPT !.state = "LEASED", !.live = TRUE, !.attempt = @ + 1,
                !.token = IF @ = 0 THEN row.attempt + 1 ELSE @,
                !.used = IF row.state = "LEASED" /\ row.bounded THEN @ + 1 ELSE @,
                !.claims = @ + 1]

ClaimRow(row) ==
    [row EXCEPT !.state = "LEASED", !.live = TRUE,
                !.attempt = @ + 1, !.token = row.attempt + 1,
                !.used = IF row.state = "LEASED" /\ row.bounded THEN @ + 1 ELSE @,
                !.claims = @ + 1]

DeadLetterRow(row, class) ==
    [Unleased(row, "DEAD_LETTERED") EXCEPT !.used = @ + 1, !.class = class]

(* Mutant: the comparison of the lease with the clock is turned round.      *)
Expired_Inverted(row) == row.state = "LEASED" /\ row.live
Expired(row) == row.state = "LEASED" /\ ~row.live

Exhausted(row) == Expired(row) /\ row.bounded /\ row.used + 1 >= Budget

(* Mutant: a lease that expired is never reclaimed.                         *)
Claimable_NoReclaim(row) == row.state \in Waiting
Claimable(row) == row.state \in Waiting \/ Expired(row)

-----------------------------------------------------------------------------
(* The lease predicates of the RPCs.                                        *)

(* Mutant: any context revision passes.                                     *)
ContextCurrent_Any(j) == j \in JobIds
ContextCurrent(j) == j[2] = 0 \/ j[2] = context[j[1]]

(* Mutant: the revision the worker claimed is not compared.                 *)
LeaseHeld_AnyRevision(w) ==
    LET me == workers[w] IN
    /\ me.stage # "idle"
    /\ jobs[me.job].state = "LEASED" /\ jobs[me.job].token = me.token
    /\ ContextCurrent(me.job)

LeaseHeld(w) ==
    LET me == workers[w] IN
    /\ me.stage # "idle"
    /\ jobs[me.job].state = "LEASED"
    /\ jobs[me.job].token = me.token
    /\ jobs[me.job].rev = me.rev
    /\ ContextCurrent(me.job)

LeaseValid(w) == LeaseHeld(w) /\ jobs[workers[w].job].live

(* What the completion of a job promises to have considered.                *)
Owed(j) == IF j[2] = 0 THEN [msgs |-> jobs[j].rev, answers |-> 0] ELSE cause[j]

(* Mutant: a case-context job reads the packet's messages only.             *)
EvidenceOf_NoAnswers(j) == [msgs |-> revision[j[1]], answers |-> 0]

EvidenceOf(j) ==
    [msgs |-> revision[j[1]], answers |-> IF j[2] = 0 THEN 0 ELSE answers[j[1]]]

Interpreted(p, e) == \E i \in 1 .. Len(interps[p]) : interps[p][i] = e

-----------------------------------------------------------------------------
(* Producers of jobs.                                                       *)

(* An inbound message joins the packet (row trigger on whatsapp_messages).  *)
Enqueue(p) ==
    LET j == <<p, 0>>
        parked == jobs[j].state = "DEAD_LETTERED"
        rev == revision[p] + 1
    IN
    /\ revision[p] < MaxMessages
    /\ revision' = [revision EXCEPT ![p] = rev]
    /\ jobs' = [jobs EXCEPT ![j] = EnqueueRow(@, rev)]
    /\ console' = [console EXCEPT ![j] = IF parked /\ @ = "OPEN" THEN "CLOSED" ELSE @]
    /\ audit' = [audit EXCEPT ![j] =
                   IF parked THEN @ \union {<<"REVIVED_BY_NEW_REVISION", rev>>} ELSE @]
    /\ UNCHANGED <<case, context, answers, cause, clone, interps, applied, tasks, workers>>

EnqueueContext(p, evidence, cloned) ==
    LET k == context[p] + 1 IN
    /\ case[p] = "ACTIVE"
    /\ k <= MaxContexts
    /\ context' = [context EXCEPT ![p] = k]
    /\ jobs' = [jobs EXCEPT ![<<p, k>>] = NewRow(k)]
    /\ cause' = [cause EXCEPT ![<<p, k>>] = evidence]
    /\ clone' = [clone EXCEPT ![<<p, k>>] = cloned]
    /\ UNCHANGED <<revision, case, interps, applied, deadLetterVars, workers>>

(* A clarification answer of the customer is correlated with the case.      *)
AdmitAnswer(p) ==
    /\ answers' = [answers EXCEPT ![p] = @ + 1]
    /\ EnqueueContext(p, [msgs |-> revision[p], answers |-> answers[p] + 1], FALSE)

(* An operator confirms who the customer is: the newest interpretation is   *)
(* cloned and re-materialised without another AI call.                      *)
ConfirmIdentity(p) ==
    /\ interps[p] # << >>
    /\ EnqueueContext(p, interps[p][Len(interps[p])], TRUE)
    /\ UNCHANGED answers

CloseCase(p) ==
    /\ case[p] = "ACTIVE"
    /\ case' = [case EXCEPT ![p] = "CLOSED"]
    /\ UNCHANGED <<revision, context, answers, cause, clone, jobs, interps, applied,
                   deadLetterVars, workers>>

(* The hourly reconciliation opens a case for human triage when an open     *)
(* packet has waited ten minutes without one; the job is left as it is.     *)
(* A packet with a message has the time of its last one.                    *)
(* Mutant: only packets whose job is still waiting for the AI are rescued.  *)
Failover_PendingOnly(p) ==
    /\ p \in OpenPackets /\ revision[p] > 0
    /\ case[p] = "NONE"
    /\ jobs[<<p, 0>>].state \in Waiting
    /\ case' = [case EXCEPT ![p] = "ACTIVE"]
    /\ UNCHANGED <<revision, context, answers, cause, clone, jobs, interps, applied,
                   deadLetterVars, workers>>

Failover(p) ==
    /\ p \in OpenPackets /\ revision[p] > 0
    /\ case[p] = "NONE"
    /\ case' = [case EXCEPT ![p] = "ACTIVE"]
    /\ UNCHANGED <<revision, context, answers, cause, clone, jobs, interps, applied,
                   deadLetterVars, workers>>

-----------------------------------------------------------------------------
(* Claiming.  One claim first dead-letters every job whose lease expired    *)
(* with its budget spent, then leases one job that is due.                  *)

Sweep == [j \in JobIds |-> IF Exhausted(jobs[j])
                           THEN DeadLetterRow(jobs[j], "RETRY_EXHAUSTED")
                           ELSE jobs[j]]

(* Mutant: the sweep writes no audit event.                                 *)
RecordSweep_Unaudited ==
    /\ console' = [j \in JobIds |-> IF Exhausted(jobs[j]) THEN "OPEN" ELSE console[j]]
    /\ UNCHANGED <<tasks, audit>>

RecordSweep ==
    /\ console' = [j \in JobIds |-> IF Exhausted(jobs[j]) THEN "OPEN" ELSE console[j]]
    /\ audit' = [j \in JobIds |->
                   IF Exhausted(jobs[j])
                   THEN audit[j] \union {<<"DEAD_LETTERED", jobs[j].attempt>>}
                   ELSE audit[j]]
    /\ UNCHANGED tasks

Claim(w, j) ==
    LET row == ClaimRow(Sweep[j]) IN
    /\ workers[w].stage = "idle"
    /\ Claimable(Sweep[j])
    /\ jobs[j].bounded \/ jobs[j].attempt < MaxLegacyAttempts
    /\ jobs' = [Sweep EXCEPT ![j] = row]
    /\ workers' = [workers EXCEPT ![w] =
                     [Idle EXCEPT !.stage = "claimed", !.job = j,
                                  !.token = row.token, !.rev = row.rev]]
    /\ RecordSweep
    /\ UNCHANGED <<packetVars, interps, applied>>

(* The queue is otherwise empty: the claim sweeps and returns no job.       *)
ClaimNothing(w) ==
    /\ workers[w].stage = "idle"
    /\ \E j \in JobIds : Exhausted(jobs[j])
    /\ \A j \in JobIds : ~Claimable(Sweep[j])
    /\ jobs' = Sweep
    /\ RecordSweep
    /\ UNCHANGED <<packetVars, interps, applied, workers>>

LeaseExpires(j) ==
    /\ jobs[j].state = "LEASED" /\ jobs[j].live
    /\ jobs' = [jobs EXCEPT ![j].live = FALSE]
    /\ UNCHANGED <<packetVars, interps, applied, deadLetterVars, workers>>

-----------------------------------------------------------------------------
(* The worker, one await at a time.                                         *)

Advance(w, from, to) ==
    /\ workers[w].stage = from
    /\ workers' = [workers EXCEPT ![w].stage = to]

(* Reads the messages (and the answers) and the knowledge snapshot.         *)
LoadEvidence(w) ==
    LET j == workers[w].job IN
    /\ workers[w].stage = "claimed"
    /\ ~clone[j]
    /\ workers' = [workers EXCEPT ![w].stage = "loaded", ![w].seen = EvidenceOf(j)]
    /\ UNCHANGED <<packetVars, jobs, interps, applied, deadLetterVars>>

(* A job that carries a cloned interpretation goes straight to the case.    *)
TakeClone(w) ==
    LET j == workers[w].job IN
    /\ workers[w].stage = "claimed"
    /\ clone[j]
    /\ workers' = [workers EXCEPT ![w].stage = "persisted", ![w].seen = cause[j]]
    /\ UNCHANGED <<packetVars, jobs, interps, applied, deadLetterVars>>

(* Looks the fingerprint up; on a miss, calls the AI provider.              *)
Interpret(w) ==
    /\ Advance(w, "loaded", IF Interpreted(workers[w].job[1], workers[w].seen)
                            THEN "persisted" ELSE "interpreted")
    /\ UNCHANGED <<packetVars, jobs, interps, applied, deadLetterVars>>

(* The persist and materialise RPCs: whatsapp_require_packet_ai_dispatch_   *)
(* lease raises unless the lease is valid, but it locks no row, so what the *)
(* later statements write may land after the lease is gone.                 *)
BeginPersist(w) ==
    /\ Advance(w, "interpreted", "persisting")
    /\ LeaseValid(w)
    /\ UNCHANGED <<packetVars, jobs, interps, applied, deadLetterVars>>

Persist(w) ==
    LET p == workers[w].job[1] IN
    /\ Advance(w, "persisting", "persisted")
    /\ interps' = [interps EXCEPT ![p] = IF Interpreted(p, workers[w].seen)
                                         THEN @ ELSE Append(@, workers[w].seen)]
    /\ UNCHANGED <<packetVars, jobs, applied, deadLetterVars>>

(* Mutant: the materialisation does not check the lease.                    *)
BeginMaterialise_Unleased(w) ==
    /\ Advance(w, "persisted", "materialising")
    /\ UNCHANGED <<packetVars, jobs, interps, applied, deadLetterVars>>

BeginMaterialise(w) ==
    /\ Advance(w, "persisted", "materialising")
    /\ LeaseValid(w)
    /\ UNCHANGED <<packetVars, jobs, interps, applied, deadLetterVars>>

(* Writes the conclusion into the packet's case, opening it if need be.  An *)
(* order conclusion is written into a CLOSED case too; a non-order one is   *)
(* refused there and reported as a TRANSIENT failure of this stage.         *)
Materialise(w) ==
    LET p == workers[w].job[1] IN
    /\ Advance(w, "materialising", IF clone[workers[w].job] THEN "governed" ELSE "materialised")
    /\ applied' = [applied EXCEPT ![p] = @ \union {workers[w].seen}]
    /\ case' = [case EXCEPT ![p] = IF @ = "NONE" THEN "ACTIVE" ELSE @]
    /\ UNCHANGED <<revision, context, answers, cause, clone, jobs, interps, deadLetterVars>>

(* Non-order governance is idempotent per interpretation and takes no lease. *)
Govern(w) ==
    /\ Advance(w, "materialised", "governed")
    /\ UNCHANGED <<packetVars, jobs, interps, applied, deadLetterVars>>

Complete(w) ==
    /\ workers[w].stage = "governed"
    /\ LeaseValid(w)
    /\ jobs' = [jobs EXCEPT ![workers[w].job] = Unleased(@, "COMPLETED")]
    /\ workers' = [workers EXCEPT ![w] = Idle]
    /\ UNCHANGED <<packetVars, interps, applied, deadLetterVars>>

Crash(w) ==
    /\ workers[w].stage # "idle"
    /\ workers' = [workers EXCEPT ![w] = Idle]
    /\ UNCHANGED <<packetVars, jobs, interps, applied, deadLetterVars>>

-----------------------------------------------------------------------------
(* A failure.  The worker catches whatever went wrong at its stage, reports *)
(* it with the retry RPC and gives up; a report whose lease is no longer    *)
(* held changes nothing and leaves the row to the next claim.               *)

FailuresAt(w) ==
    CASE workers[w].stage = "claimed" ->
           IF clone[workers[w].job] THEN {"TRANSIENT"}
           ELSE {"TRANSIENT", "DETERMINISTIC", "KNOWLEDGE"}
      [] workers[w].stage = "loaded" ->
           {"TRANSIENT", "DETERMINISTIC", "MODEL_OUTPUT", "KNOWLEDGE_TOO_LARGE"}
      [] workers[w].stage = "materialising" -> {"TRANSIENT", "AMBIGUOUS_ORDERS"}
      [] OTHER -> {"TRANSIENT"}

(* Mutant: jobs that predate the retry budget are budgeted like any other.  *)
Unbudgeted_KnowledgeOnly(row, e) == Knowledge(e) /\ e # "KNOWLEDGE_TOO_LARGE"

(* Failures the bounded-retry branch never sees.                            *)
Unbudgeted(row, e) ==
    \/ ~row.bounded
    \/ Knowledge(e) /\ e # "KNOWLEDGE_TOO_LARGE"

BudgetFor(e) == IF e = "MODEL_OUTPUT" THEN ModelBudget ELSE Budget

Verdict(row, e) ==
    CASE e \in {"DETERMINISTIC", "KNOWLEDGE_TOO_LARGE"} -> "DETERMINISTIC"
      [] e = "AMBIGUOUS_ORDERS" -> "HUMAN_REVIEW_REQUIRED"
      [] e \in {"TRANSIENT", "MODEL_OUTPUT"} /\ row.used + 1 >= BudgetFor(e)
           -> "RETRY_EXHAUSTED"
      [] OTHER -> "NONE"

RetryRow(row, e) ==
    IF Unbudgeted(row, e)
    THEN [Unleased(row, IF Knowledge(e) THEN "BLOCKED_KNOWLEDGE_AUTHORITY" ELSE "RETRY")
            EXCEPT !.blocks = IF Knowledge(e) THEN @ + 1 ELSE @]
    ELSE IF Verdict(row, e) = "NONE"
         THEN [Unleased(row, "RETRY") EXCEPT !.used = @ + 1]
         ELSE DeadLetterRow(row, Verdict(row, e))

(* The console entry, the audit event and the review task that go with the  *)
(* row, in the same transaction.                                            *)
RecordFailure(j, e) ==
    LET verdict == IF Unbudgeted(jobs[j], e) THEN "NONE" ELSE Verdict(jobs[j], e)
        review == verdict = "HUMAN_REVIEW_REQUIRED" /\ case[j[1]] = "ACTIVE"
    IN
    /\ console' = [console EXCEPT ![j] = IF verdict # "NONE" THEN "OPEN" ELSE @]
    /\ audit' = [audit EXCEPT ![j] =
                   IF verdict # "NONE" THEN @ \union {<<"DEAD_LETTERED", jobs[j].attempt>>}
                   ELSE @]
    /\ tasks' = [tasks EXCEPT ![j] = IF review /\ @ = "NONE" THEN "OPEN" ELSE @]

ReportFailure(w, e) ==
    LET j == workers[w].job IN
    /\ workers[w].stage # "idle"
    /\ e \in FailuresAt(w)
    /\ workers' = [workers EXCEPT ![w] = Idle]
    /\ \/ /\ LeaseHeld(w)
          /\ Unbudgeted(jobs[j], e) /\ Knowledge(e) => jobs[j].blocks < MaxBlocks
          /\ jobs' = [jobs EXCEPT ![j] = RetryRow(@, e)]
          /\ RecordFailure(j, e)
       \/ /\ ~LeaseHeld(w)
          /\ UNCHANGED <<jobs, deadLetterVars>>
    /\ UNCHANGED <<packetVars, interps, applied>>

-----------------------------------------------------------------------------
(* Operators.  A key that already has its event makes a command a no-op.    *)

KeyUnused(type, key) == \A j \in JobIds : <<type, key>> \notin audit[j]

OperatorDeadLetter(j, key) ==
    /\ KeyUnused("OPERATOR_DEAD_LETTERED", key)
    /\ Claimable(jobs[j])
    /\ jobs' = [jobs EXCEPT ![j] =
                  [Unleased(@, "DEAD_LETTERED") EXCEPT !.class = "OPERATOR_QUARANTINE"]]
    /\ console' = [console EXCEPT ![j] = "OPEN"]
    /\ audit' = [audit EXCEPT ![j] = @ \union {<<"OPERATOR_DEAD_LETTERED", key>>}]
    /\ UNCHANGED <<packetVars, interps, applied, tasks, workers>>

(* Mutant: the requeue leaves the console entry open.                       *)
OperatorRequeue_EntryOpen(j, key) ==
    /\ KeyUnused("OPERATOR_REQUEUED", key)
    /\ jobs[j].state = "DEAD_LETTERED"
    /\ jobs' = [jobs EXCEPT ![j] = Revive(@, [@ EXCEPT !.state = "QUEUED"])]
    /\ audit' = [audit EXCEPT ![j] = @ \union {<<"OPERATOR_REQUEUED", key>>}]
    /\ UNCHANGED <<packetVars, interps, applied, tasks, console, workers>>

OperatorRequeue(j, key) ==
    /\ KeyUnused("OPERATOR_REQUEUED", key)
    /\ jobs[j].state = "DEAD_LETTERED"
    /\ jobs' = [jobs EXCEPT ![j] = Revive(@, [@ EXCEPT !.state = "QUEUED"])]
    /\ console' = [console EXCEPT ![j] = IF @ = "OPEN" THEN "CLOSED" ELSE @]
    /\ audit' = [audit EXCEPT ![j] = @ \union {<<"OPERATOR_REQUEUED", key>>}]
    /\ UNCHANGED <<packetVars, interps, applied, tasks, workers>>

(* The platform console: an administrator settles the entry, not the job.   *)
ResolveDeadLetter(j) ==
    /\ console[j] = "OPEN"
    /\ console' = [console EXCEPT ![j] = "CLOSED"]
    /\ UNCHANGED <<packetVars, jobs, interps, applied, tasks, audit, workers>>

CompleteReviewTask(j) ==
    /\ tasks[j] = "OPEN"
    /\ tasks' = [tasks EXCEPT ![j] = "COMPLETED"]
    /\ UNCHANGED <<packetVars, jobs, interps, applied, console, audit, workers>>

-----------------------------------------------------------------------------
Init ==
    /\ revision = [p \in Packets |-> IF p \in LegacyPackets THEN 1 ELSE 0]
    /\ case = [p \in Packets |-> "NONE"]
    /\ context = [p \in Packets |-> 0]
    /\ answers = [p \in Packets |-> 0]
    /\ jobs = [j \in JobIds |-> IF j[2] = 0 /\ j[1] \in LegacyPackets
                                THEN [NewRow(1) EXCEPT !.bounded = FALSE] ELSE NoRow]
    /\ cause = [j \in JobIds |-> Idle.seen]
    /\ clone = [j \in JobIds |-> FALSE]
    /\ interps = [p \in Packets |-> << >>]
    /\ applied = [p \in Packets |-> {}]
    /\ tasks = [j \in JobIds |-> "NONE"]
    /\ console = [j \in JobIds |-> "NONE"]
    /\ audit = [j \in JobIds |-> {}]
    /\ workers = [w \in Workers |-> Idle]

Produce(p) ==
    Enqueue(p) \/ AdmitAnswer(p) \/ ConfirmIdentity(p) \/ CloseCase(p) \/ Failover(p)

Work(w) ==
    \/ LoadEvidence(w) \/ TakeClone(w) \/ Interpret(w) \/ BeginPersist(w) \/ Persist(w)
    \/ BeginMaterialise(w) \/ Materialise(w) \/ Govern(w) \/ Complete(w) \/ Crash(w)
    \/ \E e \in Errors : ReportFailure(w, e)

Operate(j) ==
    \/ \E key \in OperatorKeys : OperatorDeadLetter(j, key) \/ OperatorRequeue(j, key)
    \/ ResolveDeadLetter(j) \/ CompleteReviewTask(j)

Next ==
    \/ \E p \in Packets : Produce(p)
    \/ \E w \in Workers : Work(w) \/ ClaimNothing(w)
    \/ \E w \in Workers, j \in JobIds : Claim(w, j)
    \/ \E j \in JobIds : LeaseExpires(j) \/ Operate(j)

Spec == Init /\ [][Next]_vars

(* pg_cron starts the consumer every minute and claims take the job that    *)
(* has been due longest, so no due job is passed over for ever; a worker    *)
(* that has claimed ends somehow (the platform kills what hangs); and time  *)
(* passes; and pg_cron runs the hourly reconciliation.  Nothing is assumed  *)
(* of senders, operators or the AI provider.                                *)
Fairness ==
    /\ \A w \in Workers : WF_vars(Work(w))
    /\ \A j \in JobIds : WF_vars(LeaseExpires(j))
    /\ \A j \in JobIds : SF_vars(\E w \in Workers : Claim(w, j))
    /\ SF_vars(\E w \in Workers : ClaimNothing(w))
    /\ \A p \in Packets : WF_vars(Failover(p))

FairSpec == Spec /\ Fairness

-----------------------------------------------------------------------------
(* Properties.                                                              *)

Worker == [stage : Stages, job : JobIds \union {NoJob}, token : Nat, rev : Nat,
           seen : Evidence]

(* Every column holds what the table's check constraints allow: a lease     *)
(* token exactly while LEASED, a dead-letter class exactly while            *)
(* DEAD_LETTERED; and a worker that is busy holds a job.                    *)
TypeOK ==
    /\ revision \in [Packets -> Nat]
    /\ case \in [Packets -> {"NONE", "ACTIVE", "CLOSED"}]
    /\ context \in [Packets -> 0 .. MaxContexts]
    /\ answers \in [Packets -> Nat]
    /\ jobs \in [JobIds -> Row]
    /\ cause \in [JobIds -> Evidence]
    /\ clone \in [JobIds -> BOOLEAN]
    /\ interps \in [Packets -> Seq(Evidence)]
    /\ applied \in [Packets -> SUBSET Evidence]
    /\ tasks \in [JobIds -> {"NONE", "OPEN", "COMPLETED"}]
    /\ console \in [JobIds -> {"NONE", "OPEN", "CLOSED"}]
    /\ workers \in [Workers -> Worker]
    /\ \A j \in JobIds :
         /\ (jobs[j].state = "LEASED") <=> (jobs[j].token # 0)
         /\ (jobs[j].state = "DEAD_LETTERED") <=> (jobs[j].class # "NONE")
    /\ \A w \in Workers : workers[w].stage # "idle" => workers[w].job \in JobIds

(* However crashes, late reports, reclaims and new messages interleave, a   *)
(* job is claimed at most Budget times (plus once per knowledge outage)     *)
(* before it stops or is given new work, so no packet can call the AI       *)
(* provider for ever.                                                       *)
AttemptsBounded ==
    \A j \in JobIds : jobs[j].bounded => jobs[j].claims <= Budget + jobs[j].blocks

(* At most one worker holds authority over a job: one whose lease expired   *)
(* and was handed on, or whose packet moved on, can no longer write.        *)
LeaseExclusive ==
    \A v, w \in Workers :
        LeaseHeld(v) /\ LeaseHeld(w) /\ workers[v].job = workers[w].job => v = w

(* A completed job has put into the case a conclusion that considered all   *)
(* the evidence the job stands for: no message that joined the packet while *)
(* a worker was reading, thinking or writing is left out, and no answer.    *)
EvidenceConsidered ==
    \A j \in JobIds : jobs[j].state = "COMPLETED" =>
        \E c \in applied[j[1]] : Covers(c, Owed(j))

(* An open console entry always names a job that really is stopped.         *)
OpenEntryIsStopped ==
    \A j \in JobIds : console[j] = "OPEN" => jobs[j].state = "DEAD_LETTERED"

(* What a packet's own job puts into the case was made from exactly the     *)
(* messages of the revision its worker claimed: a message that joins        *)
(* between claim and read makes the lease check refuse the conclusion, so   *)
(* none is ever made from more, or from fewer, than the claim was for.      *)
ConclusionMatchesClaim ==
    \A w \in Workers :
        workers[w].stage \in {"materialising", "materialised", "governed"}
          /\ workers[w].job[2] = 0 => workers[w].seen.msgs = workers[w].rev

(* Every stop and every release of a job leaves exactly one new event in    *)
(* the append-only log, whatever the idempotency keys collide with.         *)
TerminationsAudited ==
    [][\A j \in JobIds :
         (jobs[j].state = "DEAD_LETTERED") # (jobs'[j].state = "DEAD_LETTERED")
           => Cardinality(audit'[j]) = Cardinality(audit[j]) + 1]_vars

(* A case context that a newer answer or confirmation has replaced is never *)
(* completed any more, even by a worker that was already running it.        *)
SupersededNeverCompletes ==
    [][\A p \in Packets : \A k \in 1 .. MaxContexts :
         k < context[p] /\ jobs[<<p, k>>].state # "COMPLETED"
           => jobs'[<<p, k>>].state # "COMPLETED"]_vars

(* "Historical jobs are NOT auto-dead-lettered": a job without a budget is  *)
(* stopped by an operator or not at all.                                    *)
LegacyStoppedByOperatorOnly ==
    [][\A j \in JobIds :
         ~jobs[j].bounded /\ jobs[j].state # "DEAD_LETTERED"
           /\ jobs'[j].state = "DEAD_LETTERED"
           => jobs'[j].class = "OPERATOR_QUARANTINE"]_vars

(* Every job comes to rest: completed, or stopped where operators see it,   *)
(* even when every worker that touches it crashes.                          *)
EveryJobSettles ==
    \A j \in JobIds : jobs[j].state # "ABSENT" ~> jobs[j].state \in Terminal

(* Every open packet with an inbound message comes to an accountable case,  *)
(* when the AI fails, and when its failure rolls the case it opened back.   *)
EveryPacketHasCase == \A p \in OpenPackets : revision[p] > 0 ~> case[p] # "NONE"

(* What the runbook says of a job stopped for human review: a review task   *)
(* was opened for it.                                                       *)
ReviewHasTask ==
    \A j \in JobIds : jobs[j].class = "HUMAN_REVIEW_REQUIRED" => tasks[j] # "NONE"

=============================================================================

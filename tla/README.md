# Verification of the Oasis Supabase core

The repository is the Supabase backend of a food company's ERP: Postgres
migrations (`src/supabase/migrations`, the last definition of a function is the
live one), Deno edge functions (`src/supabase/functions`) and the cron jobs that
tie them together.  Its own core logic, and its hardest part, is the path of a
WhatsApp message: webhook, packet, durable AI queue, worker, case, reply.  This
directory models that path from end to end, and the edge functions around it
that have state and failures of their own.

## Inventory

| Part | State | Operations | Hard because | Correct when |
| --- | --- | --- | --- | --- |
| Packet-AI dispatch queue | `whatsapp_packet_ai_dispatch_jobs`: state, revision, lease, attempts, budget, class | enqueue trigger, case-context enqueue, claim with sweep, complete, retry, revive trigger | several workers, leases, crashes, messages that join while a worker runs | no message or answer is lost, work ends, one worker writes |
| Worker and consumer | what an invocation remembers: job, token, revision, evidence | read, look up, interpret, persist, materialise, govern, complete, report | every await is a point where the world moves on | what it writes is what it claimed |
| Persistence, materialisation | `whatsapp_packet_ai_interpretations`, `whatsapp_communication_cases` | lease check, then writes | check and write are separate statements | late writes do no harm |
| Case-context continuation | answers, context revision, cloned interpretations | admit an answer, confirm an identity | a newer context supersedes a running one | a superseded context never completes |
| Dead letters, console, review task | `dead_letter_entries`, `..._dead_letter_events`, `whatsapp_case_department_tasks` | stop, requeue, resolve, complete task | four tables describe one stop | they agree |
| Failover, reconciliation | the case of a packet | hourly failover | races the worker, outlives its failures | every packet has a case |
| Operator reply outbox | `whatsapp_operator_reply_outbox`: status, lease, attempts | enqueue, claim, send, complete, fail, quarantine | the provider cannot take part in the transaction | no reply lost, no blind resend |
| Provider status callbacks | reply status, unmatched receipts in `debug_webhooks`, cursor | match, advance, park, reconcile | callbacks come early, late, twice | status never regresses, no receipt lost |
| Webhook | `whatsapp_buffer`, `whatsapp_messages`, evidence, media events, completion receipts | authenticate, status batch, the steps of each message, answer | the provider repeats, steps fail in the middle, two workers at once | a 200 means all is stored, repeats have one effect |
| Company of a message | companies, authorizations, ledger disputes | build a candidate, decide, mark a dispute | clues that disagree, relays, authorizations that change | no message for a company its clues deny |
| Interpretation | what a request fetched, asked and got | fetch media, ask, ask again, sanitize | budgets inside a lease, cut lists | nothing hidden, nothing invented, within the lease |
| Product resolution | none; the catalogue rows it is given | group, score, cap, close | ties and float comparisons | row order is irrelevant |
| Notification outbox | `notification_outbox`: status, attempts, lease | insert, claim, send, complete, fail, quarantine | as the queue; a second provider as fallback | told once, outcomes true |
| Retry loop | attempt, timers, running operations | begin, time out, settle, wait | late answers, aborted operations that go on | budget kept |
| User provisioning | Auth identities, roles, actors | authorize, scan, create, grant | a paged list that changes, deaths in between | converges, no lost password, step-up held |
| Session bridge | Auth identities, canonical owner of a phone | verify, create, reconcile, clean up, mint | a late reconciliation | what is bound is kept |
| Studio inbox bridge | inbox rows, saved cursor | read a batch, ingest, save | overlapping runs, truncated cursor | every row gets there |
| Account statements | `bi_monthly_ledgers`: status, delivery lease | make, claim, send, finalize, dispute | overlapping runs, lost answers | delivered once, the row is true |
| Hourly reconciliation | runs, exceptions, messages | search a window, record, resolve, sign off | late messages, missed hours | losses are on record |
| Preview certification | a report; jobs of the shared queue | drain, seed, claim, score, judge | other workers on the queue, timeouts | a PASS was earned |
| Case tasks and ownership | `whatsapp_case_department_tasks` | claim, assign, release, complete | competing members, repeated keys | one owner |
| Order autonomy (cores A, B, C) | decisions, promotions | evaluate, promote, clarify | decisions go stale | one promotion, from the newest reading |
| Stock, production, assembly, dispatch | lots, reservations, jobs, cartons | reserve, pick, allocate, release | concurrent reservations of one lot | never over-allocated |
| Finance | intents, settlements, invoices | settle, match, clear, issue | repeated callbacks | settled once |
| Checkout, support, devices, stateless AI helpers | drafts, tickets | single RPCs | mostly idempotency | guarded in one transaction |

How they interact: the webhook inserts a row of `whatsapp_messages`; a row
trigger bumps the packet's revision and enqueues or revives its job in the same
transaction.  `pg_cron` calls the consumer once a minute, which runs the worker
up to three times.  The worker talks to the database by RPC only; the RPCs check
the lease the worker presents.  An operator's confirmation, or an answer of the
customer, enqueues a further job for the case.  A stop writes the console and
may open a review task.  The hourly reconciliation opens a case for what is left
without one.  Replies leave through the operator reply outbox.  The services
around this path share none of the queue's rows; they meet it at its edges: the
webhook's message is the queue's `Enqueue`, the worker's `Interpret` is what
`PacketInterpretation` details, the hourly run's failover is the queue's
`Failover`, and the certification takes jobs of the real queue.

`PROJECT.json` lists the components with their sources and status, and the
hazards at their lines.

## Modules

**`PacketAiDispatch`** is the queue with everything that touches it.  One step is
one SQL transaction or one read of the worker.  Two RPCs (persist, materialise)
check the lease in one statement and write in later ones without locking the
job's row, so each is two steps.

| Variable | Code |
| --- | --- |
| `revision[p]` | `whatsapp_message_packets.ai_dispatch_revision`; it counts the inbound messages of the packet, because the trigger bumps it once for each |
| `case[p]`, `context[p]` | status (none, active, closed) and `context_revision` of the packet's case |
| `answers[p]` | rows of `whatsapp_clarification_answer_evidence` for the case |
| `jobs[j]` | one row; `<<p, 0>>` is the PACKET job, `<<p, k>>` the CASE_CONTEXT job of context `k` (the two partial unique indexes) |
| `cause[j]`, `clone[j]` | the evidence that raised a case-context job, and whether it carries a cloned interpretation |
| `interps[p]`, `applied[p]` | interpretations and the evidence behind what was materialised into the case |
| `tasks`, `console`, `audit` | review task, `dead_letter_entries`, `..._dead_letter_events` |
| `workers[w]` | what an invocation holds between two awaits |

A message is a number: evidence is "the first m messages and the first a
answers".  A fingerprint is the evidence itself (the worker hashes exactly the
messages it read).  `lease_token`, a fresh uuid, is the attempt number of its
claim.  Time is three facts: a lease is live or not, `LeaseExpires` may happen at
any moment, and a row that waits is always due (backoff only delays).  `claims`
and `blocks` of a row are history variables: claims and knowledge outages since
the budget was last reset.

Actions are named for what they are in the code: `Enqueue`, `AdmitAnswer`,
`ConfirmIdentity`, `CloseCase`, `Failover` produce work (`OpenPackets` are those with
status `open`, the only ones the failover looks at); `Claim`, `ClaimNothing`
(with `Sweep` and `RecordSweep` inside) lease it; `LoadEvidence`, `TakeClone`,
`Interpret`, `BeginPersist`, `Persist`, `BeginMaterialise`, `Materialise`,
`Govern`, `Complete` are the worker's awaits; `ReportFailure` is the catch block
with the whole retry RPC and dead-letter helper; `Crash` may take a worker at any
point; `OperatorDeadLetter`, `OperatorRequeue`, `ResolveDeadLetter`,
`CompleteReviewTask` are people.  The errors a stage may report are `FailuresAt`.

**`InterpretationDuty`** is the abstract promise, with no leases, retries or
workers: evidence that reaches a job is owed until a conclusion that covers it is
in the case, or until the job is parked where an operator sees it.
**`PacketAiDispatchRefinement`** maps the queue onto it.

**`OperatorReply`** is the other end of the path: the reply outbox, the consumer
that sends it, the provider, the webhook's status callbacks, and the
reconciliation of callbacks that came before the provider id was recorded.  One
step is one SQL transaction, one REST call of the consumer or the webhook, or
one HTTP exchange with the provider.

| Variable | Code |
| --- | --- |
| `outbox[r]` | one row of `whatsapp_operator_reply_outbox`; `ABSENT` before the enqueue; `token` is `lease_token`, `live` and `due` say that `lease_expires_at` is ahead and `next_attempt_at` past, `pid` is the attempt whose `provider_message_id` is recorded, `error` where `last_error_code` came from |
| `failures[r]` | `SEND_FAILED` events of the reply |
| `workers[w]` | one tick of `whatsapp-operator-reply-consumer`: the claim it works on, the provider's answer, the page it scans |
| `hooks[h]` | one webhook request: its callbacks, those left, the one that did not match, whether one failed |
| `parked`, `processed`, `cursor` | the rows of `debug_webhooks` that keep unmatched callbacks, and the saved `last_scanned_id` |
| `sent`, `reported`, `acked` | the provider: messages taken, callbacks issued, callbacks answered with 200 |
| `faults` | crashes, failed calls, repeated deliveries and overrun leases so far |

The provider takes no part in any transaction.  A message is a reply and the
attempt that posted it, and stands for its `provider_message_id`.  `Post` lets
the provider take a message and answer with its id, without one, or not at all;
a message it answers with an HTTP error it has not taken.  It issues any callback
of a message it took, in any order, and repeats it until it sees 200.

`Enqueue` and `Quarantine` are people and producers; `Claim`, `Post`,
`Complete`, `Fail`, `Refused` are the sending half of a tick; `ReadCursor`,
`ReadPage`, `Scan`, `Mark`, `SaveCursor` its scanning half; `Receive`, `Persist`,
`Park`, `Respond` a webhook request.  `NoSends`, `ReportFails`, `ScanFails`,
`PersistFails`, `Crash` and `HookCrash` are what fails between them.  A worker
whose lease is gone still posts and reports, as the code's would; the RPCs refuse
it.  A callback of a message whose id was never recorded (the answer was lost, or
the lease) stays pending for ever: the code has no way to match it.

**`ReplyPromise`** is what the outbox promises of a reply, without leases, retries,
ticks or requests: messages are begun one after the other while the reply is owed; it
comes to rest as what became of its newest message, in doubt when nobody can know; from
then on it changes only by what the provider says of the message on record.
**`OperatorReplyRefinement`** maps the outbox onto it: a status to a phase, `attempts`
to the messages begun, `pid` to the message on record, and the ticks that post, with or
without their lease, to the messages under way.

**`WebhookIntake`** is `handleWebhookRequest`, one await a step: the boundary
(signature, JSON), the audit of malformed statuses, the status batch, then for each
message of the request buffer, ingest, evidence, dispute, contact, ownership, media,
media event, receipt, and the answer.  `answer[r]` is the HTTP status; `buffered`,
`owned`, `stored` are the rows of `whatsapp_buffer` and `whatsapp_messages` and the
objects of the bucket, each a key and the message it is about; `captured`,
`mediaEvent`, `receipts` are the evidence, media and completion tables.  `RowKey` and
`ObjectNames` are the keys the code computes (from the provider's id, or what the
database or the clock gives), and `Insert` refuses a key in use, which the code takes
for done whosever row it is.  The provider repeats a request until it is
answered 200, may hand it to two workers at once, and each await may fail or be
the last.

**`CustomerIdentity`** is the question the webhook asks next: which company?  A
worker builds the candidate (GST numbers, names, relays) from the sender's
classification, and one database function decides against phone bindings and
authorizations that change meanwhile; a dispute is decided first.  A phone is looked
for as it is written, then in other spellings (`PhoneCompanies`).  Messages are
records of their clues, so any combination of clues can be put in.

**`PacketInterpretation`** is the inside of the worker's `Interpret`, and of the
interactive interpreter: load, media one by one under a budget of time and bytes,
the question with its HTTP retries, one repeated question when the lease leaves
room, the sanitizer.  A worker whose packet is already interpreted (`cached`) fetches
the media and reuses that result without asking.  Time is in units of five seconds.  A
line of the model's answer is its status, whether it names a product and a quantity,
and the list of what it cites; a correction or a fact is the message it names (which
may be blank) and whether it states anything.  The sanitizer looks at the first entries
of each list only (`Looked`), drops lines and items without content (`Kept`), isolates
what cites another packet (`Unproven`, `Foreign`), and downgrades.

**`ProductResolution`** is `resolveProductUtterance`: duplicates grouped, rows and
aliases scored and capped, exact aliases preferred, ties within a delta.  A product's
terms and the candidates are sets; the orders in which the two tables are returned are
numberings of their rows (`seat`, `listed`), which only the choices that the code makes
by order look at: the first of a product's best terms, the first exact alias, the first
of equal candidates.  Scores are hundredths; `rounding` is the outcome of comparing a
float difference with the delta.

**`NotifyEvent`** is `notify-event`: an approval goes through one outbox row per
channel (compare-and-set claim, lease, provider, completion RPC, quarantine), any
other event is sent without one.  **`BoundedRetry`** is
`executeWithBoundedRetry`: attempts, the race of an operation against the timer,
delays, the deadline; operations may settle late or never.

**`AdminProvision`** is `admin-provision-user`: origin, actor, step-up, the paged scan
for the identity, creation, and the grant RPC that checks again.
**`SessionBridge`** is the recovery of a login: legacy verifier, provider, inspection,
creation, the reconciling transaction tried twice, the read of the canonical state,
clean-up, token.  **`InboxBridge`** is the scheduled copy of ERP rows into the studio
inbox behind a cursor that is stored exactly and read back cut to seconds, or given by
the caller.
**`LedgerDelivery`** is both statement generators over one row per company and
period.  **`ZeroLossReconciliation`** is the hourly window over received messages and
packets, in units of ten minutes, with its failover.

**`PreviewCertification`** is the stage-1B certification of a preview: the
orchestrator's phases as one run (drain, fixtures, the probes of gates B and C, the
five gates) over a queue in which other jobs arrive, are claimed and come back.  Gate C
ends with the two concurrent runs past the queue (`Direct`), of which only a second
order draft counts.
Scoring is reduced to what the gates tell apart: as wanted, otherwise, an order where
none may be, no case.

**`MCEdgeServices`** instantiates those of these modules that share no state with each
other, each with its own constants, over one pool of variables `v1 .. v14`; a
behaviour runs the one service that `focus` names, so a run explores the sum of
their state spaces and not the product.  Each property is a service's, guarded by
its focus.

The theorems are in modules of their own:
**`PacketAiDispatchProofs`** (which extends `PacketAiDispatchRefinement`, so it holds
the proof of the refinement too), **`OperatorReplyProofs`**, **`WebhookIntakeProofs`**,
**`NotifyEventProofs`**, **`LedgerDeliveryProofs`** and **`PacketInterpretationProofs`**,
each about the component it is named for (`OperatorReplyProofs` extends
`OperatorReplyRefinement`), and **`ServiceProofs`**, which instantiates the eight
smaller services (`Retry`, `Session`, `Customer`, `Provision`, `Hourly`, `Preview`,
`Inbox`, `Resolution`) over variables of their own names and proves one section about
each.
`MCEdgeServices` instantiates the last four of these modules, instead of the
components, so that **`EdgeServicesProofs`** can apply their theorems to the run's own
properties.  The remaining `MC` modules add symmetry sets, the order of
uuids, and the messages and requests TLC explores.

Definitions named `X_Something` stand before the definition `X` and are mutants:
`X` with a plausible bug.  Replacing `X` by its mutant makes the property named in
`PROJECT.json` fail; they are part of no specification.

## Runs

Deadlock is not checked in the runs of the queue, the intake and the edge services:
with their bounds on messages, requests and invocations the system really comes to
rest.  It is checked in the `replies_` runs, where the next tick can always start.

| Run | Question | Bounds | Distinct states |
| --- | --- | --- | --- |
| `packet` | a packet's own job: exclusive leases, no message left out, and (liveness) every open packet comes to a case | 2 workers, 2 messages, budgets 2 and 1, no symmetry | 74,000 |
| `operators` | stop, requeue, resolve: attempts in budget, console and log agree with the row, a job older than bounded retry is stopped by an operator only | 2 workers, 2 messages, 1 knowledge outage, 1 claim before the job is enrolled, budget 2, 1 key used for both commands | 987,000 |
| `contexts` | a packet's job against two case contexts: superseded contexts never complete, and the queue implements `InterpretationDuty` | 2 workers, 1 message, 2 contexts, budget 1 | 572,562 |
| `superseded` | liveness for contexts that can never complete | 1 worker, 2 contexts, budget 1, a packet that is not open | 21,772 |
| `review` | expected violation: `ReviewHasTask` | 1 worker, 1 message | |
| `replies_safety` | exclusive claims, a resend only after a lost lease, no callback lost, what a reply at rest says is true of the provider, and the outbox implements `ReplyPromise` | 1 reply with 2 messages, 2 ticks, 1 request at a time, batches of 2 out of 2 statuses, pages of 2, ceiling 2, 1 fault | 1,259,123 |
| `replies_progress` | liveness: replies come to rest under their ceiling, kept callbacks are reflected | 1 reply with 3 claims, 2 ticks, 1 request, pages of 1, ceiling 2, 1 fault, no symmetry | 77,500 |
| `replies_errorcode` | expected violation: `FailureCodeKept` | 1 reply | |
| `intake` | a 200 means stored, repeats leave one effect, and (liveness) authentic requests are acknowledged | 10 requests in 7 mixes, 11 kinds of message, 2 workers, 1 fault | 143,083 |
| `edge_safety` | what the eleven services in `MCEdgeServices` promise | below | 1,064,301 |
| `edge_progress` | liveness: provisioning converges, the inbox catches up | 2 workers or runs, 1 fault | 142,700 |
| `inbox_failed_rows` | expected violation: `FailedRowsAreKept` | 2 rows, 1 run, 1 fault | |

Why the bounds are enough to meet the interesting cases: two workers give a
takeover with a stale survivor; a second message gives a revision bump at each
point of a running worker and a revival of a stopped job; budget 2 gives one
retry and one exhaustion, and the model-output budget 1 differs from it; two
contexts give supersession while running; one key reused across jobs gives both
a replay and a collision.  One packet is enough for these properties because
rows of different packets meet only in the choice of which to claim, which the
model leaves free; the theorems cover any number.

For the replies: two ticks give a takeover with a stale survivor that still posts
and reports, and two scans of the same kept callbacks behind one saved cursor; a
second claim of one reply gives two messages and a callback of the wrong one; two
contradictory statuses of a message, in one batch or in successive requests, and
two ticks that reconcile them meanwhile give every order of application; a page of
one callback makes the cursor pass callbacks that never match; the fault puts a
crash, a failed call or a repeated delivery between any two steps.  One reply is
enough here because replies meet only in the choice of which to claim; the
theorems cover any number of replies, ticks, requests and faults.

For the intake: two requests share a message, one has two messages of which the
second is the order, and others carry what the classifier must order by precedence,
an album, an unsupported file, an echo, an unknown sender and a message without id;
one fault at any await, and repeats while an earlier worker is still at work, give
every partial failure and its replay.

For the edge services: `notify` has an approval and an event with recipients of four
kinds, 2 workers, 2 attempts, 1 fault, and edits of the application between them;
`provision` two actors of different rank, five requests, a list whose pages hold one
identity; `session` two logins of one phone, three failures and one reconciliation
that outlives its caller, which is the least that separates a clean-up from a late
binding; `inbox` four rows whose order by time and by id differ, batches of two, and a caller
that names a cursor;
`identity` three companies of which two share a name, four kinds of sender and two
changes of authorizations; `bi_monthly` and `rescue` two runs over one statement with
a stop, a gateway error and a changed phone; `interpretation` packets of up to three
messages that exceed the bytes, the time and the legacy size, and answers that are
usable, broken or unproven, with an id of another packet before and beyond the cut of a
line's evidence (two here, 16 in the code), and facts and corrections of this packet,
another, or none; `reconciliation` every sending and arrival time of one
message over two hours, runs late or missed; `resolution` three products with
duplicates and up to two of four aliases, in every order; `retry` three attempts under budgets that
end in a call and in a delay; `certification` three fixtures, the probes, a job of an
earlier certification and a real one, a drain of one job, one fault.

The code's own numbers (budgets 10 and 3, lease 120 s, three jobs a tick, 17
messages; five failures, lease 60 s, five replies a tick, pages of ten) are
constants or are abstracted; nothing depends on their size.

### Fairness

Safety properties and theorems rest on none.  The queue's liveness properties
(`packet`, `superseded`) assume that a worker
which has claimed does something next, if only to be killed (the platform bounds
an invocation); that time passes; that a job which is claimable again and again
is claimed (`pg_cron` runs the consumer every minute, and the claim takes the row
that has been due longest, so a job is passed over only finitely often); and that
the hourly reconciliation runs.  Nothing is assumed of senders, operators or the
AI provider: workers may crash for ever, and jobs still come to rest because each
reclaim spends budget.

The replies' liveness run assumes that every step of a tick or a request that can
be taken is, that leases and retry times pass, that the consumer starts every
minute, and that the provider repeats a callback until it gets 200.  Here faults
are bounded (`MaxFaults`), and have to be: the ceiling counts reported failures
only, and a sender that dies before it reports costs nothing, so a reply whose
sender always dies is claimed for ever.

The intake assumes that a worker that has begun goes on (it may die, within
`MaxFaults`) and that the provider repeats a request until it sees 200.
`edge_progress` assumes that the steps of an invocation go on, that a request which
can be served again and again is sent again, and that the scheduled inbox run
starts again; the inbox's fairness is over its runs together, so one run may be
slow for ever while another works.

## What the runs show against the text

* `review`: the runbook promises one open review task when a job stops for
  ambiguous potential orders.  The materialisation that finds the ambiguity rolls
  back the case it had just opened; when that was the packet's first, the
  dead-letter helper finds no case and opens no task.  Only the packet failover
  brings the packet before a human (`EveryPacketHasCase`, which holds).
* `replies_errorcode`: the callback runbook says that a provider failure maps to
  `FAILED_FINAL` with the bounded, sanitized error code.  A failure callback
  that came before its id was recorded is kept without the code, and the
  reconciliation passes none.
* `inbox_failed_rows`: the bridge's certification says that failed rows do not
  silently advance.  A failed row does not move the cursor itself, but the next good
  row of the batch moves it past the failed one, and later runs read only beyond it.

Met while modelling, and visible in the modules without a run of their own:

* `resolve_dead_letter_v1` closes a console entry and leaves its job stopped, although
  the dead-letter helper's comment says the two never diverge.
* `quarantine_whatsapp_operator_reply` keeps a reply from being claimed, not from being
  sent by a tick that has claimed it already; that tick's report is refused.
* A dispute arriving by WhatsApp marks the ledger disputed although the insert of the
  dispute itself is refused by its trigger (the code's comment says so).
* Gate C of the certification wants ten deliveries of one message to be accepted
  exactly once; the intake accepts each repetition, so a run in which no call fails
  cannot pass, and one in which nine of ten calls fail can.  The drain stops early
  when its claim fails or finds nothing and the setup goes on with jobs of earlier
  certifications that are leased or waiting; they can come back before a fixture's
  job, which fails the run (`VerdictIsEarned` holds because it fails).
* The sanitizer's comment (`sanitize.ts:279`) and a worker's test say that a discarded
  correction leaves no order line trusted as final.  A correction whose message id is
  blank, or whose replacement is, is discarded without a note, and only a note
  downgrades the lines: a line it may supersede stays explicit.  `ExplicitIsProven`
  excuses these corrections by name (`Blank`, `stated`).
* `probeWorkerRuntime` sends a request without a packet, which is refused before the
  worker looks for its key, so it always reports the runtime as configured.

## Proofs

`PacketAiDispatchProofs` proves, for every number of packets, workers, messages,
contexts and keys and for all budgets that satisfy `DispatchAssumption`:

| Theorem | Property |
| --- | --- |
| `TypeCorrect` | `TypeOK` |
| `AttemptsAreBounded` | `AttemptsBounded` |
| `LeasesAreExclusive` | `LeaseExclusive` |
| `EvidenceIsConsidered` | `EvidenceConsidered` |
| `ConclusionsMatchClaims` | `ConclusionMatchesClaim` |
| `SupersededStaysOpen` | `SupersededNeverCompletes` |
| `OpenEntriesAreStopped` | `OpenEntryIsStopped` |
| `LegacyIsStoppedByOperators` | `LegacyStoppedByOperatorOnly` |
| `StopsAreAudited` | `TerminationsAudited` |
| `QueueImplementsDuty` | `ImplementsDuty`: `InterpretationDuty`'s specification under the refinement mapping |

The argument has three layers, each inductive relative to the one before.

1. `Shape`: the rows are well formed, contexts have no gaps, a PACKET row that
   exists carries the packet's current revision, workers hold jobs, and every row
   is `Solvent`: claims so far are covered by budget spent, plus one for the claim
   in progress, plus knowledge outages.  `AttemptsBounded` alone is not
   inductive: it says nothing of how much budget a row that waits has left.
2. `Tokens`: a worker's token is never ahead of its row's attempt count, and two
   workers on one job have different tokens.  It follows from the shape and from
   two facts about steps: attempt counts never go back (`RowsGrow`), and only a
   claim hands out a token (`HoldersKept`).  `LeaseExclusive` is a consequence.
3. `Past` and `Readers`: what is owed or known never exceeds what has arrived, and
   each worker answers for its reading: what it saw lies between the revision it
   claimed and the packet's present; past the lease check of the materialisation
   it is exactly the claimed revision, because a valid lease means that the row,
   and so the packet, is still at that revision; and after the materialisation it
   is in `applied`.  Only `Complete` makes a row COMPLETED, with a valid lease,
   hence `EvidenceConsidered`.

`OpenEntryIsStopped` is inductive beside `Shape`: every action that opens an entry
stops its job in the same step, and every step that takes a row out of
DEAD_LETTERED passes the revive trigger, which closes the entry.
`LegacyStoppedByOperatorOnly` follows step by step from `Shape`: no sweep, report or
trigger takes a row that is not enrolled to DEAD_LETTERED.

`StopsAreAudited` says that no idempotency key of the event log ever collides with
an older one, in which case the insert would silently do nothing.  The invariant
`Log` says which names are spent: a stop by the machinery is named by the number of
the attempt it ended, and a leased row has not ended its attempt yet; a revival by a
message is named by a revision the packet has reached, and a new message reaches a
new one; an operator's command is refused when its key has an event; a job that does
not exist has no events.  Attempt counts and revisions never go back (`RowsGrow`), so
spent names stay spent.

`QueueImplementsDuty` maps every step of the queue to a step of the duty or to a
stutter, one lemma for each kind: leases, retries, takeovers, checks and case-context
bookkeeping touch nothing (`DutyWaits`), a stop parks (`DutyParks`, `DutySweeps`), a
message or an answer owes more (`DutyOwes`, `DutyEnqueue`, `DutyContext`), a
materialisation considers what it read for every job of its packet (`DutyConsiders`),
and a completion settles (`DutySettles`).  The last one is where the other
invariants are needed: the duty settles only what the conclusions cover, which is
what `Readers` says of a worker that completes.  `Blank` (nothing is owed for a job
that does not exist) is all that is needed besides.

`WebhookIntakeProofs` proves, for any messages, requests, workers and faults:

| Theorem | Property |
| --- | --- |
| `AcknowledgementsAreDurable` | `AcknowledgedIsDurable` |
| `EffectsAreSingle` | `OneEffectPerMessage` |

`EffectsAreSingle` is about keys: `Keyed` says that no two rows share a key and that the
key made from a message's id is that of its row and of no other, generated keys and
names included; so a refused insert was refused by the message's own row, which is why
`MediaIsOwn` may take a refused upload for a stored object.

The pipeline takes nothing back (`Grows`), so a fact about a message's rows stays true
whatever other workers do.  `Sound` says which facts a worker's stage stands for: the
messages it has left behind are durable, and the one it is at has its buffer row past
"buffer", its fan-out past "capture", its owner past "own", its media event at
"receipt".  `Proven` says the same of a message with a receipt, which lets a replay
skip every step.  Then a 200 finds all messages behind the worker.

`NotifyEventProofs` proves, for any applications, requests, invocations and attempts:

| Theorem | Property |
| --- | --- |
| `NotifyTypeCorrect` | `TypeOK` |
| `CustomersToldOnce` | `ToldOnce` |
| `OutcomesStayTrue` | `OutcomesAreTrue` |

`WorkersFit`: what an invocation knows is true of the tables when it acts on it.  Its
text is the row's (the row's content is written once), the row it compared is not
younger than the table's, and what it reports as sent was delivered.  `RowsFit`: a
row's status is backed by deliveries and dead letters, and every delivery carried the
row's text.  `KeysSure` is what makes `ToldOnce` inductive: of a target that met none
of the windows (`unsure`: a provider answer, an invocation or a lease lost while it
sent), at most one invocation sends, it owns the row's live lease, and what was
delivered is recorded on the row or still in the hands of that owner, so nobody can
claim the row again.  The windows are exactly those in which the code has no record of
what the provider did.

`LedgerDeliveryProofs` proves `TypeOK` (`LedgerTypeCorrect`) and `LedgerTellsTheTruth`
(`LedgerIsTrue`) for any companies, runs and faults.  The argument is about who holds
a statement: the run whose compare-and-set made its row "sending", from signing the
link to the last word.  `HeldByOne` and `FreeIsUnheld` say that this is one run at a
time and none while the row may be claimed; `RunFits` and `RowFits` that nothing was
accepted for a free row, nor for a held one before "finalize".

`PacketInterpretationProofs` proves of every packet, answer and setting of the
budgets that the module's `TypeOK`, `QuestionsFitTheLease` and `ResultsAreProven` are
invariants (`edge_safety` checks the same through `MCEdgeServices`).
`WithinBudgets` says where the clock is while media is fetched or a question is out;
`MediaAccounted` and `ResultFromReply` tie what is stored to what was attached and
to the answer it was cut from.  Lemmas on the sanitizer (`SanitizedFields`,
`SanitizedKept`) carry the second.  `ResultsAreProven` says of a line that stays
explicit that what the sanitizer looked at proves it: an id beyond the cut of its
evidence, or a correction beyond the limit, is looked at by nobody.  Nor does a
correction that names no message downgrade anything.
What is reused from the cache is only known to rest on all media of a large packet; its
text was stored by an earlier behaviour.

`ServiceProofs` proves, for every value of the constants of the service in question:

| Theorem | Property | Of |
| --- | --- | --- |
| `RetryTypeCorrect`, `BudgetsAreKept` | `TypeOK`, `BudgetIsKept` | `BoundedRetry` |
| `SessionTypeCorrect`, `LoginsStayBound` | `TypeOK`, `BoundIsKept` | `SessionBridge` |
| `IdentityTypeCorrect`, `CluesAlwaysDecide` | `TypeOK`, `CluesDecide` | `CustomerIdentity` |
| `ProvisionTypeCorrect`, `ProvisioningStaysSafe` | `TypeOK`, `ProvisioningIsSafe` | `AdminProvision` |
| `ReconciliationTypeCorrect`, `LossesStayOnRecord` | `TypeOK`, `LossesAreOnRecord` | `ZeroLossReconciliation` |
| `CertificationTypeCorrect`, `VerdictsAreEarned` | `TypeOK`, `VerdictIsEarned` | `PreviewCertification` |
| `InboxTypeCorrect`, `NothingLeftBehind` | `TypeOK`, `NothingIsPassedBy` | `InboxBridge` |
| `ResolutionTypeCorrect`, `RowOrderNeverMatters` | `TypeOK`, `RowOrderIsIrrelevant` | `ProductResolution` |

* Retries: `TimersInBudget` (while a caller with a budget waits, something is due by
  its end) and `OthersAborted` (only the operation waited for is not aborted).
* Logins: an identity is in the hands of one invocation (`HeldApart`), and `LoginFits`
  says what that invocation may conclude: whoever gives up on a reconciliation that
  still runs has seen it refused for good (`Lost`: the identity is gone, or the
  placeholder is not eligible any more), so the clean-up removes only what nothing
  will bind.  It uses that of the two attempts and the read that follows them at most
  one failed (`Calm`).  The proof corrected the property: with two late
  reconciliations of one login both attempts can be unanswered without any other
  failure, the read comes before either of them is over, and the clean-up and a late
  binding meet.  `BoundIsKept` used to exclude that only where `MaxLate` is 1.
* Companies: `AnswerFits`, what the database decides and the webhook does not stop fits
  the message's clues (`ResolveFits`), and it is decided in one statement, so that what
  staff change before or after does not matter.
* Grants: while nothing failed, an identity that was there when the scan began is on a
  page not read yet (`HandlerFits`); a new identity may be put anywhere in the list and
  moves the others back, never forward (`CreationKeepsList`), so that pages cannot skip
  it, and a page shorter than the size is the last (`CutHolds`, `PageHolds`).
  The theorem is about `Init /\ [][Next]_vars`; it needs none of the fairness in the
  module's `Spec`.
* Losses: scheduled runs take place when they are due, no hour is passed over
  (`RunsAreDue`), so the first run after a message's arrival is at most an hour after
  it, and its window reaches back to the message's own time (`FirstRunSees`); what is
  recorded stays so whatever services, operators and repeated keys do.  The types say
  something here too: an exception belongs to a recorded run, and a run is signed off
  only once none of its exceptions is open (`RunsTyped`).
* Certification: no packet is in two places, and one that was worked is no longer on the
  queue (`Apart`); until the verdict every packet due is still to be seeded, expected or
  worked (`Covered`); what was worked has the outcome its results say (`Scored`).  So an
  empty list of expectations means that everything mandatory was worked, by this run.
  A closed fixture, of which no order may come, may miss its outcome, as the gates
  allow; of the replays and the concurrent runs the property says nothing.
  What others do touches only jobs the run does not count on.  Lemmas on taking the
  head of a sequence and on appending to one carry these facts through the queue.  The
  proof found two overlapping cases in `Load`, which TLC had resolved by their order.
* Inbox: no saved cursor, and no cursor that a run will save, is beyond the rows that
  came, unless the caller set it (`Reached`); a row still due is ahead of the saved
  cursor and of every run's (`CursorFits`, `RunFits`), or in that run's batch.  The proof
  corrected two excuses: of two rows with equal times both are excused, whichever came
  first, and a cursor the caller names excuses what it skips.
* Products: two orders give every product the same score and fit unless two aliases of
  it tie (`OrderDoesNotScore`), so they leave the same candidates, one per group
  (`OrderDoesNotCollapse`), and the same exact winner (`OrderDoesNotWin`).  If they rank
  different candidates first, these are equally confident, so both answers are
  ambiguous and name nobody (`OrderDoesNotResolve`).  The proof corrected the property:
  it used to excuse ties only among bulk products, but the cap on scores also makes an
  alias that is the message equal to one that has its words in another order, and the
  representative of a group of duplicates then depends on which is listed first.

`EdgeServicesProofs` connects these modules with the run `edge_safety`.  A behaviour of
`MCEdgeServices` never changes its focus (`FocusStays`), and with a focus on a service
it is a behaviour of that service's own specification (`NotifyRuns` and its like); the
service's theorem then gives the run's property:

| Theorem | Property | From |
| --- | --- | --- |
| `RunTellsOnce` | `ToldOnce` | `CustomersToldOnce` |
| `RunReportsTruly` | `OutcomesAreTrue` | `OutcomesStayTrue` |
| `RunLedgerIsTrue` | `LedgerTellsTheTruth` | `LedgerIsTrue` |
| `RunStaysInLease` | `QuestionsFitTheLease` | `QuestionsStayInLease` |
| `RunStoresProvenResults` | `ResultsAreProven` | `StoredResultsAreProven` |
| `RunKeepsBudgets` | `BudgetIsKept` | `BudgetsAreKept` |
| `RunKeepsLoginsBound` | `BoundIsKept` | `LoginsStayBound` |
| `RunFollowsTheClues` | `CluesDecide` | `CluesAlwaysDecide` |
| `RunProvisionsSafely` | `ProvisioningIsSafe` | `ProvisioningStaysSafe` |
| `RunRecordsLosses` | `LossesAreOnRecord` | `LossesStayOnRecord` |
| `RunEarnsVerdicts` | `VerdictIsEarned` | `VerdictsAreEarned` |
| `RunLeavesNothingBehind` | `NothingIsPassedBy` | `NothingLeftBehind` |
| `RunIgnoresRowOrder` | `RowOrderIsIrrelevant` | `RowOrderNeverMatters` |
| `RunTypesCorrect` | `EdgeTypeOK` | the eleven type theorems |

It also shows that the action-by-action `Next` of `MCEdgeServices`, written so that TLC
reports coverage of each action, contains no step that the services' own `Next` do
not have.

`OperatorReplyProofs` proves, for every number of replies, ticks, requests and
faults, every ceiling, page and batch size:

| Theorem | Property |
| --- | --- |
| `TypeCorrect` | `TypeOK` |
| `ClaimsExclusive` | `ClaimExclusive` |
| `FailuresAreBounded` | `FailuresBounded` |
| `IdsOnlyWhenAccepted` | `IdOnlyWhenAccepted` |
| `ResendsAfterLostLease` | `ResendOnlyAfterLostLease` |
| `DeliveryStays` | `DeliveryNeverErased` |
| `StatusesAreTrue` | `StatusIsTrue` |
| `NoReceiptIsLost` | `NoReceiptLost` |
| `OutboxKeepsPromise` | `ImplementsPromise`, the refinement of `ReplyPromise` |
| `RestsAreHonest` | `RestIsHonest` |

`IdOnlyWhenAccepted`, `DeliveryNeverErased` and `StatusIsTrue` are theorems that no run
repeats: the promise and the honest rest say the same and more.

Three lemmas say once what a step may do to one row, one tick and one request
(`RowsStep`, `TicksStep`, `RequestsStep`), and everything else reasons about those
few moves.  The invariants that strengthen the properties are these.

1. `Leases`: tokens are attempt numbers, a tick's token is never ahead of its row,
   and no two ticks at one reply have the same token.  `ClaimExclusive` alone
   forgets the ticks whose lease is lost, which may still post.
2. `Ceiling`: failures never outnumber attempts, and a reply that may still be
   sent is below the ceiling; the code compares the ceiling with attempts, the
   property with failures.
3. `Sendings`: no tick is at the last attempt of a reply that waits for its retry,
   and the provider has not taken that attempt's message; while a tick posts, or
   reports a rejection, its message is not taken.  Hence only a reclaim can double
   a message.
4. `HeldReported`: whatever a request or tick holds, or the table keeps, the
   provider has said.  With the match on the exact id this gives `StatusIsTrue`.
5. `Keeping`: in a request that has not failed every callback is still to do, in
   hand, in the outbox or kept; what a tick is about to mark is in the outbox; and
   what is in the outbox stays (`ReflectedStays`), since `Covered` is closed under
   the status RPC's ignore rule.

6. `Answered`: a tick that holds the provider's answer stands at the newest message of
   its reply, and that message is no longer under way.  With 1 and 3 this is what makes
   every step of the outbox one of `ReplyPromise` or a stutter (`PromiseStep`, one
   lemma for each step): an acceptance is of the newest message, a refusal means that
   it was not taken, and a reply is given up only when no post of it is under way.
   A post whose tick has lost its lease is still under way in the mapping, so the
   promise speaks of it.
7. `Honest` is proved of the mapped state, from the promise's own steps: how far a reply
   is by its phase.

`DispatchAssumption` states that the budgets are positive and that the
model-output budget does not exceed the default one, as the seeded policies (3
and 10) do.  The bounds (`MaxMessages` and so on) are in the guards; the proofs
hold for any value of them.  `ReplyAssumption` states that ceiling, page and batch
are positive, and that the uuids of kept callbacks are distinct.

`WebhookAssumption` types the inbound requests and their messages, and
`InboundAssumption` says that a request without a message is a batch of statuses.  Of the
services of `MCEdgeServices`, `NotifyAssumption`, `LedgerAssumption`,
`InterpretationAssumption`, `RetryAssumption`, `BridgeAssumption`, `IdentityAssumption`
and `ProvisionAssumption` type the constants, and say that GST numbers and the identities
on Auth's list are finitely many (no relation between the lease and the budgets is assumed
beyond what the code itself computes); `ReconciliationAssumption` also that the scheduled
window is no shorter than an hour, as the cron job's is; `CertificationAssumption` that
a manifest lists each fixture once; `InboxAssumption` that rows have distinct ids;
`ResolutionAssumption` that the catalogue and its aliases are finite.
They are hypotheses of the theorems and not `ASSUME`s of the modules, because the
modules are instantiated: `EdgeAssumption` states them for the run's constants, TLC
evaluates it, and `EdgeServicesProofs` discharges the hypotheses with it.

Only model-checked: the liveness properties (`EveryPacketHasCase`, `EveryJobSettles`,
`EveryReplySettles`, `EveryReceiptReflected`, `RequestsAreAcknowledged`,
`RetriesConverge`, `InboxCatchesUp`), since temporal proofs under fairness are out of the
prover's reach, and the three expected violations.  Every invariant and every action
property that a passing run checks is also a theorem, and so are both refinements.

## Not modelled, and why

Row locks and `skip locked` (a claim is one atomic step; a sweep may in truth skip
a locked row and see it at the next claim); the content of prompts, media and
conclusions; knowledge snapshots, except for the failures they cause; budgets
changed while jobs run; the retired direct path (`..._for_packet` raises, and its
reconcile RPC is reachable only from an unused function);
`release_superseded_whatsapp_packet_ai_dispatch_job`, which nothing calls.  Two
hazards follow from this list and have no property: an interpretation reused under a
newer knowledge snapshot, and a claim that leases a spent row which the sweep of the
same call skipped because another session held its lock.

Of the replies: what is written, the media and templates, the sanitising of
errors; the events table but for the failures; `record_whatsapp_operator_reply_status`,
which nothing calls; the order in which a request's callbacks are processed (any
order, so the code's own is among them).  Assumed of the provider, which is
external: a message answered with an HTTP error is not taken, the ids in its
callbacks are those it answered with, and a failure carries a code.

Of the webhook: the order-writing branches that no live path reaches, the
interaction note, and the reassignment of a conversation's owner (a check and a
later write, without an effect on what is stored).  Of the services: the patterns
that extract text and names, figures and layout of statements, the wording of
notices and prompts, authorisation of the certification runner, its metrics.

Not modelled at all: packet stitching, case tasks, order autonomy, stock, production,
assembly, dispatch, traces, payments, invoices, checkout and support live in SQL
functions of one transaction each, whose guards are row locks, unique indexes and
idempotency keys; what could go wrong in them is mostly inside a statement.  The
stateless AI helpers, device configuration and release scripts keep no state.  The
historical-corpus scripts (`src/scripts/whatsapp-stage2-historical`,
`whatsapp-autonomy-eval`) are single batch runs over files.

## Plan

1. Done: the dispatch queue, its refinement, its theorems, with the refinement's and
   the log's.
2. Done: `OperatorReply`, its theorems, the promise of a reply and the refinement.
3. Done: `WebhookIntake`, `CustomerIdentity`, `PacketInterpretation` and the edge
   services, with theorems for all their invariants.
4. `CaseTasks`: ownership of department tasks by competing members, repeated keys.
   Theorem: one owner.
5. `Autonomy`: decisions that go stale, promotion exactly once.
6. `LotReservation` and `PaymentIntent`: stock never over-allocated, an intent
   settled once.
7. A composition of intake, queue and outbox through their abstract specifications:
   an acknowledged message is in the end in a case or before an operator.

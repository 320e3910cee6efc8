----------------------------- MODULE OperatorReply -----------------------------
(***************************************************************************)
(* The replies the company sends over WhatsApp: the outbox table           *)
(* whatsapp_operator_reply_outbox, the consumer that claims, posts and     *)
(* reports them, the webhook that receives the provider's status           *)
(* callbacks, and the reconciliation of callbacks that came too early.     *)
(*                                                                         *)
(* One step is one SQL transaction, one REST call to the database, or one  *)
(* HTTP exchange with the provider.  The provider is external: it may take *)
(* a message whatever it answers, except that it does not take one it      *)
(* rejects, and it repeats and reorders its callbacks.                     *)
(***************************************************************************)
EXTENDS Naturals, FiniteSets

CONSTANTS
    NReplies,     \* rows of the outbox
    Workers,      \* overlapping ticks of the consumer
    Hooks,        \* overlapping webhook requests
    MaxAttempts,  \* ceiling of reported failures (5 in the code)
    MaxReplies,   \* replies a tick claims at most
    PageSize,     \* unmatched callbacks a tick scans at most
    Callbacks,    \* the statuses the provider reports in this instance
    NoReceipt,    \* no callback
    Id,           \* the uuid under which an unmatched callback is kept
    MaxClaims,    \* bound: claims of one reply
    MaxBatch,     \* bound: callbacks in one webhook request
    MaxFaults     \* bound: crashes, failed calls, repeated deliveries, overrun leases

(* Replies are numbered by created_at.  A message is a reply and the        *)
(* attempt that posted it, and stands for its provider_message_id.          *)
Replies == 1 .. NReplies
Attempts == 1 .. MaxClaims
Messages == Replies \X Attempts
Reported == {"ACCEPTED", "DELIVERED", "READ", "FAILED_FINAL"}
Receipts == [message : Messages, status : Reported]

ASSUME ReplyAssumption ==
    /\ NReplies \in Nat /\ MaxClaims \in Nat /\ MaxFaults \in Nat
    /\ MaxAttempts \in Nat \ {0} /\ MaxReplies \in Nat \ {0}
    /\ PageSize \in Nat \ {0} /\ MaxBatch \in Nat \ {0}
    /\ Callbacks \subseteq Reported
    /\ NoReceipt \notin Receipts
    /\ Id \in [Receipts -> Nat \ {0}]
    /\ \A d, e \in Receipts : Id[d] = Id[e] => d = e

Stopped == {"ACCEPTANCE_UNKNOWN", "QUARANTINED", "FAILED_FINAL"}
Statuses == {"ABSENT", "QUEUED", "SENDING", "FAILED_RETRYABLE"} \union Reported \union Stopped

Rank == [QUEUED |-> 0, SENDING |-> 1, ACCEPTANCE_UNKNOWN |-> 1,
         ACCEPTED |-> 2, DELIVERED |-> 3, READ |-> 4]

Answers == {"ID", "NO_ID", "REJECTED", "TIMEOUT"}
Phases == {"idle", "sending", "posting", "reporting", "reading", "paging", "scanning"}

VARIABLES
    outbox,     \* whatsapp_operator_reply_outbox
    failures,   \* SEND_FAILED events of each reply
    workers,    \* what each tick of the consumer holds in memory
    hooks,      \* what each webhook request holds in memory
    parked,     \* debug_webhooks: unmatched callbacks not yet processed
    processed,  \* debug_webhooks: unmatched callbacks matched since
    cursor,     \* debug_webhooks: last_scanned_id, 0 before the first scan
    sent,       \* provider: the messages it has taken
    reported,   \* provider: the callbacks it has issued
    acked,      \* provider: the callbacks answered with 200
    faults      \* faults so far

provider == <<sent, reported, acked>>
inbox == <<parked, processed, cursor>>
vars == <<outbox, failures, workers, hooks, inbox, provider, faults>>

-----------------------------------------------------------------------------
(* Rows and memories.  token stands for lease_token, a fresh uuid per       *)
(* claim; live says that lease_expires_at is ahead, due that                *)
(* next_attempt_at is past; pid is the attempt whose provider_message_id    *)
(* is recorded, 0 for null; error is where last_error_code came from.       *)

Row == [status : Statuses, attempts : Nat, token : Nat, live : BOOLEAN,
        due : BOOLEAN, pid : Nat, error : {"NONE", "SEND", "CODED", "UNCODED"}]
NoRow == [status |-> "ABSENT", attempts |-> 0, token |-> 0, live |-> FALSE,
          due |-> FALSE, pid |-> 0, error |-> "NONE"]

Idle == [phase |-> "idle", claims |-> 0, reply |-> 0, token |-> 0, answer |-> "TIMEOUT",
         from |-> 0, upto |-> 0, page |-> {}, mark |-> NoReceipt]
NoRequest == [batch |-> {}, todo |-> {}, miss |-> NoReceipt, failed |-> FALSE]

Fault == faults < MaxFaults /\ faults' = faults + 1

(* Mutant: no recovery of a row whose sender died.                          *)
Claimable_NoRecovery(row) ==
    row.status \in {"QUEUED", "FAILED_RETRYABLE"} /\ row.due

Claimable(row) ==
    \/ row.status \in {"QUEUED", "FAILED_RETRYABLE"} /\ row.due
    \/ row.status = "SENDING" /\ ~row.live

(* order by created_at: the oldest claimable row                            *)
NextReply(r) ==
    /\ Claimable(outbox[r])
    /\ \A q \in Replies : Claimable(outbox[q]) => r <= q

(* Mutant: a reclaim hands out the token the dead sender has.               *)
ClaimRow_SameToken(row) ==
    [row EXCEPT !.status = "SENDING", !.attempts = @ + 1, !.live = TRUE,
                !.token = IF @ = 0 THEN row.attempts + 1 ELSE @]

ClaimRow(row) ==
    [row EXCEPT !.status = "SENDING", !.attempts = @ + 1, !.live = TRUE,
                !.token = row.attempts + 1]

Unleased(row, status) == [row EXCEPT !.status = status, !.token = 0, !.live = FALSE]

CompletedRow(row, n) == [Unleased(row, "ACCEPTED") EXCEPT !.pid = n, !.error = "NONE"]

(* Mutant: an answer that leaves acceptance open is an ordinary failure.    *)
FailedRow_Retried(row, unknown) ==
    [Unleased(row, IF row.attempts < MaxAttempts THEN "FAILED_RETRYABLE" ELSE "FAILED_FINAL")
        EXCEPT !.due = FALSE, !.error = "SEND"]

(* Mutant: the ceiling is off by one.                                       *)
FailedRow_OneMore(row, unknown) ==
    LET status == IF unknown THEN "ACCEPTANCE_UNKNOWN"
                  ELSE IF row.attempts <= MaxAttempts THEN "FAILED_RETRYABLE"
                  ELSE "FAILED_FINAL"
    IN  [Unleased(row, status) EXCEPT !.due = FALSE, !.error = "SEND"]

FailedRow(row, unknown) ==
    LET status == IF unknown THEN "ACCEPTANCE_UNKNOWN"
                  ELSE IF row.attempts < MaxAttempts THEN "FAILED_RETRYABLE"
                  ELSE "FAILED_FINAL"
    IN  [Unleased(row, status) EXCEPT !.due = FALSE, !.error = "SEND"]

(* Mutant: any callback of a reply with a recorded id is taken for it.      *)
Matched_ByReply(e) == outbox[e.message[1]].pid # 0

Matched(e) == outbox[e.message[1]].pid = e.message[2]

(* Mutant: a late failure overrides a verified delivery.                    *)
Ignored_FailureWins(current, target) ==
    \/ current = "FAILED_FINAL"
    \/ target # "FAILED_FINAL" /\ Rank[target] <= Rank[current]

Ignored(current, target) ==
    \/ current = "FAILED_FINAL"
    \/ target = "FAILED_FINAL" /\ current \in {"DELIVERED", "READ"}
    \/ target # "FAILED_FINAL" /\ Rank[target] <= Rank[current]

(* The status RPC on a matched row; coded says that the caller passed the   *)
(* provider's error code.                                                   *)
StatusRow(row, status, coded) ==
    IF Ignored(row.status, status) THEN row
    ELSE [Unleased(row, status) EXCEPT
            !.error = IF status # "FAILED_FINAL" THEN "NONE"
                      ELSE IF coded THEN "CODED" ELSE "UNCODED"]

Apply(e, coded) ==
    outbox' = [outbox EXCEPT ![e.message[1]] = StatusRow(@, e.status, coded)]

(* The first PageSize pending callbacks after the cursor, else from the top *)
FirstPage(S) == {e \in S : Cardinality({d \in S : Id[d] <= Id[e]}) <= PageSize}

Page(from) ==
    LET after == {e \in parked : Id[e] > from}
    IN  IF after = {} THEN FirstPage(parked) ELSE FirstPage(after)

IsFirst(e, S) == e \in S /\ \A d \in S : Id[e] <= Id[d]

-----------------------------------------------------------------------------
(* Producers and operators.                                                 *)

(* Staff or the autonomy principal enqueue a reply; the same key again      *)
(* returns the row as it is.                                                *)
Enqueue(r) ==
    /\ outbox[r].status = "ABSENT"
    /\ \A q \in 1 .. r - 1 : outbox[q].status # "ABSENT"
    /\ outbox' = [outbox EXCEPT ![r].status = "QUEUED", ![r].due = TRUE]
    /\ UNCHANGED <<failures, workers, hooks, inbox, provider, faults>>

(* Mutant: the lease of a reply in flight stays.                            *)
Quarantine_KeepsLease(r) ==
    /\ outbox[r].status \in {"QUEUED", "SENDING", "FAILED_RETRYABLE", "ACCEPTANCE_UNKNOWN"}
    /\ outbox' = [outbox EXCEPT ![r].status = "QUARANTINED", ![r].due = FALSE]
    /\ UNCHANGED <<failures, workers, hooks, inbox, provider, faults>>

Quarantine(r) ==
    /\ outbox[r].status \in {"QUEUED", "SENDING", "FAILED_RETRYABLE", "ACCEPTANCE_UNKNOWN"}
    /\ outbox' = [outbox EXCEPT ![r] = [Unleased(@, "QUARANTINED") EXCEPT !.due = FALSE]]
    /\ UNCHANGED <<failures, workers, hooks, inbox, provider, faults>>

(* Time.  A lease of 60 s that ends while its worker is still at it, 20 s   *)
(* of which the post may take, is one of the faults.                        *)
Held(r) == \E w \in Workers :
    /\ workers[w].phase \in {"posting", "reporting"}
    /\ workers[w].reply = r /\ workers[w].token = outbox[r].token

LeaseExpires(r) ==
    /\ outbox[r].live
    /\ IF Held(r) THEN Fault ELSE UNCHANGED faults
    /\ outbox' = [outbox EXCEPT ![r].live = FALSE]
    /\ UNCHANGED <<failures, workers, hooks, inbox, provider>>

RetryDue(r) ==
    /\ outbox[r].status = "FAILED_RETRYABLE" /\ ~outbox[r].due
    /\ outbox' = [outbox EXCEPT ![r].due = TRUE]
    /\ UNCHANGED <<failures, workers, hooks, inbox, provider, faults>>

-----------------------------------------------------------------------------
(* A tick of the consumer: claim, post and report up to MaxReplies replies, *)
(* then scan a page of unmatched callbacks.                                 *)

Become(w, m) == workers' = [workers EXCEPT ![w] = m]

StartTick(w) ==
    /\ workers[w].phase = "idle"
    /\ Become(w, [Idle EXCEPT !.phase = "sending"])
    /\ UNCHANGED <<outbox, failures, hooks, inbox, provider, faults>>

Claim(w) ==
    /\ workers[w].phase = "sending" /\ workers[w].claims < MaxReplies
    /\ \E r \in Replies :
        /\ NextReply(r) /\ outbox[r].attempts < MaxClaims
        /\ outbox' = [outbox EXCEPT ![r] = ClaimRow(@)]
        /\ Become(w, [workers[w] EXCEPT !.phase = "posting", !.claims = @ + 1,
                        !.reply = r, !.token = ClaimRow(outbox[r]).token])
    /\ UNCHANGED <<failures, hooks, inbox, provider, faults>>

(* Nothing left to claim, or the tick has claimed its share.                *)
EndSends(w) ==
    /\ workers[w].phase = "sending"
    /\ \/ workers[w].claims = MaxReplies
       \/ \A r \in Replies : ~Claimable(outbox[r])
    /\ Become(w, [Idle EXCEPT !.phase = "reading"])
    /\ UNCHANGED <<outbox, failures, hooks, inbox, provider, faults>>

(* The claim fails, or the provider's credentials are missing.              *)
NoSends(w) ==
    /\ workers[w].phase = "sending" /\ Fault
    /\ Become(w, [Idle EXCEPT !.phase = "reading"])
    /\ UNCHANGED <<outbox, failures, hooks, inbox, provider>>

(* The post.  A message rejected with an HTTP error is not sent; a timeout  *)
(* or an answer without an id says nothing about it.                        *)
Post(w) ==
    /\ workers[w].phase = "posting"
    /\ \E a \in Answers, taken \in BOOLEAN :
        /\ a = "ID" => taken
        /\ a = "REJECTED" => ~taken
        /\ Become(w, [workers[w] EXCEPT !.phase = "reporting", !.answer = a])
        /\ sent' = IF taken THEN sent \union {<<workers[w].reply, workers[w].token>>} ELSE sent
    /\ UNCHANGED <<outbox, failures, hooks, inbox, reported, acked, faults>>

Unclaimed(w) == [Idle EXCEPT !.phase = "sending", !.claims = workers[w].claims]

(* The worker's token still is the row's: what fail_... asks for;           *)
(* complete_... also wants the lease to run.  Without it both refuse.       *)
Holds(w, r) ==
    /\ workers[w].phase \in {"posting", "reporting"} /\ workers[w].reply = r
    /\ outbox[r].status = "SENDING" /\ outbox[r].token = workers[w].token

Complete(w) ==
    LET r == workers[w].reply IN
    /\ workers[w].phase = "reporting" /\ workers[w].answer = "ID"
    /\ Holds(w, r) /\ outbox[r].live
    /\ outbox' = [outbox EXCEPT ![r] = CompletedRow(@, workers[w].token)]
    /\ Become(w, Unclaimed(w))
    /\ UNCHANGED <<failures, hooks, inbox, provider, faults>>

Fail(w) ==
    LET r == workers[w].reply
        unknown == workers[w].answer \in {"NO_ID", "TIMEOUT"}
    IN  /\ workers[w].phase = "reporting" /\ workers[w].answer # "ID"
        /\ Holds(w, r)
        /\ outbox' = [outbox EXCEPT ![r] = FailedRow(@, unknown)]
        /\ failures' = [failures EXCEPT ![r] = IF unknown THEN @ ELSE @ + 1]
        /\ Become(w, Unclaimed(w))
        /\ UNCHANGED <<hooks, inbox, provider, faults>>

Refused(w) ==
    LET r == workers[w].reply IN
    /\ workers[w].phase = "reporting"
    /\ ~(Holds(w, r) /\ (workers[w].answer = "ID" => outbox[r].live))
    /\ Become(w, Unclaimed(w))
    /\ UNCHANGED <<outbox, failures, hooks, inbox, provider, faults>>

(* The call that reports fails: the row stays SENDING.                      *)
ReportFails(w) ==
    /\ workers[w].phase = "reporting" /\ Fault
    /\ Become(w, Unclaimed(w))
    /\ UNCHANGED <<outbox, failures, hooks, inbox, provider>>

ReadCursor(w) ==
    /\ workers[w].phase = "reading"
    /\ Become(w, [workers[w] EXCEPT !.phase = "paging", !.from = cursor])
    /\ UNCHANGED <<outbox, failures, hooks, inbox, provider, faults>>

ReadPage(w) ==
    /\ workers[w].phase = "paging"
    /\ \/ Page(workers[w].from) = {} /\ Become(w, Idle)
       \/ \E e \in Page(workers[w].from) :
            /\ \A d \in Page(workers[w].from) : Id[d] <= Id[e]
            /\ Become(w, [Idle EXCEPT !.phase = "scanning", !.upto = Id[e],
                            !.page = Page(workers[w].from)])
    /\ UNCHANGED <<outbox, failures, hooks, inbox, provider, faults>>

(* One callback of the page: the status RPC, without the error code, which  *)
(* the kept row does not hold.                                              *)
Scan(w) ==
    /\ workers[w].phase = "scanning" /\ workers[w].mark = NoReceipt
    /\ \E e \in Receipts :
        /\ IsFirst(e, workers[w].page)
        /\ IF Matched(e) THEN Apply(e, FALSE) ELSE UNCHANGED outbox
        /\ Become(w, [workers[w] EXCEPT !.page = @ \ {e},
                        !.mark = IF Matched(e) THEN e ELSE NoReceipt])
    /\ UNCHANGED <<failures, hooks, inbox, provider, faults>>

(* The kept row is marked processed, if it still is pending.                *)
Mark(w) ==
    /\ workers[w].mark # NoReceipt
    /\ parked' = parked \ {workers[w].mark}
    /\ processed' = processed \union (parked \intersect {workers[w].mark})
    /\ Become(w, [workers[w] EXCEPT !.mark = NoReceipt])
    /\ UNCHANGED <<outbox, failures, hooks, cursor, provider, faults>>

(* A call for one callback fails; the scan goes on with the next.           *)
ScanFails(w) ==
    /\ workers[w].phase = "scanning" /\ Fault
    /\ \/ /\ workers[w].mark # NoReceipt
          /\ Become(w, [workers[w] EXCEPT !.mark = NoReceipt])
       \/ /\ workers[w].mark = NoReceipt
          /\ \E e \in Receipts : /\ IsFirst(e, workers[w].page)
                                 /\ Become(w, [workers[w] EXCEPT !.page = @ \ {e}])
    /\ UNCHANGED <<outbox, failures, hooks, inbox, provider>>

(* Mutant: the cursor is never saved.                                       *)
SaveCursor_Never(w) ==
    /\ workers[w].phase = "scanning"
    /\ workers[w].page = {} /\ workers[w].mark = NoReceipt
    /\ Become(w, Idle)
    /\ UNCHANGED <<outbox, failures, hooks, inbox, provider, faults>>

SaveCursor(w) ==
    /\ workers[w].phase = "scanning"
    /\ workers[w].page = {} /\ workers[w].mark = NoReceipt
    /\ cursor' = workers[w].upto
    /\ Become(w, Idle)
    /\ UNCHANGED <<outbox, failures, hooks, parked, processed, provider, faults>>

(* The tick dies, or a read or write of the scan fails, which ends it.      *)
Crash(w) ==
    /\ workers[w].phase # "idle" /\ Fault
    /\ Become(w, Idle)
    /\ UNCHANGED <<outbox, failures, hooks, inbox, provider>>

-----------------------------------------------------------------------------
(* The provider and its callbacks.                                          *)

Issue(e) ==
    /\ e.message \in sent /\ e.status \in Callbacks /\ e \notin reported
    /\ reported' = reported \union {e}
    /\ UNCHANGED <<outbox, failures, workers, hooks, inbox, sent, acked, faults>>

SetHook(h, q) == hooks' = [hooks EXCEPT ![h] = q]

(* A request carries callbacks in any order; one that was acknowledged      *)
(* already comes again only as a fault.                                     *)
Receive(h, batch) ==
    /\ hooks[h] = NoRequest
    /\ batch # {} /\ batch \subseteq reported /\ Cardinality(batch) <= MaxBatch
    /\ IF batch \intersect acked = {} THEN UNCHANGED faults ELSE Fault
    /\ SetHook(h, [NoRequest EXCEPT !.batch = batch, !.todo = batch])
    /\ UNCHANGED <<outbox, failures, workers, inbox, provider>>

(* One member of the request: the status RPC.                               *)
Persist(h) ==
    /\ hooks[h].miss = NoReceipt
    /\ \E e \in hooks[h].todo :
        /\ IF Matched(e) THEN Apply(e, TRUE) ELSE UNCHANGED outbox
        /\ SetHook(h, [hooks[h] EXCEPT !.todo = @ \ {e},
                        !.miss = IF Matched(e) THEN NoReceipt ELSE e])
    /\ UNCHANGED <<failures, workers, inbox, provider, faults>>

(* An unmatched member is kept under its uuid, once.                        *)
Park(h) ==
    /\ hooks[h].miss # NoReceipt
    /\ parked' = parked \union ({hooks[h].miss} \ processed)
    /\ SetHook(h, [hooks[h] EXCEPT !.miss = NoReceipt])
    /\ UNCHANGED <<outbox, failures, workers, processed, cursor, provider, faults>>

(* Mutant: a member that failed does not fail the request.                  *)
PersistFails_Silent(h) ==
    /\ Fault
    /\ \/ /\ hooks[h].miss # NoReceipt
          /\ SetHook(h, [hooks[h] EXCEPT !.miss = NoReceipt])
       \/ /\ hooks[h].miss = NoReceipt
          /\ \E e \in hooks[h].todo : SetHook(h, [hooks[h] EXCEPT !.todo = @ \ {e}])
    /\ UNCHANGED <<outbox, failures, workers, inbox, provider>>

(* The call for one member fails; the others are still processed.           *)
PersistFails(h) ==
    /\ Fault
    /\ \/ /\ hooks[h].miss # NoReceipt
          /\ SetHook(h, [hooks[h] EXCEPT !.miss = NoReceipt, !.failed = TRUE])
       \/ /\ hooks[h].miss = NoReceipt
          /\ \E e \in hooks[h].todo :
                SetHook(h, [hooks[h] EXCEPT !.todo = @ \ {e}, !.failed = TRUE])
    /\ UNCHANGED <<outbox, failures, workers, inbox, provider>>

(* 200 acknowledges the whole request; 503 asks for all of it again.        *)
Respond(h) ==
    /\ hooks[h].batch # {} /\ hooks[h].todo = {} /\ hooks[h].miss = NoReceipt
    /\ acked' = IF hooks[h].failed THEN acked ELSE acked \union hooks[h].batch
    /\ SetHook(h, NoRequest)
    /\ UNCHANGED <<outbox, failures, workers, inbox, sent, reported, faults>>

HookCrash(h) ==
    /\ hooks[h].batch # {} /\ Fault
    /\ SetHook(h, NoRequest)
    /\ UNCHANGED <<outbox, failures, workers, inbox, provider>>

-----------------------------------------------------------------------------
Init ==
    /\ outbox = [r \in Replies |-> NoRow]
    /\ failures = [r \in Replies |-> 0]
    /\ workers = [w \in Workers |-> Idle]
    /\ hooks = [h \in Hooks |-> NoRequest]
    /\ parked = {} /\ processed = {} /\ cursor = 0
    /\ sent = {} /\ reported = {} /\ acked = {}
    /\ faults = 0

WorkerStep(w) ==
    \/ StartTick(w) \/ Claim(w) \/ EndSends(w) \/ Post(w)
    \/ Complete(w) \/ Fail(w) \/ Refused(w)
    \/ ReadCursor(w) \/ ReadPage(w) \/ Scan(w) \/ Mark(w) \/ SaveCursor(w)

HookStep(h) == Persist(h) \/ Park(h) \/ Respond(h)

Next ==
    \/ \E r \in Replies : Enqueue(r) \/ Quarantine(r) \/ LeaseExpires(r) \/ RetryDue(r)
    \/ \E w \in Workers :
        WorkerStep(w) \/ NoSends(w) \/ ReportFails(w) \/ ScanFails(w) \/ Crash(w)
    \/ \E e \in Receipts : Issue(e)
    \/ \E h \in Hooks :
        \/ \E batch \in SUBSET reported : Receive(h, batch)
        \/ HookStep(h) \/ PersistFails(h) \/ HookCrash(h)

Spec == Init /\ [][Next]_vars

(* pg_cron starts a tick every minute and every step of a tick or a request *)
(* ends; leases and retry times pass; the provider repeats a callback until *)
(* it is acknowledged.                                                      *)
Redeliver(e) ==
    /\ e \in reported \ acked
    /\ \E h \in Hooks : \E batch \in SUBSET (reported \ acked) :
        e \in batch /\ Receive(h, batch)

Fairness ==
    /\ \A w \in Workers : WF_vars(WorkerStep(w))
    /\ \A h \in Hooks : WF_vars(HookStep(h))
    /\ \A r \in Replies : WF_vars(LeaseExpires(r)) /\ WF_vars(RetryDue(r))
    /\ \A e \in Receipts : WF_vars(Redeliver(e))

FairSpec == Spec /\ Fairness

-----------------------------------------------------------------------------
(* Properties.                                                              *)

(* Rows and memories are well formed: a lease token exactly while SENDING,  *)
(* and never newer than the row's count of attempts.                        *)
TypeOK ==
    /\ outbox \in [Replies -> Row]
    /\ \A r \in Replies :
        /\ (outbox[r].status = "SENDING") <=> (outbox[r].token # 0)
        /\ outbox[r].live => outbox[r].status = "SENDING"
        /\ outbox[r].token <= outbox[r].attempts /\ outbox[r].attempts <= MaxClaims
    /\ failures \in [Replies -> Nat]
    /\ workers \in [Workers -> [phase : Phases, claims : 0 .. MaxReplies,
            reply : Replies \union {0}, token : Nat, answer : Answers, from : Nat,
            upto : Nat, page : SUBSET Receipts, mark : Receipts \union {NoReceipt}]]
    /\ \A w \in Workers : workers[w].phase \in {"posting", "reporting"} =>
        workers[w].reply \in Replies /\ workers[w].token \in Attempts
    /\ hooks \in [Hooks -> [batch : SUBSET Receipts, todo : SUBSET Receipts,
            miss : Receipts \union {NoReceipt}, failed : BOOLEAN]]
    /\ parked \subseteq Receipts /\ processed \subseteq Receipts /\ cursor \in Nat
    /\ sent \subseteq Messages /\ reported \subseteq Receipts /\ acked \subseteq Receipts
    /\ faults \in 0 .. MaxFaults

(* "Exclusive durable claim": no two senders hold the lease of one reply,   *)
(* whatever crashed, expired or was claimed again.                          *)
ClaimExclusive ==
    \A r \in Replies : \A v, w \in Workers : Holds(v, r) /\ Holds(w, r) => v = w

(* The table's CHECK never refuses a write: a provider_message_id is there  *)
(* only on a row the provider has accepted or finally failed.               *)
IdOnlyWhenAccepted ==
    \A r \in Replies : outbox[r].pid # 0 => outbox[r].status \in Reported

(* A reply is sent again after a message the provider took only from an     *)
(* expired lease, that is when that attempt's outcome was never recorded:   *)
(* the outbox promises no more than that, and no less.                      *)
ResendOnlyAfterLostLease ==
    [][\A r \in Replies :
        /\ outbox'[r].attempts # outbox[r].attempts
        /\ <<r, outbox[r].attempts>> \in sent
        => outbox[r].status = "SENDING" /\ ~outbox[r].live]_vars

(* The ceiling on reported failures holds over all retries and reclaims.    *)
FailuresBounded == \A r \in Replies : failures[r] <= MaxAttempts

(* What an outbox status says of a reported one: nothing is lost by         *)
(* ignoring the callback.                                                   *)
Covered(status) ==
    CASE status = "ACCEPTED" -> Reported
      [] status = "DELIVERED" -> {"DELIVERED", "READ", "FAILED_FINAL"}
      [] status = "READ" -> {"READ", "FAILED_FINAL"}
      [] OTHER -> {"DELIVERED", "READ", "FAILED_FINAL"}

Reflected(e) ==
    outbox[e.message[1]].pid = e.message[2] /\ outbox[e.message[1]].status \in Covered(e.status)

(* A callback answered with 200, or marked processed, is in the outbox or   *)
(* still pending: no order of batches, failures and scans loses one.        *)
NoReceiptLost ==
    \A e \in acked \union processed : Reflected(e) \/ e \in parked

(* The outbox never claims more than the provider said of that message.     *)
StatusIsTrue ==
    \A r \in Replies : LET row == outbox[r] IN
        row.pid # 0 /\ row.status # "ACCEPTED" =>
            [message |-> <<r, row.pid>>, status |-> row.status] \in reported

(* "A callback must never erase verified customer delivery", nor may any    *)
(* sender or operator: delivery only becomes reading.                       *)
DeliveryNeverErased ==
    [][\A r \in Replies :
        /\ outbox[r].status = "DELIVERED" => outbox'[r].status \in {"DELIVERED", "READ"}
        /\ outbox[r].status = "READ" => outbox'[r].status = "READ"]_vars

(* Every reply comes to rest, however many senders failed or died.          *)
EveryReplySettles ==
    \A r \in Replies :
        outbox[r].status # "ABSENT" ~> outbox[r].status \in Reported \union Stopped

(* A callback of a message whose id is recorded reaches the outbox, even    *)
(* when it came first and waits among callbacks that never will match.      *)
EveryReceiptReflected ==
    \A e \in Receipts :
        (e \in reported /\ outbox[e.message[1]].pid = e.message[2]) ~> Reflected(e)

(* The callback runbook: a provider failure maps to FAILED_FINAL and the    *)
(* bounded, sanitized error code the provider gave.                         *)
FailureCodeKept ==
    \A r \in Replies :
        outbox[r].pid # 0 /\ outbox[r].status = "FAILED_FINAL" => outbox[r].error = "CODED"
=============================================================================

-------------------------- MODULE OperatorReplyProofs --------------------------
(***************************************************************************)
(* Proofs about OperatorReply for any number of replies, ticks, requests   *)
(* and faults, and for any ceiling, page and batch size.                   *)
(***************************************************************************)
EXTENDS OperatorReplyRefinement, TLAPS

(* What TypeOK says of one row, of one tick and of one request.             *)
GoodRow(row) ==
    /\ row \in Row
    /\ (row.status = "SENDING") <=> (row.token # 0)
    /\ row.live => row.status = "SENDING"
    /\ row.token <= row.attempts /\ row.attempts <= MaxClaims

Busy(m) == m.phase \in {"posting", "reporting"}

Tick == [phase : Phases, claims : 0 .. MaxReplies,
         reply : Replies \union {0}, token : Nat, answer : Answers, from : Nat,
         upto : Nat, page : SUBSET Receipts, mark : Receipts \union {NoReceipt}]
GoodTick(m) == m \in Tick /\ (Busy(m) => m.reply \in Replies /\ m.token \in Attempts)

Request == [batch : SUBSET Receipts, todo : SUBSET Receipts,
            miss : Receipts \union {NoReceipt}, failed : BOOLEAN]

-----------------------------------------------------------------------------
(* The row operators, field by field.                                       *)

(* A reply that was never enqueued.                                         *)
LEMMA NoRowFields ==
  /\ GoodRow(NoRow)
  /\ NoRow.status = "ABSENT" /\ NoRow.attempts = 0 /\ NoRow.pid = 0
  BY ReplyAssumption DEF NoRow, GoodRow, Row, Statuses, Reported, Stopped

(* A row that gives up its lease.                                           *)
LEMMA UnleasedFields ==
  ASSUME NEW row \in Row, NEW status \in Statuses
  PROVE  LET u == Unleased(row, status) IN
         /\ u \in Row
         /\ u.status = status /\ u.token = 0 /\ u.live = FALSE
         /\ u.attempts = row.attempts /\ u.due = row.due
         /\ u.pid = row.pid /\ u.error = row.error
  BY DEF Unleased, Row

(* A claimed row carries the token of its new attempt.                      *)
LEMMA ClaimRowFields ==
  ASSUME NEW row, GoodRow(row), row.attempts < MaxClaims
  PROVE  LET c == ClaimRow(row) IN
         /\ GoodRow(c)
         /\ c.status = "SENDING" /\ c.live = TRUE
         /\ c.attempts = row.attempts + 1 /\ c.token = row.attempts + 1
         /\ c.pid = row.pid
<1>1. /\ row \in Row /\ row.attempts \in Nat /\ row.attempts + 1 \in Nat
      /\ "SENDING" \in Statuses
  BY DEF GoodRow, Row, Statuses
<1>2. ClaimRow(row) = [row EXCEPT !.status = "SENDING", !.attempts = row.attempts + 1,
                         !.live = TRUE, !.token = row.attempts + 1]
  BY DEF ClaimRow
<1>3. LET c == ClaimRow(row) IN
         /\ c \in Row
         /\ c.status = "SENDING" /\ c.live = TRUE
         /\ c.attempts = row.attempts + 1 /\ c.token = row.attempts + 1
         /\ c.pid = row.pid
  BY <1>1, <1>2 DEF Row
<1> QED BY <1>1, <1>3, ReplyAssumption DEF GoodRow

(* A completed row: accepted, under the id of its attempt.                  *)
LEMMA CompletedRowFields ==
  ASSUME NEW row, GoodRow(row), NEW n \in Nat
  PROVE  LET c == CompletedRow(row, n) IN
         /\ GoodRow(c)
         /\ c.status = "ACCEPTED" /\ c.token = 0 /\ c.live = FALSE
         /\ c.attempts = row.attempts /\ c.pid = n
<1> DEFINE u == Unleased(row, "ACCEPTED")
<1>1. row \in Row /\ "ACCEPTED" \in Statuses
  BY DEF GoodRow, Statuses, Reported
<1>2. /\ u \in Row /\ u.status = "ACCEPTED" /\ u.token = 0 /\ u.live = FALSE
      /\ u.attempts = row.attempts
  BY <1>1, UnleasedFields
<1>3. CompletedRow(row, n) = [u EXCEPT !.pid = n, !.error = "NONE"]
  BY DEF CompletedRow
<1> HIDE DEF u
<1>4. LET c == CompletedRow(row, n) IN
         /\ c \in Row
         /\ c.status = "ACCEPTED" /\ c.token = 0 /\ c.live = FALSE
         /\ c.attempts = row.attempts /\ c.pid = n
  BY <1>2, <1>3 DEF Row
<1>5. GoodRow(CompletedRow(row, n))
  BY <1>4 DEF GoodRow, Row
<1> QED BY <1>4, <1>5

(* A failed row: retried, unknown or failed for good, by what was answered. *)
LEMMA FailedRowFields ==
  ASSUME NEW row, GoodRow(row), NEW unknown \in BOOLEAN
  PROVE  LET f == FailedRow(row, unknown) IN
         /\ GoodRow(f)
         /\ f.status = (IF unknown THEN "ACCEPTANCE_UNKNOWN"
                        ELSE IF row.attempts < MaxAttempts THEN "FAILED_RETRYABLE"
                        ELSE "FAILED_FINAL")
         /\ f.token = 0 /\ f.live = FALSE
         /\ f.attempts = row.attempts /\ f.pid = row.pid
<1> DEFINE s == IF unknown THEN "ACCEPTANCE_UNKNOWN"
                ELSE IF row.attempts < MaxAttempts THEN "FAILED_RETRYABLE"
                ELSE "FAILED_FINAL"
           u == Unleased(row, s)
<1>1. row \in Row /\ s \in Statuses /\ s # "SENDING"
  BY DEF GoodRow, Statuses, Reported, Stopped
<1>2. FailedRow(row, unknown) = [u EXCEPT !.due = FALSE, !.error = "SEND"]
  BY DEF FailedRow
<1> HIDE DEF s
<1>3. /\ u \in Row /\ u.status = s /\ u.token = 0 /\ u.live = FALSE
      /\ u.attempts = row.attempts /\ u.pid = row.pid
  BY <1>1, UnleasedFields
<1> HIDE DEF u
<1>4. LET f == FailedRow(row, unknown) IN
         /\ f \in Row /\ f.status = s /\ f.token = 0 /\ f.live = FALSE
         /\ f.attempts = row.attempts /\ f.pid = row.pid
  BY <1>2, <1>3 DEF Row
<1>5. GoodRow(FailedRow(row, unknown))
  BY <1>1, <1>4 DEF GoodRow, Row
<1> QED BY <1>4, <1>5 DEF s

(* A quarantined row.                                                       *)
LEMMA QuarantinedRowFields ==
  ASSUME NEW row, GoodRow(row)
  PROVE  LET q == [Unleased(row, "QUARANTINED") EXCEPT !.due = FALSE] IN
         /\ GoodRow(q)
         /\ q.status = "QUARANTINED" /\ q.token = 0 /\ q.live = FALSE
         /\ q.attempts = row.attempts /\ q.pid = row.pid
<1> DEFINE u == Unleased(row, "QUARANTINED")
<1>1. row \in Row /\ "QUARANTINED" \in Statuses
  BY DEF GoodRow, Statuses, Stopped
<1>2. /\ u \in Row /\ u.status = "QUARANTINED" /\ u.token = 0 /\ u.live = FALSE
      /\ u.attempts = row.attempts /\ u.pid = row.pid
  BY <1>1, UnleasedFields
<1> HIDE DEF u
<1>3. LET q == [u EXCEPT !.due = FALSE] IN
         /\ q \in Row /\ q.status = "QUARANTINED" /\ q.token = 0 /\ q.live = FALSE
         /\ q.attempts = row.attempts /\ q.pid = row.pid
  BY <1>2 DEF Row
<1>4. GoodRow([u EXCEPT !.due = FALSE])
  BY <1>3 DEF GoodRow, Row
<1> QED BY <1>3, <1>4 DEF u

(* A row the status RPC has written.                                        *)
LEMMA StatusRowFields ==
  ASSUME NEW row, GoodRow(row), NEW status \in Reported, NEW coded \in BOOLEAN
  PROVE  LET s == StatusRow(row, status, coded) IN
         /\ GoodRow(s)
         /\ s.attempts = row.attempts /\ s.pid = row.pid
         /\ \/ s = row /\ Ignored(row.status, status)
            \/ /\ s.status = status /\ s.token = 0 /\ s.live = FALSE
               /\ ~Ignored(row.status, status)
<1> DEFINE u == Unleased(row, status)
           e == IF status # "FAILED_FINAL" THEN "NONE" ELSE IF coded THEN "CODED" ELSE "UNCODED"
<1>1. row \in Row /\ status \in Statuses /\ status # "SENDING"
  BY DEF GoodRow, Statuses, Reported
<1>2. /\ u \in Row /\ u.status = status /\ u.token = 0 /\ u.live = FALSE
      /\ u.attempts = row.attempts /\ u.pid = row.pid
  BY <1>1, UnleasedFields
<1>3. StatusRow(row, status, coded) =
        IF Ignored(row.status, status) THEN row ELSE [u EXCEPT !.error = e]
  BY DEF StatusRow
<1>4. e \in {"NONE", "CODED", "UNCODED"}
  OBVIOUS
<1> HIDE DEF u, e
<1>5. LET s == [u EXCEPT !.error = e] IN
         /\ s \in Row /\ s.status = status /\ s.token = 0 /\ s.live = FALSE
         /\ s.attempts = row.attempts /\ s.pid = row.pid
  BY <1>2, <1>4 DEF Row
<1>6. GoodRow([u EXCEPT !.error = e])
  BY <1>1, <1>5 DEF GoodRow, Row
<1> QED BY <1>3, <1>5, <1>6

-----------------------------------------------------------------------------
(* The type invariant in parts.                                             *)

Rows == outbox \in [Replies -> Row] /\ \A r \in Replies : GoodRow(outbox[r])
Ticks == workers \in [Workers -> Tick] /\ \A w \in Workers : GoodTick(workers[w])
Requests == hooks \in [Hooks -> Request]
Ledgers ==
    /\ failures \in [Replies -> Nat]
    /\ parked \subseteq Receipts /\ processed \subseteq Receipts /\ cursor \in Nat
    /\ sent \subseteq Messages /\ reported \subseteq Receipts /\ acked \subseteq Receipts
    /\ faults \in 0 .. MaxFaults

(* TypeOK says of every row, tick and request what the parts say.           *)
LEMMA TypeParts ==
  /\ TypeOK <=> Rows /\ Ticks /\ Requests /\ Ledgers
  /\ TypeOK' <=> (Rows /\ Ticks /\ Requests /\ Ledgers)'
<1>1. TypeOK <=> Rows /\ Ticks /\ Requests /\ Ledgers
  <2>1. ASSUME TypeOK PROVE Rows /\ Ticks /\ Requests /\ Ledgers
    BY <2>1 DEF TypeOK, Rows, Ticks, Requests, Ledgers, GoodRow, GoodTick, Tick, Busy, Request
  <2>2. ASSUME Rows, Ticks, Requests, Ledgers PROVE TypeOK
    BY <2>2 DEF TypeOK, Rows, Ticks, Requests, Ledgers, GoodRow, GoodTick, Tick, Busy, Request
  <2> QED BY <2>1, <2>2
<1>2. TypeOK' <=> (Rows /\ Ticks /\ Requests /\ Ledgers)'
  <2>1. ASSUME TypeOK' PROVE (Rows /\ Ticks /\ Requests /\ Ledgers)'
    BY <2>1 DEF TypeOK, Rows, Ticks, Requests, Ledgers, GoodRow, GoodTick, Tick, Busy, Request
  <2>2. ASSUME Rows', Ticks', Requests', Ledgers' PROVE TypeOK'
    BY <2>2 DEF TypeOK, Rows, Ticks, Requests, Ledgers, GoodRow, GoodTick, Tick, Busy, Request
  <2> QED BY <2>1, <2>2
<1> QED BY <1>1, <1>2

(* What is written to one row, one tick or one request leaves the others.   *)
LEMMA SetRow ==
  ASSUME Rows, NEW r \in Replies, NEW row, GoodRow(row),
         outbox' = [outbox EXCEPT ![r] = row]
  PROVE  /\ Rows'
         /\ outbox'[r] = row
         /\ \A q \in Replies : q # r => outbox'[q] = outbox[q]
  BY DEF Rows, GoodRow

(* The same of a tick.                                                      *)
LEMMA SetTick ==
  ASSUME Ticks, NEW w \in Workers, NEW m, GoodTick(m), Become(w, m)
  PROVE  /\ Ticks'
         /\ workers'[w] = m
         /\ \A v \in Workers : v # w => workers'[v] = workers[v]
  BY DEF Ticks, GoodTick, Become

(* The same of a request.                                                   *)
LEMMA SetRequest ==
  ASSUME Requests, NEW h \in Hooks, NEW q \in Request, SetHook(h, q)
  PROVE  /\ Requests'
         /\ hooks'[h] = q
         /\ \A g \in Hooks : g # h => hooks'[g] = hooks[g]
  BY DEF Requests, SetHook

-----------------------------------------------------------------------------
(* What one step may do to one row.                                         *)

Same(old, new) ==
    /\ new.status = old.status /\ new.attempts = old.attempts
    /\ new.token = old.token /\ new.pid = old.pid
    /\ new.live => old.live
Queued(old, new) ==
    /\ old.status = "ABSENT" /\ new.status = "QUEUED"
    /\ new.attempts = old.attempts /\ new.token = old.token /\ new.pid = old.pid
Rests(old, new) ==
    /\ new.token = 0 /\ new.live = FALSE
    /\ new.attempts = old.attempts
Withdrawn(old, new) ==
    /\ old.status \in {"QUEUED", "SENDING", "FAILED_RETRYABLE", "ACCEPTANCE_UNKNOWN"}
    /\ new.status = "QUARANTINED"
    /\ Rests(old, new) /\ new.pid = old.pid
Claimed(w, r, old, new) ==
    /\ Claim(w) /\ workers'[w].reply = r /\ workers'[w].token = new.token
    /\ workers'[w].phase = "posting"
    /\ Claimable(old)
    /\ new.status = "SENDING" /\ new.pid = old.pid
    /\ new.attempts = old.attempts + 1 /\ new.token = old.attempts + 1
Completed(w, r, old, new) ==
    /\ Complete(w) /\ workers[w].reply = r
    /\ old.status = "SENDING" /\ workers[w].token = old.token
    /\ new.status = "ACCEPTED" /\ Rests(old, new) /\ new.pid = old.token
Failed(w, r, old, new) ==
    /\ Fail(w) /\ workers[w].reply = r
    /\ old.status = "SENDING" /\ workers[w].token = old.token
    /\ new.status = (IF workers[w].answer \in {"NO_ID", "TIMEOUT"} THEN "ACCEPTANCE_UNKNOWN"
                     ELSE IF old.attempts < MaxAttempts THEN "FAILED_RETRYABLE"
                     ELSE "FAILED_FINAL")
    /\ Rests(old, new) /\ new.pid = old.pid
Known(e) ==
    \/ \E h \in Hooks : e \in hooks[h].todo
    \/ \E w \in Workers : e \in workers[w].page
Told(e, r, old, new) ==
    /\ Known(e)
    /\ e.message = <<r, old.pid>> /\ ~Ignored(old.status, e.status)
    /\ new.status = e.status /\ Rests(old, new) /\ new.pid = old.pid

RowStep(r, old, new) ==
    \/ Same(old, new)
    \/ Queued(old, new)
    \/ Withdrawn(old, new)
    \/ \E w \in Workers : Claimed(w, r, old, new)
    \/ \E w \in Workers : Completed(w, r, old, new)
    \/ \E w \in Workers : Failed(w, r, old, new)
    \/ \E e \in Receipts : Told(e, r, old, new)

RowSteps == \A r \in Replies : RowStep(r, outbox[r], outbox'[r])

(* A reply has a number, a callback a message and a status.                 *)
LEMMA ReceiptShape ==
  ASSUME NEW e \in Receipts
  PROVE  /\ e.message[1] \in Replies /\ e.message[2] \in Attempts
         /\ e.message = <<e.message[1], e.message[2]>>
         /\ e.status \in Reported
  BY DEF Receipts, Messages

(* One row is written: the others stay as they are.                         *)
LEMMA OneRowStep ==
  ASSUME Rows, NEW r \in Replies, NEW row, GoodRow(row),
         outbox' = [outbox EXCEPT ![r] = row],
         RowStep(r, outbox[r], row)
  PROVE  Rows' /\ RowSteps
<1>1. /\ Rows' /\ outbox'[r] = row
      /\ \A q \in Replies : q # r => outbox'[q] = outbox[q]
  BY SetRow
<1>2. \A q \in Replies : q # r => Same(outbox[q], outbox'[q])
  BY <1>1 DEF Same
<1> QED BY <1>1, <1>2 DEF RowSteps, RowStep

(* The writers of the outbox.                                               *)
LEMMA OutboxWriters ==
  ASSUME Next
  PROVE  \/ \E r \in Replies : Enqueue(r) \/ Quarantine(r) \/ LeaseExpires(r) \/ RetryDue(r)
         \/ \E w \in Workers : Claim(w) \/ Complete(w) \/ Fail(w) \/ Scan(w)
         \/ \E h \in Hooks : Persist(h)
         \/ UNCHANGED outbox
<1>1. ASSUME NEW w \in Workers,
             \/ StartTick(w) \/ EndSends(w) \/ Post(w) \/ Refused(w) \/ ReadCursor(w)
             \/ ReadPage(w) \/ Mark(w) \/ SaveCursor(w) \/ NoSends(w) \/ ReportFails(w)
             \/ ScanFails(w) \/ Crash(w)
      PROVE  UNCHANGED outbox
  BY <1>1 DEF StartTick, EndSends, Post, Refused, ReadCursor, ReadPage, Mark, SaveCursor,
              NoSends, ReportFails, ScanFails, Crash
<1>2. ASSUME NEW h \in Hooks, NEW batch,
             Receive(h, batch) \/ Park(h) \/ Respond(h) \/ PersistFails(h) \/ HookCrash(h)
      PROVE  UNCHANGED outbox
  BY <1>2 DEF Receive, Park, Respond, PersistFails, HookCrash
<1>3. ASSUME NEW e \in Receipts, Issue(e) PROVE UNCHANGED outbox
  BY <1>3 DEF Issue
<1> QED BY <1>1, <1>2, <1>3 DEF Next, WorkerStep, HookStep

(* Every write to the outbox is one of the moves above.                     *)
LEMMA RowsStep ==
  ASSUME TypeOK, Next
  PROVE  Rows' /\ RowSteps
<1>0. Rows /\ Ticks /\ Requests
  BY TypeParts
<1>1. ASSUME NEW r \in Replies, Enqueue(r) PROVE Rows' /\ RowSteps
  <2> DEFINE row == [outbox[r] EXCEPT !.status = "QUEUED", !.due = TRUE]
  <2>1. GoodRow(outbox[r]) /\ outbox[r].status = "ABSENT"
    BY <1>0, <1>1 DEF Rows, Enqueue
  <2>2. outbox' = [outbox EXCEPT ![r] = row]
    BY <1>1 DEF Enqueue
  <2>3. /\ row \in Row /\ row.status = "QUEUED" /\ row.attempts = outbox[r].attempts
        /\ row.token = outbox[r].token /\ row.pid = outbox[r].pid
        /\ row.live = outbox[r].live
    BY <2>1 DEF GoodRow, Row, Statuses
  <2> HIDE DEF row
  <2>4. GoodRow(row)
    BY <2>1, <2>3 DEF GoodRow
  <2>5. RowStep(r, outbox[r], row)
    BY <2>1, <2>3 DEF RowStep, Queued
  <2> QED BY <1>0, <2>2, <2>4, <2>5, OneRowStep
<1>2. ASSUME NEW r \in Replies, Quarantine(r) PROVE Rows' /\ RowSteps
  <2> DEFINE row == [Unleased(outbox[r], "QUARANTINED") EXCEPT !.due = FALSE]
  <2>1. GoodRow(outbox[r])
    BY <1>0 DEF Rows
  <2>2. outbox' = [outbox EXCEPT ![r] = row]
    BY <1>2 DEF Quarantine
  <2>3. /\ GoodRow(row) /\ row.status = "QUARANTINED" /\ row.token = 0 /\ row.live = FALSE
        /\ row.attempts = outbox[r].attempts /\ row.pid = outbox[r].pid
    BY <2>1, QuarantinedRowFields
  <2> HIDE DEF row
  <2>4. RowStep(r, outbox[r], row)
    BY <1>2, <2>3 DEF RowStep, Withdrawn, Rests, Quarantine
  <2> QED BY <1>0, <2>2, <2>3, <2>4, OneRowStep
<1>3. ASSUME NEW r \in Replies, LeaseExpires(r) PROVE Rows' /\ RowSteps
  <2> DEFINE row == [outbox[r] EXCEPT !.live = FALSE]
  <2>1. GoodRow(outbox[r])
    BY <1>0 DEF Rows
  <2>2. outbox' = [outbox EXCEPT ![r] = row]
    BY <1>3 DEF LeaseExpires
  <2>3. /\ row \in Row /\ row.status = outbox[r].status /\ row.attempts = outbox[r].attempts
        /\ row.token = outbox[r].token /\ row.pid = outbox[r].pid /\ row.live = FALSE
    BY <2>1 DEF GoodRow, Row
  <2> HIDE DEF row
  <2>4. GoodRow(row)
    BY <2>1, <2>3 DEF GoodRow
  <2>5. RowStep(r, outbox[r], row)
    BY <2>3 DEF RowStep, Same
  <2> QED BY <1>0, <2>2, <2>4, <2>5, OneRowStep
<1>4. ASSUME NEW r \in Replies, RetryDue(r) PROVE Rows' /\ RowSteps
  <2> DEFINE row == [outbox[r] EXCEPT !.due = TRUE]
  <2>1. GoodRow(outbox[r])
    BY <1>0 DEF Rows
  <2>2. outbox' = [outbox EXCEPT ![r] = row]
    BY <1>4 DEF RetryDue
  <2>3. /\ row \in Row /\ row.status = outbox[r].status /\ row.attempts = outbox[r].attempts
        /\ row.token = outbox[r].token /\ row.pid = outbox[r].pid
        /\ row.live = outbox[r].live
    BY <2>1 DEF GoodRow, Row
  <2> HIDE DEF row
  <2>4. GoodRow(row)
    BY <2>1, <2>3 DEF GoodRow
  <2>5. RowStep(r, outbox[r], row)
    BY <2>3 DEF RowStep, Same
  <2> QED BY <1>0, <2>2, <2>4, <2>5, OneRowStep
<1>5. ASSUME NEW w \in Workers, Claim(w) PROVE Rows' /\ RowSteps
  <2>1. PICK r \in Replies :
          /\ NextReply(r) /\ outbox[r].attempts < MaxClaims
          /\ outbox' = [outbox EXCEPT ![r] = ClaimRow(outbox[r])]
          /\ Become(w, [workers[w] EXCEPT !.phase = "posting", !.claims = @ + 1,
                          !.reply = r, !.token = ClaimRow(outbox[r]).token])
    BY <1>5 DEF Claim
  <2> DEFINE row == ClaimRow(outbox[r])
  <2>2. GoodRow(outbox[r])
    BY <1>0 DEF Rows
  <2>3. /\ GoodRow(row) /\ row.status = "SENDING"
        /\ row.attempts = outbox[r].attempts + 1 /\ row.token = outbox[r].attempts + 1
        /\ row.pid = outbox[r].pid
    BY <2>1, <2>2, ClaimRowFields
  <2> HIDE DEF row
  <2>4. /\ workers'[w].reply = r /\ workers'[w].token = row.token
        /\ workers'[w].phase = "posting"
    BY <1>0, <2>1 DEF Become, row, Ticks, Tick
  <2>5. Claimed(w, r, outbox[r], row)
    BY <1>5, <2>1, <2>3, <2>4 DEF Claimed, NextReply
  <2>6. RowStep(r, outbox[r], row)
    BY <2>5 DEF RowStep
  <2>7. outbox' = [outbox EXCEPT ![r] = row]
    BY <2>1 DEF row
  <2> QED BY <1>0, <2>3, <2>6, <2>7, OneRowStep
<1>6. ASSUME NEW w \in Workers, Complete(w) PROVE Rows' /\ RowSteps
  <2> DEFINE r == workers[w].reply
             row == CompletedRow(outbox[r], workers[w].token)
  <2>1. /\ r \in Replies /\ workers[w].token \in Nat /\ GoodRow(outbox[r])
        /\ outbox[r].status = "SENDING" /\ outbox[r].token = workers[w].token
        /\ outbox' = [outbox EXCEPT ![r] = row]
    BY <1>0, <1>6 DEF Complete, Holds, Ticks, GoodTick, Busy, Rows, Tick
  <2>2. /\ GoodRow(row) /\ row.status = "ACCEPTED" /\ row.token = 0 /\ row.live = FALSE
        /\ row.attempts = outbox[r].attempts /\ row.pid = outbox[r].token
    BY <2>1, CompletedRowFields
  <2> HIDE DEF row
  <2>3. Completed(w, r, outbox[r], row)
    BY <1>6, <2>1, <2>2 DEF Completed, Rests
  <2>4. RowStep(r, outbox[r], row)
    BY <2>3 DEF RowStep
  <2> HIDE DEF r
  <2> QED BY <1>0, <2>1, <2>2, <2>4, OneRowStep
<1>7. ASSUME NEW w \in Workers, Fail(w) PROVE Rows' /\ RowSteps
  <2> DEFINE r == workers[w].reply
             unknown == workers[w].answer \in {"NO_ID", "TIMEOUT"}
             row == FailedRow(outbox[r], unknown)
  <2>1. /\ r \in Replies /\ GoodRow(outbox[r])
        /\ outbox[r].status = "SENDING" /\ outbox[r].token = workers[w].token
        /\ outbox' = [outbox EXCEPT ![r] = row]
    BY <1>0, <1>7 DEF Fail, Holds, Ticks, GoodTick, Busy, Rows
  <2>2. unknown \in BOOLEAN
    OBVIOUS
  <2>3. /\ GoodRow(row) /\ row.token = 0 /\ row.live = FALSE
        /\ row.status = (IF unknown THEN "ACCEPTANCE_UNKNOWN"
                        ELSE IF outbox[r].attempts < MaxAttempts THEN "FAILED_RETRYABLE"
                        ELSE "FAILED_FINAL")
        /\ row.attempts = outbox[r].attempts /\ row.pid = outbox[r].pid
    <3> HIDE DEF unknown, r
    <3> QED BY <2>1, <2>2, FailedRowFields
  <2> HIDE DEF row
  <2>4. Failed(w, r, outbox[r], row)
    BY <1>7, <2>1, <2>3 DEF Failed, Rests
  <2>5. RowStep(r, outbox[r], row)
    BY <2>4 DEF RowStep
  <2> HIDE DEF r
  <2> QED BY <1>0, <2>1, <2>3, <2>5, OneRowStep
<1>8. ASSUME NEW e \in Receipts, NEW coded \in BOOLEAN, Known(e), Matched(e), Apply(e, coded)
      PROVE  Rows' /\ RowSteps
  <2> DEFINE r == e.message[1]
             row == StatusRow(outbox[r], e.status, coded)
  <2>1. /\ r \in Replies /\ e.message = <<r, outbox[r].pid>> /\ e.status \in Reported
    BY <1>8, ReceiptShape DEF Matched
  <2>2. GoodRow(outbox[r])
    BY <1>0, <2>1 DEF Rows
  <2>3. outbox' = [outbox EXCEPT ![r] = row]
    BY <1>8 DEF Apply
  <2>4. /\ GoodRow(row) /\ row.attempts = outbox[r].attempts /\ row.pid = outbox[r].pid
        /\ \/ row = outbox[r]
           \/ /\ row.status = e.status /\ row.token = 0 /\ row.live = FALSE
              /\ ~Ignored(outbox[r].status, e.status)
    BY <2>1, <2>2, StatusRowFields
  <2> HIDE DEF row, r
  <2>5. Same(outbox[r], row) \/ Told(e, r, outbox[r], row)
    BY <1>8, <2>1, <2>4 DEF Same, Told, Rests
  <2>6. RowStep(r, outbox[r], row)
    BY <2>5 DEF RowStep
  <2> QED BY <1>0, <2>1, <2>3, <2>4, <2>6, OneRowStep
<1>9. ASSUME UNCHANGED outbox PROVE Rows' /\ RowSteps
  BY <1>0, <1>9 DEF Rows, RowSteps, RowStep, Same
<1>10. ASSUME NEW w \in Workers, Scan(w) PROVE Rows' /\ RowSteps
  <2>1. PICK e \in Receipts :
          /\ IsFirst(e, workers[w].page)
          /\ IF Matched(e) THEN Apply(e, FALSE) ELSE UNCHANGED outbox
    BY <1>10 DEF Scan
  <2>2. Known(e)
    BY <2>1 DEF IsFirst, Known
  <2> QED BY <2>1, <2>2, <1>8, <1>9
<1>11. ASSUME NEW h \in Hooks, Persist(h) PROVE Rows' /\ RowSteps
  <2>1. PICK e \in hooks[h].todo : IF Matched(e) THEN Apply(e, TRUE) ELSE UNCHANGED outbox
    BY <1>11 DEF Persist
  <2>2. Known(e) /\ e \in Receipts
    BY <1>0, <2>1 DEF Known, Requests, Request
  <2> QED BY <2>1, <2>2, <1>8, <1>9
<1> QED BY OutboxWriters, <1>1, <1>2, <1>3, <1>4, <1>5, <1>6, <1>7, <1>9, <1>10, <1>11

-----------------------------------------------------------------------------
(* What one step may do to one tick.                                        *)

SameSend(old, new) ==
    /\ new.phase = old.phase /\ new.answer = old.answer
    /\ new.reply = old.reply /\ new.token = old.token
SameScan(old, new) == new.page \subseteq old.page /\ new.mark \in {old.mark, NoReceipt}
Posted(w, old, new) ==
    /\ Post(w) /\ old.phase = "posting" /\ new.phase = "reporting"
    /\ new.reply = old.reply /\ new.token = old.token
    /\ new.answer = "REJECTED" => sent' = sent
    /\ sent' \subseteq sent \union {<<old.reply, old.token>>}
    /\ SameScan(old, new)
Scanned(old, new) ==
    /\ ~Busy(new) /\ new.page \subseteq old.page
    /\ \E e \in old.page : Matched(e) /\ Apply(e, FALSE) /\ new.mark = e

TickStep(w, old, new) ==
    \/ (SameSend(old, new) \/ ~Busy(new)) /\ SameScan(old, new)
    \/ Claim(w) /\ new.phase = "posting" /\ SameScan(old, new)
    \/ Posted(w, old, new)
    \/ ~Busy(new) /\ new.page \subseteq parked /\ new.mark = NoReceipt
    \/ Scanned(old, new)

TickSteps == \A w \in Workers : TickStep(w, workers[w], workers'[w])

(* One tick moves: the others stay as they are.                             *)
LEMMA OneTickStep ==
  ASSUME Ticks, NEW w \in Workers, NEW m, GoodTick(m), Become(w, m),
         TickStep(w, workers[w], m)
  PROVE  Ticks' /\ TickSteps
<1>1. /\ Ticks' /\ workers'[w] = m
      /\ \A v \in Workers : v # w => workers'[v] = workers[v]
  BY SetTick
<1>2. \A v \in Workers : v # w =>
        SameSend(workers[v], workers'[v]) /\ SameScan(workers[v], workers'[v])
  BY <1>1 DEF SameSend, SameScan
<1> QED BY <1>1, <1>2 DEF TickSteps, TickStep

(* No step but those of a tick writes its memory.                           *)
LEMMA TickWriters ==
  ASSUME Next
  PROVE  \/ UNCHANGED workers
         \/ \E w \in Workers :
              \/ WorkerStep(w) \/ NoSends(w) \/ ReportFails(w) \/ ScanFails(w) \/ Crash(w)
<1>1. ASSUME NEW r \in Replies, Enqueue(r) \/ Quarantine(r) \/ LeaseExpires(r) \/ RetryDue(r)
      PROVE  UNCHANGED workers
  BY <1>1 DEF Enqueue, Quarantine, LeaseExpires, RetryDue
<1>2. ASSUME NEW h \in Hooks, NEW batch,
             \/ Receive(h, batch) \/ Persist(h) \/ Park(h) \/ Respond(h)
             \/ PersistFails(h) \/ HookCrash(h)
      PROVE  UNCHANGED workers
  BY <1>2 DEF Receive, Persist, Park, Respond, PersistFails, HookCrash
<1>3. ASSUME NEW e \in Receipts, Issue(e) PROVE UNCHANGED workers
  BY <1>3 DEF Issue
<1> QED BY <1>1, <1>2, <1>3 DEF Next, HookStep

(* A tick between two sends or scans holds nothing.                         *)
Blank(m) == m \in Tick /\ ~Busy(m) /\ m.page = {} /\ m.mark = NoReceipt

LEMMA BlankStep ==
  ASSUME Ticks, NEW w \in Workers, NEW m, Blank(m), Become(w, m)
  PROVE  Ticks' /\ TickSteps
<1>1. GoodTick(m) /\ TickStep(w, workers[w], m)
  BY DEF Blank, GoodTick, TickStep, SameScan
<1> QED BY <1>1, OneTickStep

(* What a tick holds when it starts, ends, or has let go of a claim.        *)
LEMMA Blanks ==
  ASSUME Ticks
  PROVE  /\ Blank(Idle)
         /\ Blank([Idle EXCEPT !.phase = "sending"])
         /\ Blank([Idle EXCEPT !.phase = "reading"])
         /\ \A w \in Workers : Blank(Unclaimed(w))
<1>1. 0 \in 0 .. MaxReplies /\ \A w \in Workers : workers[w].claims \in 0 .. MaxReplies
  BY ReplyAssumption DEF Ticks, Tick
<1>2. Blank(Idle)
  BY <1>1 DEF Idle, Blank, Tick, Busy, Phases, Answers
<1>3. Blank([Idle EXCEPT !.phase = "sending"])
  BY <1>1 DEF Idle, Blank, Tick, Busy, Phases, Answers
<1>4. Blank([Idle EXCEPT !.phase = "reading"])
  BY <1>1 DEF Idle, Blank, Tick, Busy, Phases, Answers
<1>5. ASSUME NEW w \in Workers PROVE Blank(Unclaimed(w))
  <2>1. Unclaimed(w) = [Idle EXCEPT !.phase = "sending", !.claims = workers[w].claims]
    BY DEF Unclaimed
  <2>2. Idle \in Tick /\ Idle.page = {} /\ Idle.mark = NoReceipt
    BY <1>2 DEF Blank
  <2>3. LET m == Unclaimed(w) IN
        m \in Tick /\ m.phase = "sending" /\ m.page = {} /\ m.mark = NoReceipt
    BY <1>1, <2>1, <2>2 DEF Tick, Phases
  <2> QED BY <2>3 DEF Blank, Busy
<1> QED BY <1>2, <1>3, <1>4, <1>5

(* Every step of a tick is one of the moves above.                          *)
LEMMA TicksStep ==
  ASSUME TypeOK, Next
  PROVE  Ticks' /\ TickSteps
<1>0. Rows /\ Ticks /\ Ledgers
  BY TypeParts
<1>1. ASSUME UNCHANGED workers PROVE Ticks' /\ TickSteps
  BY <1>0, <1>1 DEF Ticks, TickSteps, TickStep, SameSend, SameScan
<1>2. ASSUME NEW w \in Workers,
             \/ StartTick(w) \/ EndSends(w) \/ NoSends(w) \/ SaveCursor(w) \/ Crash(w)
             \/ Complete(w) \/ Fail(w) \/ Refused(w) \/ ReportFails(w)
      PROVE  Ticks' /\ TickSteps
  <2>1. \/ Become(w, Idle)
        \/ Become(w, [Idle EXCEPT !.phase = "sending"])
        \/ Become(w, [Idle EXCEPT !.phase = "reading"])
        \/ Become(w, Unclaimed(w))
    BY <1>2 DEF StartTick, EndSends, NoSends, SaveCursor, Crash, Complete, Fail, Refused,
                ReportFails
  <2> QED BY <1>0, <2>1, Blanks, BlankStep
<1>3. ASSUME NEW w \in Workers, NEW m, m \in Tick, ~Busy(m), Become(w, m),
             m.page \subseteq workers[w].page, m.mark \in {workers[w].mark, NoReceipt}
      PROVE  Ticks' /\ TickSteps
  <2>1. GoodTick(m) /\ TickStep(w, workers[w], m)
    BY <1>3 DEF GoodTick, TickStep, SameScan
  <2> QED BY <1>0, <1>3, <2>1, OneTickStep
<1>4. ASSUME NEW w \in Workers, Claim(w) PROVE Ticks' /\ TickSteps
  <2>1. PICK r \in Replies :
          /\ outbox[r].attempts < MaxClaims
          /\ Become(w, [workers[w] EXCEPT !.phase = "posting", !.claims = @ + 1,
                          !.reply = r, !.token = ClaimRow(outbox[r]).token])
    BY <1>4 DEF Claim
  <2> DEFINE n == ClaimRow(outbox[r]).token
             m == [workers[w] EXCEPT !.phase = "posting", !.claims = workers[w].claims + 1,
                     !.reply = r, !.token = n]
  <2>2. GoodRow(outbox[r])
    BY <1>0 DEF Rows
  <2>3. n = outbox[r].attempts + 1
    BY <2>1, <2>2, ClaimRowFields
  <2>4. n \in Attempts /\ n \in Nat
    BY <2>1, <2>2, <2>3, ReplyAssumption DEF GoodRow, Row, Attempts
  <2>5. workers[w] \in Tick /\ workers[w].claims + 1 \in 0 .. MaxReplies
    BY <1>0, <1>4, ReplyAssumption DEF Ticks, Tick, Claim
  <2>6. Become(w, m)
    BY <2>1
  <2> HIDE DEF n
  <2>7. /\ m \in Tick /\ m.phase = "posting" /\ m.reply = r /\ m.token = n
        /\ m.page = workers[w].page /\ m.mark = workers[w].mark
    BY <2>4, <2>5 DEF Tick, Phases
  <2> HIDE DEF m
  <2>8. GoodTick(m)
    BY <2>4, <2>7 DEF GoodTick
  <2>9. TickStep(w, workers[w], m)
    BY <1>4, <2>7 DEF TickStep, SameScan
  <2> QED BY <1>0, <2>6, <2>8, <2>9, OneTickStep
<1>5. ASSUME NEW w \in Workers, Post(w) PROVE Ticks' /\ TickSteps
  <2>1. PICK a \in Answers, taken \in BOOLEAN :
          /\ a = "REJECTED" => ~taken
          /\ Become(w, [workers[w] EXCEPT !.phase = "reporting", !.answer = a])
          /\ sent' = IF taken THEN sent \union {<<workers[w].reply, workers[w].token>>} ELSE sent
    BY <1>5 DEF Post
  <2> DEFINE m == [workers[w] EXCEPT !.phase = "reporting", !.answer = a]
  <2>2. GoodTick(workers[w]) /\ workers[w].phase = "posting"
    BY <1>0, <1>5 DEF Ticks, Post
  <2>3. /\ m \in Tick /\ m.phase = "reporting" /\ m.answer = a
        /\ m.reply = workers[w].reply /\ m.token = workers[w].token
        /\ m.page = workers[w].page /\ m.mark = workers[w].mark
    BY <2>2 DEF GoodTick, Tick, Phases
  <2>4. Become(w, m)
    BY <2>1
  <2> HIDE DEF m
  <2>5. GoodTick(m)
    BY <2>2, <2>3 DEF GoodTick, Busy
  <2>6. Posted(w, workers[w], m)
    BY <1>5, <2>1, <2>2, <2>3 DEF Posted, SameScan
  <2> QED BY <1>0, <2>4, <2>5, <2>6, OneTickStep DEF TickStep
<1>6. ASSUME NEW w \in Workers, ReadCursor(w) PROVE Ticks' /\ TickSteps
  <2> DEFINE m == [workers[w] EXCEPT !.phase = "paging", !.from = cursor]
  <2>1. m \in Tick /\ m.phase = "paging" /\ m.page = workers[w].page /\ m.mark = workers[w].mark
    BY <1>0, ZenonT(30) DEF Ticks, Tick, Phases, Ledgers
  <2>2. Become(w, m)
    BY <1>6 DEF ReadCursor
  <2> HIDE DEF m
  <2> QED BY <1>3, <2>1, <2>2 DEF Busy
<1>7. ASSUME NEW w \in Workers, ReadPage(w) PROVE Ticks' /\ TickSteps
  <2>1. CASE Become(w, Idle)
    BY <1>0, <2>1, Blanks, BlankStep
  <2>2. CASE \E e \in Page(workers[w].from) :
               Become(w, [Idle EXCEPT !.phase = "scanning", !.upto = Id[e],
                            !.page = Page(workers[w].from)])
    <3> DEFINE page == Page(workers[w].from)
    <3>1. PICK e \in page :
            Become(w, [Idle EXCEPT !.phase = "scanning", !.upto = Id[e], !.page = page])
      BY <2>2
    <3>2. page \subseteq parked
      BY DEF Page, FirstPage
    <3>3. page \subseteq Receipts /\ Id[e] \in Nat
      BY <1>0, <3>1, <3>2, ReplyAssumption DEF Ledgers
    <3> DEFINE n == Id[e]
               m == [Idle EXCEPT !.phase = "scanning", !.upto = n, !.page = page]
    <3>4. Become(w, m)
      BY <3>1
    <3> HIDE DEF page, n
    <3>5. m \in Tick /\ m.phase = "scanning" /\ m.page = page /\ m.mark = NoReceipt
      <4>1. Idle \in Tick /\ Idle.mark = NoReceipt
        BY <1>0, Blanks DEF Blank
      <4>2. n \in Nat
        BY <3>3 DEF n
      <4> QED BY <3>3, <4>1, <4>2 DEF Tick, Phases
    <3> HIDE DEF m
    <3>6. ~Busy(m) /\ GoodTick(m)
      BY <3>5 DEF Busy, GoodTick
    <3>7. TickStep(w, workers[w], m)
      BY <3>2, <3>5, <3>6 DEF TickStep
    <3> QED BY <1>0, <3>4, <3>6, <3>7, OneTickStep
  <2> QED BY <1>7, <2>1, <2>2 DEF ReadPage
<1>8. ASSUME NEW w \in Workers, Scan(w) PROVE Ticks' /\ TickSteps
  <2>1. PICK e \in Receipts :
          /\ IsFirst(e, workers[w].page)
          /\ IF Matched(e) THEN Apply(e, FALSE) ELSE UNCHANGED outbox
          /\ Become(w, [workers[w] EXCEPT !.page = @ \ {e},
                          !.mark = IF Matched(e) THEN e ELSE NoReceipt])
    BY <1>8 DEF Scan
  <2> DEFINE k == IF Matched(e) THEN e ELSE NoReceipt
             m == [workers[w] EXCEPT !.page = workers[w].page \ {e}, !.mark = k]
  <2>2. Become(w, m)
    BY <2>1
  <2>3. workers[w] \in Tick /\ workers[w].phase = "scanning" /\ e \in workers[w].page
    BY <1>0, <1>8, <2>1 DEF Ticks, GoodTick, Scan, IsFirst
  <2>4. k \in Receipts \union {NoReceipt}
    OBVIOUS
  <2>5. k = NoReceipt \/ (Matched(e) /\ k = e)
    <3>1. CASE Matched(e)
      BY <3>1
    <3>2. CASE ~Matched(e)
      BY <3>2
    <3> QED BY <3>1, <3>2
  <2> HIDE DEF k
  <2>6. /\ m \in Tick /\ m.phase = "scanning" /\ m.page \subseteq workers[w].page /\ m.mark = k
    BY <2>3, <2>4 DEF Tick
  <2> HIDE DEF m
  <2>7. ~Busy(m) /\ GoodTick(m)
    BY <2>6 DEF Busy, GoodTick
  <2>8. CASE k = NoReceipt
    BY <1>3, <2>2, <2>6, <2>7, <2>8
  <2>9. CASE Matched(e) /\ k = e
    <3>1. Scanned(workers[w], m)
      BY <2>1, <2>3, <2>6, <2>7, <2>9 DEF Scanned
    <3> QED BY <1>0, <2>2, <2>7, <3>1, OneTickStep DEF TickStep
  <2> QED BY <2>5, <2>8, <2>9
<1>9. ASSUME NEW w \in Workers, Mark(w) PROVE Ticks' /\ TickSteps
  <2> DEFINE m == [workers[w] EXCEPT !.mark = NoReceipt]
  <2>1. GoodTick(workers[w])
    BY <1>0 DEF Ticks
  <2>2. /\ m \in Tick /\ SameSend(workers[w], m)
        /\ m.page = workers[w].page /\ m.mark = NoReceipt
    BY <2>1 DEF GoodTick, Tick, SameSend
  <2>3. Become(w, m)
    BY <1>9 DEF Mark
  <2> HIDE DEF m
  <2>4. GoodTick(m) /\ TickStep(w, workers[w], m)
    BY <2>1, <2>2 DEF GoodTick, Busy, SameSend, SameScan, TickStep
  <2> QED BY <1>0, <2>3, <2>4, OneTickStep
<1>10. ASSUME NEW w \in Workers, ScanFails(w) PROVE Ticks' /\ TickSteps
  <2>1. workers[w] \in Tick /\ workers[w].phase = "scanning"
    BY <1>0, <1>10 DEF Ticks, GoodTick, ScanFails
  <2>2. CASE Become(w, [workers[w] EXCEPT !.mark = NoReceipt])
    <3> DEFINE m == [workers[w] EXCEPT !.mark = NoReceipt]
    <3>1. m \in Tick /\ m.phase = "scanning" /\ m.page = workers[w].page /\ m.mark = NoReceipt
      BY <2>1 DEF Tick
    <3>2. Become(w, m)
      BY <2>2
    <3> HIDE DEF m
    <3> QED BY <1>3, <3>1, <3>2 DEF Busy
  <2>3. CASE \E e \in Receipts : Become(w, [workers[w] EXCEPT !.page = @ \ {e}])
    <3>1. PICK e \in Receipts : Become(w, [workers[w] EXCEPT !.page = @ \ {e}])
      BY <2>3
    <3> DEFINE m == [workers[w] EXCEPT !.page = workers[w].page \ {e}]
    <3>2. /\ m \in Tick /\ m.phase = "scanning" /\ m.page \subseteq workers[w].page
          /\ m.mark = workers[w].mark
      BY <2>1 DEF Tick
    <3>3. Become(w, m)
      BY <3>1
    <3> HIDE DEF m
    <3> QED BY <1>3, <3>2, <3>3 DEF Busy
  <2> QED BY <1>10, <2>2, <2>3 DEF ScanFails
<1> QED BY TickWriters, <1>1, <1>2, <1>4, <1>5, <1>6, <1>7, <1>8, <1>9, <1>10 DEF WorkerStep

-----------------------------------------------------------------------------
(* What one step may do to one request.                                     *)

Persisted(old, new) ==
    /\ new.batch = old.batch /\ new.failed = old.failed
    /\ \E e \in old.todo :
        /\ new.todo = old.todo \ {e} /\ old.miss = NoReceipt
        /\ \/ Matched(e) /\ Apply(e, TRUE) /\ new.miss = NoReceipt
           \/ new.miss = e
Kept(old, new) ==
    /\ new.batch = old.batch /\ new.failed = old.failed
    /\ new.todo = old.todo /\ new.miss = NoReceipt
    /\ parked' = parked \union ({old.miss} \ processed)

RequestStep(old, new) ==
    \/ new = old
    \/ /\ new.batch \subseteq reported /\ new.todo = new.batch
       /\ new.miss = NoReceipt /\ new.failed = FALSE
    \/ Persisted(old, new)
    \/ Kept(old, new)
    \/ /\ new.failed = TRUE /\ new.batch = old.batch
       /\ new.todo \subseteq old.todo /\ new.miss \in {old.miss, NoReceipt}

RequestSteps == \A h \in Hooks : RequestStep(hooks[h], hooks'[h])

(* One request moves: the others stay as they are.                          *)
LEMMA OneRequestStep ==
  ASSUME Requests, NEW h \in Hooks, NEW q \in Request, SetHook(h, q),
         RequestStep(hooks[h], q)
  PROVE  Requests' /\ RequestSteps
<1>1. /\ Requests' /\ hooks'[h] = q
      /\ \A g \in Hooks : g # h => hooks'[g] = hooks[g]
  BY SetRequest
<1> QED BY <1>1 DEF RequestSteps, RequestStep

(* No step but those of a request writes its memory.                        *)
LEMMA RequestWriters ==
  ASSUME Next
  PROVE  \/ UNCHANGED hooks
         \/ \E h \in Hooks :
              \/ \E batch \in SUBSET reported : Receive(h, batch)
              \/ HookStep(h) \/ PersistFails(h) \/ HookCrash(h)
<1>1. ASSUME NEW r \in Replies, Enqueue(r) \/ Quarantine(r) \/ LeaseExpires(r) \/ RetryDue(r)
      PROVE  UNCHANGED hooks
  BY <1>1 DEF Enqueue, Quarantine, LeaseExpires, RetryDue
<1>2. ASSUME NEW w \in Workers,
             \/ WorkerStep(w) \/ NoSends(w) \/ ReportFails(w) \/ ScanFails(w) \/ Crash(w)
      PROVE  UNCHANGED hooks
  <2>1. CASE StartTick(w) \/ Claim(w) \/ EndSends(w) \/ Post(w)
    BY <2>1 DEF StartTick, Claim, EndSends, Post
  <2>2. CASE Complete(w) \/ Fail(w) \/ Refused(w)
    BY <2>2 DEF Complete, Fail, Refused
  <2>3. CASE ReadCursor(w) \/ ReadPage(w) \/ Scan(w) \/ Mark(w) \/ SaveCursor(w)
    BY <2>3 DEF ReadCursor, ReadPage, Scan, Mark, SaveCursor
  <2>4. CASE NoSends(w) \/ ReportFails(w) \/ ScanFails(w) \/ Crash(w)
    BY <2>4 DEF NoSends, ReportFails, ScanFails, Crash
  <2> QED BY <1>2, <2>1, <2>2, <2>3, <2>4 DEF WorkerStep
<1>3. ASSUME NEW e \in Receipts, Issue(e) PROVE UNCHANGED hooks
  BY <1>3 DEF Issue
<1> QED BY <1>1, <1>2, <1>3 DEF Next

(* No request.                                                              *)
LEMMA NoRequestFields ==
  /\ NoRequest \in Request
  /\ NoRequest.batch = {} /\ NoRequest.todo = {}
  /\ NoRequest.miss = NoReceipt /\ NoRequest.failed = FALSE
  BY DEF NoRequest, Request

(* Every step of a request is one of the moves above.                       *)
LEMMA RequestsStep ==
  ASSUME TypeOK, Next
  PROVE  Requests' /\ RequestSteps
<1>0. Requests /\ Ledgers
  BY TypeParts
<1>1. ASSUME UNCHANGED hooks PROVE Requests' /\ RequestSteps
  BY <1>0, <1>1 DEF Requests, RequestSteps, RequestStep
<1>2. ASSUME NEW h \in Hooks, NEW batch \in SUBSET reported, Receive(h, batch)
      PROVE  Requests' /\ RequestSteps
  <2> DEFINE q == [NoRequest EXCEPT !.batch = batch, !.todo = batch]
  <2>1. batch \subseteq Receipts
    BY <1>0 DEF Ledgers
  <2>2. /\ q \in Request /\ q.batch = batch /\ q.todo = batch
        /\ q.miss = NoReceipt /\ q.failed = FALSE
    BY <2>1, NoRequestFields DEF Request
  <2>3. SetHook(h, q)
    BY <1>2 DEF Receive
  <2> HIDE DEF q
  <2>4. RequestStep(hooks[h], q)
    BY <2>2 DEF RequestStep
  <2> QED BY <1>0, <2>2, <2>3, <2>4, OneRequestStep
<1>3. ASSUME NEW h \in Hooks, Persist(h) PROVE Requests' /\ RequestSteps
  <2>1. PICK e \in hooks[h].todo :
          /\ IF Matched(e) THEN Apply(e, TRUE) ELSE UNCHANGED outbox
          /\ SetHook(h, [hooks[h] EXCEPT !.todo = @ \ {e},
                            !.miss = IF Matched(e) THEN NoReceipt ELSE e])
    BY <1>3 DEF Persist
  <2> DEFINE k == IF Matched(e) THEN NoReceipt ELSE e
             q == [hooks[h] EXCEPT !.todo = hooks[h].todo \ {e}, !.miss = k]
  <2>2. SetHook(h, q)
    BY <2>1
  <2>3. hooks[h] \in Request /\ e \in Receipts /\ hooks[h].miss = NoReceipt
    BY <1>0, <1>3 DEF Requests, Request, Persist
  <2>4. k \in Receipts \union {NoReceipt} /\ (k = e \/ (Matched(e) /\ k = NoReceipt))
    <3>1. CASE Matched(e)
      BY <3>1
    <3>2. CASE ~Matched(e)
      BY <2>3, <3>2
    <3> QED BY <3>1, <3>2
  <2> HIDE DEF k
  <2>5. /\ q \in Request /\ q.batch = hooks[h].batch /\ q.failed = hooks[h].failed
        /\ q.todo = hooks[h].todo \ {e} /\ q.miss = k
    BY <2>3, <2>4 DEF Request
  <2> HIDE DEF q
  <2>6. Persisted(hooks[h], q)
    BY <2>1, <2>3, <2>4, <2>5 DEF Persisted
  <2> QED BY <1>0, <2>2, <2>5, <2>6, OneRequestStep DEF RequestStep
<1>4. ASSUME NEW h \in Hooks, Park(h) PROVE Requests' /\ RequestSteps
  <2> DEFINE q == [hooks[h] EXCEPT !.miss = NoReceipt]
  <2>1. /\ q \in Request /\ q.batch = hooks[h].batch /\ q.failed = hooks[h].failed
        /\ q.todo = hooks[h].todo /\ q.miss = NoReceipt
    BY <1>0 DEF Requests, Request
  <2>2. SetHook(h, q)
    BY <1>4 DEF Park
  <2> HIDE DEF q
  <2>3. Kept(hooks[h], q)
    BY <1>4, <2>1 DEF Kept, Park
  <2> QED BY <1>0, <2>1, <2>2, <2>3, OneRequestStep DEF RequestStep
<1>5. ASSUME NEW h \in Hooks, Respond(h) \/ HookCrash(h) PROVE Requests' /\ RequestSteps
  <2>1. SetHook(h, NoRequest)
    BY <1>5 DEF Respond, HookCrash
  <2>2. RequestStep(hooks[h], NoRequest)
    BY NoRequestFields DEF RequestStep
  <2> QED BY <1>0, <2>1, <2>2, NoRequestFields, OneRequestStep
<1>6. ASSUME NEW h \in Hooks, PersistFails(h) PROVE Requests' /\ RequestSteps
  <2>1. hooks[h] \in Request
    BY <1>0 DEF Requests
  <2>2. CASE SetHook(h, [hooks[h] EXCEPT !.miss = NoReceipt, !.failed = TRUE])
    <3> DEFINE q == [hooks[h] EXCEPT !.miss = NoReceipt, !.failed = TRUE]
    <3>1. /\ q \in Request /\ q.batch = hooks[h].batch /\ q.failed = TRUE
          /\ q.todo = hooks[h].todo /\ q.miss = NoReceipt
      BY <2>1 DEF Request
    <3>2. SetHook(h, q)
      BY <2>2
    <3> HIDE DEF q
    <3>3. RequestStep(hooks[h], q)
      BY <3>1 DEF RequestStep
    <3> QED BY <1>0, <3>1, <3>2, <3>3, OneRequestStep
  <2>3. CASE \E e \in hooks[h].todo :
               SetHook(h, [hooks[h] EXCEPT !.todo = @ \ {e}, !.failed = TRUE])
    <3>1. PICK e \in hooks[h].todo :
            SetHook(h, [hooks[h] EXCEPT !.todo = @ \ {e}, !.failed = TRUE])
      BY <2>3
    <3> DEFINE q == [hooks[h] EXCEPT !.todo = hooks[h].todo \ {e}, !.failed = TRUE]
    <3>2. /\ q \in Request /\ q.batch = hooks[h].batch /\ q.failed = TRUE
          /\ q.todo \subseteq hooks[h].todo /\ q.miss = hooks[h].miss
      BY <2>1 DEF Request
    <3>3. SetHook(h, q)
      BY <3>1
    <3> HIDE DEF q
    <3>4. RequestStep(hooks[h], q)
      BY <3>2 DEF RequestStep
    <3> QED BY <1>0, <3>2, <3>3, <3>4, OneRequestStep
  <2> QED BY <1>6, <2>2, <2>3 DEF PersistFails
<1> QED BY RequestWriters, <1>1, <1>2, <1>3, <1>4, <1>5, <1>6 DEF HookStep

-----------------------------------------------------------------------------
(* Type correctness.                                                        *)

(* The books are kept: events, callbacks, messages, the cursor and faults.  *)
LEMMA LedgersStep ==
  ASSUME TypeOK, Next
  PROVE  Ledgers'
<1>0. Rows /\ Ticks /\ Requests /\ Ledgers
  BY TypeParts
<1>1. Fault => faults' \in 0 .. MaxFaults
  BY <1>0, ReplyAssumption DEF Ledgers, Fault
<1>2. ASSUME NEW r \in Replies, Enqueue(r) \/ Quarantine(r) \/ LeaseExpires(r) \/ RetryDue(r)
      PROVE  Ledgers'
  BY <1>0, <1>1, <1>2 DEF Ledgers, Enqueue, Quarantine, LeaseExpires, RetryDue, inbox, provider
<1>3. ASSUME NEW w \in Workers,
             \/ StartTick(w) \/ Claim(w) \/ EndSends(w) \/ Complete(w) \/ Refused(w)
             \/ ReadCursor(w) \/ ReadPage(w) \/ Scan(w)
      PROVE  Ledgers'
  BY <1>0, <1>3 DEF Ledgers, StartTick, Claim, EndSends, Complete, Refused, ReadCursor,
                    ReadPage, Scan, inbox, provider
<1>4. ASSUME NEW w \in Workers, NoSends(w) \/ ReportFails(w) \/ ScanFails(w) \/ Crash(w)
      PROVE  Ledgers'
  BY <1>0, <1>1, <1>4 DEF Ledgers, NoSends, ReportFails, ScanFails, Crash, inbox, provider
<1>5. ASSUME NEW w \in Workers, Post(w) PROVE Ledgers'
  <2>1. <<workers[w].reply, workers[w].token>> \in Messages
    BY <1>0, <1>5 DEF Ticks, GoodTick, Busy, Post, Messages
  <2>2. sent' \subseteq Messages
    BY <1>0, <1>5, <2>1 DEF Post, Ledgers
  <2> QED BY <1>0, <1>5, <2>2 DEF Ledgers, Post, inbox
<1>6. ASSUME NEW w \in Workers, Fail(w) PROVE Ledgers'
  <2>1. workers[w].reply \in Replies
    BY <1>0, <1>6 DEF Ticks, GoodTick, Busy, Fail
  <2>2. failures' \in [Replies -> Nat]
    BY <1>0, <1>6, <2>1 DEF Ledgers, Fail
  <2> QED BY <1>0, <1>6, <2>2 DEF Ledgers, Fail, inbox, provider
<1>7. ASSUME NEW w \in Workers, Mark(w) PROVE Ledgers'
  BY <1>0, <1>7 DEF Ledgers, Mark, provider
<1>8. ASSUME NEW w \in Workers, SaveCursor(w) PROVE Ledgers'
  BY <1>0, <1>8 DEF Ledgers, SaveCursor, provider, Ticks, Tick
<1>9. ASSUME NEW e \in Receipts, Issue(e) PROVE Ledgers'
  BY <1>0, <1>9 DEF Ledgers, Issue, inbox
<1>10. ASSUME NEW h \in Hooks, NEW batch,
              Receive(h, batch) \/ PersistFails(h) \/ HookCrash(h) \/ Persist(h)
       PROVE  Ledgers'
  BY <1>0, <1>1, <1>10 DEF Ledgers, Receive, PersistFails, HookCrash, Persist, inbox, provider
<1>11. ASSUME NEW h \in Hooks, Park(h) PROVE Ledgers'
  <2>1. hooks[h].miss \in Receipts
    BY <1>0, <1>11 DEF Requests, Request, Park
  <2> QED BY <1>0, <1>11, <2>1 DEF Ledgers, Park, provider
<1>12. ASSUME NEW h \in Hooks, Respond(h) PROVE Ledgers'
  <2>1. hooks[h].batch \subseteq Receipts
    BY <1>0 DEF Requests, Request
  <2> QED BY <1>0, <1>12, <2>1 DEF Ledgers, Respond, inbox
<1> QED BY <1>2, <1>3, <1>4, <1>5, <1>6, <1>7, <1>8, <1>9, <1>10, <1>11, <1>12
        DEF Next, WorkerStep, HookStep

(* Nothing has been written yet.                                            *)
LEMMA TypeOKInit == Init => TypeOK
<1> SUFFICES ASSUME Init PROVE TypeOK
  OBVIOUS
<1>1. Rows
  BY NoRowFields DEF Init, Rows, GoodRow
<1>2. Ticks
  <2>1. Blank(Idle)
    BY ReplyAssumption DEF Idle, Blank, Tick, Busy, Phases, Answers
  <2> QED BY <2>1 DEF Init, Ticks, GoodTick, Blank
<1>3. Requests
  BY NoRequestFields DEF Init, Requests
<1>4. Ledgers
  BY ReplyAssumption DEF Init, Ledgers
<1> QED BY <1>1, <1>2, <1>3, <1>4, TypeParts

(* One step keeps the types.                                                *)
LEMMA TypeOKStep ==
  ASSUME TypeOK, [Next]_vars
  PROVE  TypeOK'
<1>1. CASE Next
  BY <1>1, RowsStep, TicksStep, RequestsStep, LedgersStep, TypeParts
<1>2. CASE UNCHANGED vars
  BY <1>2, TypeParts DEF vars, inbox, provider, Rows, Ticks, Requests, Ledgers
<1> QED BY <1>1, <1>2

(* Every row, tick and request is well formed; a row has a lease token      *)
(* exactly while SENDING, whoever claimed, expired or reported it.          *)
THEOREM TypeCorrect == Spec => []TypeOK
<1>1. Init => TypeOK
  BY TypeOKInit
<1>2. TypeOK /\ [Next]_vars => TypeOK'
  BY TypeOKStep
<1> QED BY <1>1, <1>2, PTL DEF Spec

(* The moves of the parts, a step that changes nothing included.            *)
LEMMA Steps ==
  ASSUME TypeOK, [Next]_vars
  PROVE  TypeOK' /\ RowSteps /\ TickSteps /\ RequestSteps
<1>1. CASE Next
  BY <1>1, RowsStep, TicksStep, RequestsStep, TypeOKStep
<1>2. CASE UNCHANGED vars
  <2>1. outbox' = outbox /\ workers' = workers /\ hooks' = hooks
    BY <1>2 DEF vars
  <2> QED BY <2>1, TypeOKStep DEF RowSteps, RowStep, Same, TickSteps, TickStep, SameSend,
                               SameScan, RequestSteps, RequestStep
<1> QED BY <1>1, <1>2

-----------------------------------------------------------------------------
(* Claims are exclusive: the token of a claim is the row's count of         *)
(* attempts, which only grows, so no two ticks hold the same token of a     *)
(* reply, whether or not the row still knows it.                            *)

Leases ==
    /\ \A r \in Replies : outbox[r].token # 0 => outbox[r].token = outbox[r].attempts
    /\ \A w \in Workers :
        Busy(workers[w]) => workers[w].token <= outbox[workers[w].reply].attempts
    /\ \A v, w \in Workers :
        /\ Busy(workers[v]) /\ Busy(workers[w])
        /\ workers[v].reply = workers[w].reply /\ workers[v].token = workers[w].token
        => v = w

(* What a claim does: the tick and the row get the number of the attempt.   *)
LEMMA ClaimEffect ==
  ASSUME TypeOK, NEW w \in Workers, Claim(w)
  PROVE  LET r == workers'[w].reply IN
         /\ r \in Replies /\ workers'[w].phase = "posting"
         /\ workers'[w].token = outbox[r].attempts + 1
         /\ outbox'[r].attempts = outbox[r].attempts + 1 /\ outbox'[r].status = "SENDING"
         /\ \A v \in Workers : v # w => workers'[v] = workers[v]
         /\ sent' = sent
<1>1. PICK r \in Replies :
        /\ outbox[r].attempts < MaxClaims
        /\ outbox' = [outbox EXCEPT ![r] = ClaimRow(outbox[r])]
        /\ Become(w, [workers[w] EXCEPT !.phase = "posting", !.claims = @ + 1,
                        !.reply = r, !.token = ClaimRow(outbox[r]).token])
  BY DEF Claim
<1>2. Rows /\ Ticks
  BY TypeParts
<1>3. /\ ClaimRow(outbox[r]).status = "SENDING"
      /\ ClaimRow(outbox[r]).attempts = outbox[r].attempts + 1
      /\ ClaimRow(outbox[r]).token = outbox[r].attempts + 1
  BY <1>1, <1>2, ClaimRowFields DEF Rows
<1>4. /\ workers'[w].reply = r /\ workers'[w].phase = "posting"
      /\ workers'[w].token = ClaimRow(outbox[r]).token
      /\ \A v \in Workers : v # w => workers'[v] = workers[v]
  BY <1>1, <1>2 DEF Become, Ticks, Tick
<1>5. outbox'[r] = ClaimRow(outbox[r])
  BY <1>1, <1>2 DEF Rows
<1>6. sent' = sent
  BY DEF Claim, provider
<1> QED BY <1>3, <1>4, <1>5, <1>6

(* A tick is at a reply because it claims it now, or was at it before.      *)
LEMMA BusyStep ==
  ASSUME TypeOK, [Next]_vars, NEW w \in Workers, Busy(workers'[w])
  PROVE  \/ Claim(w)
         \/ /\ Busy(workers[w])
            /\ workers'[w].reply = workers[w].reply /\ workers'[w].token = workers[w].token
<1>1. TickStep(w, workers[w], workers'[w])
  BY Steps DEF TickSteps
<1> QED BY <1>1 DEF TickStep, SameSend, Posted, Scanned, Busy

(* The count of attempts never falls.                                       *)
LEMMA AttemptsGrow ==
  ASSUME TypeOK, [Next]_vars, NEW r \in Replies
  PROVE  /\ outbox[r].attempts \in Nat /\ outbox'[r].attempts \in Nat
         /\ outbox[r].attempts <= outbox'[r].attempts
<1>1. outbox[r].attempts \in Nat /\ outbox'[r].attempts \in Nat
  BY Steps, TypeParts DEF Rows, Row
<1>2. RowStep(r, outbox[r], outbox'[r])
  BY Steps DEF RowSteps
<1> QED BY <1>1, <1>2 DEF RowStep, Same, Queued, Withdrawn, Claimed, Completed, Failed, Told, Rests

(* One step keeps the leases.                                               *)
LEMMA LeasesStep ==
  ASSUME TypeOK, Leases, [Next]_vars
  PROVE  Leases'
<1>0. Rows /\ Ticks /\ Ticks'
  BY Steps, TypeParts
<1>1. ASSUME NEW r \in Replies, outbox'[r].token # 0
      PROVE  outbox'[r].token = outbox'[r].attempts
  <2>1. RowStep(r, outbox[r], outbox'[r])
    BY Steps DEF RowSteps
  <2> QED BY <1>1, <2>1 DEF Leases, RowStep, Same, Queued, Withdrawn, Claimed, Completed,
                            Failed, Told, Rests
<1>2. ASSUME NEW w \in Workers, Busy(workers'[w])
      PROVE  workers'[w].token <= outbox'[workers'[w].reply].attempts
  <2>1. CASE Claim(w)
    <3>1. workers'[w].token = outbox'[workers'[w].reply].attempts /\ workers'[w].token \in Nat
      BY <1>0, <2>1, ClaimEffect DEF Ticks, Tick
    <3> QED BY <3>1
  <2>2. CASE /\ Busy(workers[w])
             /\ workers'[w].reply = workers[w].reply /\ workers'[w].token = workers[w].token
    <3>1. workers[w].reply \in Replies /\ workers[w].token \in Nat
      BY <1>0, <2>2 DEF Ticks, GoodTick, Tick
    <3>2. workers[w].token <= outbox[workers[w].reply].attempts
      BY <2>2 DEF Leases
    <3> QED BY <2>2, <3>1, <3>2, AttemptsGrow
  <2> QED BY <1>2, <2>1, <2>2, BusyStep
<1>3. ASSUME NEW v \in Workers, NEW w \in Workers, v # w, Claim(v), Busy(workers'[w]),
             workers'[v].reply = workers'[w].reply, workers'[v].token = workers'[w].token
      PROVE  FALSE
  <2>1. workers'[w] = workers[w]
    BY <1>3, ClaimEffect
  <2>2. workers[w].reply \in Replies /\ workers[w].token <= outbox[workers[w].reply].attempts
    BY <1>0, <1>3, <2>1 DEF Leases, Ticks, GoodTick
  <2>3. workers'[v].token = outbox[workers[w].reply].attempts + 1
    BY <1>3, <2>1, ClaimEffect
  <2>4. outbox[workers[w].reply].attempts \in Nat /\ workers[w].token \in Nat
    BY <1>0, <2>2 DEF Rows, Row, Ticks, Tick
  <2> QED BY <1>3, <2>1, <2>2, <2>3, <2>4
<1>4. ASSUME NEW v \in Workers, NEW w \in Workers, Busy(workers'[v]), Busy(workers'[w]),
             workers'[v].reply = workers'[w].reply, workers'[v].token = workers'[w].token
      PROVE  v = w
  <2>1. CASE Claim(v)
    BY <1>3, <1>4, <2>1
  <2>2. CASE Claim(w)
    BY <1>3, <1>4, <2>2
  <2>3. CASE ~Claim(v) /\ ~Claim(w)
    BY <1>4, <2>3, BusyStep DEF Leases
  <2> QED BY <2>1, <2>2, <2>3
<1> QED BY <1>1, <1>2, <1>4 DEF Leases

(* Tokens stay apart in every execution.                                    *)
LEMMA LeasesInvariant == Spec => []Leases
<1>1. Init => Leases
  <2> SUFFICES ASSUME Init PROVE Leases
    OBVIOUS
  <2>1. \A r \in Replies : outbox[r].token = 0
    BY DEF Init, NoRow
  <2>2. \A w \in Workers : ~Busy(workers[w])
    BY DEF Init, Idle, Busy
  <2> QED BY <2>1, <2>2 DEF Leases
<1>2. TypeOK /\ Leases /\ [Next]_vars => Leases'
  BY LeasesStep
<1> QED BY <1>1, <1>2, TypeCorrect, PTL DEF Spec

(* The exclusive claim: whatever crashed, expired or was claimed again, no  *)
(* two ticks hold the lease of one reply.                                   *)
THEOREM ClaimsExclusive == Spec => []ClaimExclusive
<1>1. Leases => ClaimExclusive
  BY DEF Leases, ClaimExclusive, Holds, Busy
<1> QED BY <1>1, LeasesInvariant, PTL

-----------------------------------------------------------------------------
(* The ceiling on failures.  A reported failure is one attempt's, so the    *)
(* failures never outnumber the attempts, and a reply that may still be     *)
(* sent has failed fewer times than the ceiling.                            *)

FewFailures(r) ==
    /\ failures[r] <= MaxAttempts /\ failures[r] <= outbox[r].attempts
    /\ outbox[r].status \in {"ABSENT", "QUEUED", "SENDING", "FAILED_RETRYABLE"} =>
        failures[r] < MaxAttempts
    /\ outbox[r].status = "SENDING" => failures[r] < outbox[r].attempts
Ceiling == \A r \in Replies : FewFailures(r)

(* What the report of a failure does.                                       *)
LEMMA FailEffect ==
  ASSUME TypeOK, NEW w \in Workers, Fail(w)
  PROVE  LET r == workers[w].reply
             unknown == workers[w].answer \in {"NO_ID", "TIMEOUT"}
         IN
         /\ r \in Replies /\ Busy(workers[w]) /\ ~Busy(workers'[w])
         /\ unknown \/ workers[w].answer = "REJECTED"
         /\ workers[w].phase = "reporting"
         /\ outbox[r].status = "SENDING" /\ workers[w].token = outbox[r].token
         /\ outbox'[r].status = (IF unknown THEN "ACCEPTANCE_UNKNOWN"
                                 ELSE IF outbox[r].attempts < MaxAttempts
                                 THEN "FAILED_RETRYABLE" ELSE "FAILED_FINAL")
         /\ outbox'[r].attempts = outbox[r].attempts
         /\ failures'[r] = (IF unknown THEN failures[r] ELSE failures[r] + 1)
         /\ \A q \in Replies : q # r => outbox'[q] = outbox[q] /\ failures'[q] = failures[q]
         /\ \A v \in Workers : v # w => workers'[v] = workers[v]
         /\ sent' = sent
<1> DEFINE r == workers[w].reply
           unknown == workers[w].answer \in {"NO_ID", "TIMEOUT"}
<1>1. Rows /\ Ticks /\ Ledgers
  BY TypeParts
<1>2. /\ workers[w].phase = "reporting" /\ workers[w].answer # "ID"
      /\ outbox[r].status = "SENDING" /\ workers[w].token = outbox[r].token
      /\ sent' = sent
  BY DEF Fail, Holds, provider
<1>3. r \in Replies /\ Busy(workers[w]) /\ workers[w].answer \in Answers
  BY <1>1, <1>2 DEF Ticks, GoodTick, Busy, Tick
<1>4. unknown \/ workers[w].answer = "REJECTED"
  BY <1>2, <1>3 DEF Answers
<1>5. /\ outbox' = [outbox EXCEPT ![r] = FailedRow(outbox[r], unknown)]
      /\ failures' = [failures EXCEPT ![r] = IF unknown THEN failures[r] ELSE failures[r] + 1]
      /\ Become(w, Unclaimed(w))
  BY DEF Fail
<1>6. /\ ~Busy(workers'[w])
      /\ \A v \in Workers : v # w => workers'[v] = workers[v]
  BY <1>1, <1>5, Blanks DEF Become, Ticks, Blank
<1>7. unknown \in BOOLEAN
  OBVIOUS
<1>8. GoodRow(outbox[r])
  BY <1>1, <1>3 DEF Rows
<1> HIDE DEF r, unknown
<1>9. /\ FailedRow(outbox[r], unknown).attempts = outbox[r].attempts
      /\ FailedRow(outbox[r], unknown).status =
            (IF unknown THEN "ACCEPTANCE_UNKNOWN"
             ELSE IF outbox[r].attempts < MaxAttempts
             THEN "FAILED_RETRYABLE" ELSE "FAILED_FINAL")
  BY <1>7, <1>8, FailedRowFields
<1>10. /\ outbox'[r] = FailedRow(outbox[r], unknown)
       /\ failures'[r] = IF unknown THEN failures[r] ELSE failures[r] + 1
       /\ \A q \in Replies : q # r => outbox'[q] = outbox[q] /\ failures'[q] = failures[q]
  BY <1>1, <1>3, <1>5 DEF Rows, Ledgers
<1> QED BY <1>2, <1>3, <1>4, <1>6, <1>9, <1>10 DEF r, unknown

(* Only the report of a failure records one.                                *)
LEMMA FailuresWriters ==
  ASSUME [Next]_vars, \A w \in Workers : ~Fail(w)
  PROVE  UNCHANGED failures
<1>1. ASSUME NEW r \in Replies, Enqueue(r) \/ Quarantine(r) \/ LeaseExpires(r) \/ RetryDue(r)
      PROVE  UNCHANGED failures
  BY <1>1 DEF Enqueue, Quarantine, LeaseExpires, RetryDue
<1>2. ASSUME NEW w \in Workers,
             \/ WorkerStep(w) \/ NoSends(w) \/ ReportFails(w) \/ ScanFails(w) \/ Crash(w)
      PROVE  UNCHANGED failures
  <2>1. CASE StartTick(w) \/ Claim(w) \/ EndSends(w) \/ Post(w)
    BY <2>1 DEF StartTick, Claim, EndSends, Post
  <2>2. CASE Complete(w) \/ Refused(w)
    BY <2>2 DEF Complete, Refused
  <2>3. CASE ReadCursor(w) \/ ReadPage(w) \/ Scan(w) \/ Mark(w) \/ SaveCursor(w)
    BY <2>3 DEF ReadCursor, ReadPage, Scan, Mark, SaveCursor
  <2>4. CASE NoSends(w) \/ ReportFails(w) \/ ScanFails(w) \/ Crash(w)
    BY <2>4 DEF NoSends, ReportFails, ScanFails, Crash
  <2> QED BY <1>2, <2>1, <2>2, <2>3, <2>4 DEF WorkerStep
<1>3. ASSUME NEW h \in Hooks, NEW batch,
             \/ Receive(h, batch) \/ Persist(h) \/ Park(h) \/ Respond(h)
             \/ PersistFails(h) \/ HookCrash(h)
      PROVE  UNCHANGED failures
  BY <1>3 DEF Receive, Persist, Park, Respond, PersistFails, HookCrash
<1>4. ASSUME NEW e \in Receipts, Issue(e) PROVE UNCHANGED failures
  BY <1>4 DEF Issue
<1>5. CASE UNCHANGED vars
  BY <1>5 DEF vars
<1> QED BY <1>1, <1>2, <1>3, <1>4, <1>5 DEF Next, HookStep

(* One step keeps the ceiling.                                              *)
LEMMA CeilingStep ==
  ASSUME TypeOK, Ceiling, [Next]_vars
  PROVE  Ceiling'
<1>0. Rows /\ Ledgers
  BY TypeParts
<1>1. ASSUME NEW r \in Replies, outbox'[r] = outbox[r], failures'[r] = failures[r]
      PROVE  FewFailures(r)'
  BY <1>1 DEF Ceiling, FewFailures
<1>2. CASE \E w \in Workers : Fail(w)
  <2>1. PICK w \in Workers : Fail(w)
    BY <1>2
  <2>2. PICK r \in Replies : r = workers[w].reply
    BY <2>1, FailEffect
  <2>3. FewFailures(r)'
    <3>1. /\ outbox[r].status = "SENDING"
          /\ outbox'[r].attempts = outbox[r].attempts
          /\ failures'[r] \in {failures[r], failures[r] + 1}
          /\ outbox'[r].status \in {"ACCEPTANCE_UNKNOWN", "FAILED_FINAL", "FAILED_RETRYABLE"}
          /\ outbox'[r].status = "FAILED_RETRYABLE" => outbox[r].attempts < MaxAttempts
      BY <2>1, <2>2, FailEffect
    <3>2. /\ failures[r] < MaxAttempts /\ failures[r] < outbox[r].attempts
          /\ failures[r] \in Nat /\ outbox[r].attempts \in Nat /\ MaxAttempts \in Nat
      BY <1>0, <3>1, ReplyAssumption DEF Ceiling, FewFailures, Rows, Row, Ledgers
    <3> QED BY <3>1, <3>2 DEF FewFailures
  <2>4. \A q \in Replies : q # r => outbox'[q] = outbox[q] /\ failures'[q] = failures[q]
    BY <2>1, <2>2, FailEffect
  <2>5. ASSUME NEW q \in Replies PROVE FewFailures(q)'
    BY <1>1, <2>3, <2>4
  <2> QED BY <2>5 DEF Ceiling
<1>3. CASE \A w \in Workers : ~Fail(w)
  <2>1. failures' = failures
    BY <1>3, FailuresWriters
  <2>2. ASSUME NEW r \in Replies PROVE FewFailures(r)'
    <3>1. RowStep(r, outbox[r], outbox'[r])
      BY Steps DEF RowSteps
    <3>2. \A w \in Workers : ~Failed(w, r, outbox[r], outbox'[r])
      BY <1>3 DEF Failed
    <3>3. /\ failures[r] \in Nat /\ MaxAttempts \in Nat
          /\ outbox[r].attempts \in Nat
      BY <1>0, ReplyAssumption DEF Rows, Row, Ledgers
    <3>4. CASE Same(outbox[r], outbox'[r]) \/ Queued(outbox[r], outbox'[r])
      BY <2>1, <3>3, <3>4 DEF Ceiling, FewFailures, Same, Queued
    <3>5. CASE Withdrawn(outbox[r], outbox'[r])
      BY <2>1, <3>3, <3>5 DEF Ceiling, FewFailures, Withdrawn, Rests
    <3>6. CASE \E w \in Workers : Claimed(w, r, outbox[r], outbox'[r])
      BY <2>1, <3>3, <3>6 DEF Ceiling, FewFailures, Claimed, Claimable
    <3>7. CASE \E w \in Workers : Completed(w, r, outbox[r], outbox'[r])
      BY <2>1, <3>3, <3>7 DEF Ceiling, FewFailures, Completed, Rests
    <3>8. CASE \E e \in Receipts : Told(e, r, outbox[r], outbox'[r])
      BY <2>1, <3>3, <3>8, ReceiptShape DEF Ceiling, FewFailures, Told, Rests, Reported
    <3> QED BY <3>1, <3>2, <3>4, <3>5, <3>6, <3>7, <3>8 DEF RowStep
  <2> QED BY <2>2 DEF Ceiling, FewFailures
<1> QED BY <1>2, <1>3

(* The ceiling on reported failures holds over all retries and reclaims.    *)
THEOREM FailuresAreBounded == Spec => []FailuresBounded
<1>1. Init => Ceiling
  BY NoRowFields, ReplyAssumption DEF Init, Ceiling, FewFailures
<1>2. TypeOK /\ Ceiling /\ [Next]_vars => Ceiling'
  BY CeilingStep
<1>3. Ceiling => FailuresBounded
  BY DEF Ceiling, FewFailures, FailuresBounded
<1> QED BY <1>1, <1>2, <1>3, TypeCorrect, PTL DEF Spec

-----------------------------------------------------------------------------
(* What the outbox says of the provider's messages.                         *)

(* A recorded id stays, on a row that only callbacks still change.          *)
LEMMA AcceptedStep ==
  ASSUME TypeOK, IdOnlyWhenAccepted, [Next]_vars, NEW r \in Replies, outbox[r].pid # 0
  PROVE  /\ outbox[r].status \in Reported
         /\ \/ Same(outbox[r], outbox'[r])
            \/ \E e \in Receipts : Told(e, r, outbox[r], outbox'[r])
<1>1. RowStep(r, outbox[r], outbox'[r])
  BY Steps DEF RowSteps
<1>2. outbox[r].status \in Reported
  BY DEF IdOnlyWhenAccepted
<1> QED BY <1>1, <1>2 DEF RowStep, Queued, Withdrawn, Claimed, Claimable, Completed, Failed,
                          Reported

(* One step records an id only with the acceptance of its message.          *)
LEMMA IdStep ==
  ASSUME TypeOK, IdOnlyWhenAccepted, [Next]_vars
  PROVE  IdOnlyWhenAccepted'
<1> SUFFICES ASSUME NEW r \in Replies, outbox'[r].pid # 0
             PROVE  outbox'[r].status \in Reported
  BY DEF IdOnlyWhenAccepted
<1>1. CASE outbox[r].pid # 0
  BY <1>1, AcceptedStep, ReceiptShape DEF Same, Told
<1>2. CASE outbox[r].pid = 0
  <2>1. RowStep(r, outbox[r], outbox'[r])
    BY Steps DEF RowSteps
  <2>2. \A e \in Receipts : e.status \in Reported
    BY ReceiptShape
  <2> QED BY <1>2, <2>1, <2>2 DEF RowStep, Same, Queued, Withdrawn, Claimed, Completed, Failed,
                             Told, Rests, Reported
<1> QED BY <1>1, <1>2

(* A provider_message_id is there only on a row the provider has accepted   *)
(* or finally failed: no quarantine, reclaim or late report breaks the      *)
(* table's CHECK.                                                           *)
THEOREM IdsOnlyWhenAccepted == Spec => []IdOnlyWhenAccepted
<1>1. Init => IdOnlyWhenAccepted
  BY NoRowFields DEF Init, IdOnlyWhenAccepted
<1>2. TypeOK /\ IdOnlyWhenAccepted /\ [Next]_vars => IdOnlyWhenAccepted'
  BY IdStep
<1> QED BY <1>1, <1>2, TypeCorrect, PTL DEF Spec

(* Delivery only becomes reading, whatever callback, sender or operator     *)
(* comes later.                                                             *)
THEOREM DeliveryStays == Spec => DeliveryNeverErased
<1>1. ASSUME TypeOK, [Next]_vars, NEW r \in Replies,
             outbox[r].status \in {"DELIVERED", "READ"}
      PROVE  /\ outbox[r].status = "DELIVERED" => outbox'[r].status \in {"DELIVERED", "READ"}
             /\ outbox[r].status = "READ" => outbox'[r].status = "READ"
  <2>1. RowStep(r, outbox[r], outbox'[r])
    BY <1>1, Steps DEF RowSteps
  <2>2. \/ Same(outbox[r], outbox'[r])
        \/ \E e \in Receipts : Told(e, r, outbox[r], outbox'[r])
    BY <1>1, <2>1 DEF RowStep, Queued, Withdrawn, Claimed, Claimable, Completed, Failed
  <2>3. ASSUME NEW e \in Receipts, Told(e, r, outbox[r], outbox'[r])
        PROVE  /\ outbox[r].status = "DELIVERED" => outbox'[r].status = "READ"
               /\ outbox[r].status # "READ"
    <3>1. e.status \in Reported /\ outbox'[r].status = e.status
          /\ ~Ignored(outbox[r].status, e.status)
      BY <2>3, ReceiptShape DEF Told
    <3> QED BY <1>1, <3>1 DEF Ignored, Rank, Reported
  <2> QED BY <2>2, <2>3 DEF Same
<1>2. TypeOK /\ [Next]_vars =>
        [\A r \in Replies :
          /\ outbox[r].status = "DELIVERED" => outbox'[r].status \in {"DELIVERED", "READ"}
          /\ outbox[r].status = "READ" => outbox'[r].status = "READ"]_vars
  BY <1>1
<1> QED BY <1>2, TypeCorrect, PTL DEF Spec, DeliveryNeverErased

-----------------------------------------------------------------------------
(* Sending again.  No tick is at the last attempt of a reply that waits for *)
(* its retry, and the provider has not taken that attempt's message.        *)

Sendings ==
    /\ \A r \in Replies : outbox[r].status \in {"ABSENT", "QUEUED"} => outbox[r].attempts = 0
    /\ \A r \in Replies : \A n \in Attempts :
        <<r, n>> \in sent => n <= outbox[r].attempts
    /\ \A r \in Replies : outbox[r].status = "FAILED_RETRYABLE" =>
        /\ <<r, outbox[r].attempts>> \notin sent
        /\ \A w \in Workers : Busy(workers[w]) /\ workers[w].reply = r =>
             workers[w].token # outbox[r].attempts
    /\ \A w \in Workers :
        \/ workers[w].phase = "posting"
        \/ workers[w].phase = "reporting" /\ workers[w].answer = "REJECTED"
        => <<workers[w].reply, workers[w].token>> \notin sent

(* Only a post gives the provider a message, and moves only its own tick.   *)
LEMMA SentWriters ==
  ASSUME TypeOK, [Next]_vars
  PROVE  \/ sent' = sent
         \/ \E w \in Workers :
              /\ Post(w) /\ outbox' = outbox
              /\ \A v \in Workers : v # w => workers'[v] = workers[v]
              /\ sent' \subseteq sent \union {<<workers[w].reply, workers[w].token>>}
<1>1. ASSUME NEW r \in Replies, Enqueue(r) \/ Quarantine(r) \/ LeaseExpires(r) \/ RetryDue(r)
      PROVE  sent' = sent
  BY <1>1 DEF Enqueue, Quarantine, LeaseExpires, RetryDue, provider
<1>2. ASSUME NEW w \in Workers, ~Post(w),
             \/ WorkerStep(w) \/ NoSends(w) \/ ReportFails(w) \/ ScanFails(w) \/ Crash(w)
      PROVE  sent' = sent
  <2>1. CASE StartTick(w) \/ Claim(w) \/ EndSends(w)
    BY <2>1 DEF StartTick, Claim, EndSends, provider
  <2>2. CASE Complete(w) \/ Fail(w) \/ Refused(w)
    BY <2>2 DEF Complete, Fail, Refused, provider
  <2>3. CASE ReadCursor(w) \/ ReadPage(w) \/ Scan(w) \/ Mark(w) \/ SaveCursor(w)
    BY <2>3 DEF ReadCursor, ReadPage, Scan, Mark, SaveCursor, provider
  <2>4. CASE NoSends(w) \/ ReportFails(w) \/ ScanFails(w) \/ Crash(w)
    BY <2>4 DEF NoSends, ReportFails, ScanFails, Crash, provider
  <2> QED BY <1>2, <2>1, <2>2, <2>3, <2>4 DEF WorkerStep
<1>3. ASSUME NEW h \in Hooks, NEW batch,
             \/ Receive(h, batch) \/ Persist(h) \/ Park(h) \/ Respond(h)
             \/ PersistFails(h) \/ HookCrash(h)
      PROVE  sent' = sent
  BY <1>3 DEF Receive, Persist, Park, Respond, PersistFails, HookCrash, provider
<1>4. ASSUME NEW e \in Receipts, Issue(e) PROVE sent' = sent
  BY <1>4 DEF Issue
<1>5. CASE UNCHANGED vars
  BY <1>5 DEF vars, provider
<1>6. ASSUME NEW w \in Workers, Post(w)
      PROVE  /\ outbox' = outbox
             /\ \A v \in Workers : v # w => workers'[v] = workers[v]
             /\ sent' \subseteq sent \union {<<workers[w].reply, workers[w].token>>}
  <2>1. workers \in [Workers -> Tick]
    BY TypeParts DEF Ticks
  <2> QED BY <1>6, <2>1 DEF Post, Become
<1> QED BY <1>1, <1>2, <1>3, <1>4, <1>5, <1>6 DEF Next, HookStep

(* One step keeps the sendings: a step that sends nothing.                  *)
LEMMA SendingsKept ==
  ASSUME TypeOK, Leases, Sendings, [Next]_vars, sent' = sent
  PROVE  Sendings'
<1>0. Rows /\ Ticks /\ sent \subseteq Messages
  BY TypeParts DEF Ledgers
<1>1. ASSUME NEW r \in Replies, outbox'[r].status \in {"ABSENT", "QUEUED"}
      PROVE  outbox'[r].attempts = 0
  <2>1. RowStep(r, outbox[r], outbox'[r])
    BY Steps DEF RowSteps
  <2>2. \A e \in Receipts : e.status \in Reported
    BY ReceiptShape
  <2> QED BY <1>1, <2>1, <2>2 DEF Sendings, RowStep, Same, Queued, Withdrawn, Claimed, Completed,
                            Failed, Told, Reported
<1>2. ASSUME NEW r \in Replies, NEW n \in Attempts, <<r, n>> \in sent'
      PROVE  n <= outbox'[r].attempts
  <2>1. n <= outbox[r].attempts /\ n \in Nat
    BY <1>2 DEF Sendings, Attempts
  <2> QED BY <2>1, AttemptsGrow
<1>3. ASSUME NEW r \in Replies, outbox'[r].status = "FAILED_RETRYABLE"
      PROVE  /\ <<r, outbox'[r].attempts>> \notin sent'
             /\ \A w \in Workers : Busy(workers'[w]) /\ workers'[w].reply = r =>
                  workers'[w].token # outbox'[r].attempts
  <2>1. ASSUME NEW w \in Workers, Busy(workers'[w]), workers'[w].reply = r
        PROVE  /\ Busy(workers[w]) /\ workers[w].reply = r
               /\ workers'[w].token = workers[w].token
    BY <1>3, <2>1, BusyStep, ClaimEffect
  <2>2. CASE Same(outbox[r], outbox'[r])
    BY <1>3, <2>1, <2>2 DEF Same, Sendings
  <2>3. CASE \E w \in Workers : Failed(w, r, outbox[r], outbox'[r])
    <3>1. PICK w \in Workers : Fail(w) /\ workers[w].reply = r
      BY <2>3 DEF Failed
    <3>2. /\ workers[w].phase = "reporting" /\ workers[w].answer = "REJECTED"
          /\ Busy(workers[w]) /\ ~Busy(workers'[w])
          /\ outbox[r].status = "SENDING" /\ workers[w].token = outbox[r].token
          /\ outbox'[r].attempts = outbox[r].attempts
      BY <1>3, <3>1, FailEffect
    <3>3. outbox[r].token = outbox[r].attempts
      BY <1>0, <3>2 DEF Leases, Rows, GoodRow
    <3>4. <<r, outbox[r].attempts>> \notin sent
      BY <3>1, <3>2, <3>3 DEF Sendings
    <3>5. ASSUME NEW v \in Workers, Busy(workers'[v]), workers'[v].reply = r,
                 workers'[v].token = outbox'[r].attempts
          PROVE  FALSE
      <4>1. Busy(workers[v]) /\ workers[v].reply = r /\ workers[v].token = workers[w].token
        BY <2>1, <3>2, <3>3, <3>5
      <4>2. v = w
        BY <3>1, <3>2, <4>1 DEF Leases
      <4> QED BY <3>2, <3>5, <4>2
    <3> QED BY <3>2, <3>4, <3>5
  <2>4. RowStep(r, outbox[r], outbox'[r])
    BY Steps DEF RowSteps
  <2>5. \A e \in Receipts : e.status \in Reported
    BY ReceiptShape
  <2> QED BY <1>3, <2>2, <2>3, <2>4, <2>5 DEF RowStep, Queued, Withdrawn, Claimed, Completed,
                                         Told, Reported
<1>4. ASSUME NEW w \in Workers,
             \/ workers'[w].phase = "posting"
             \/ workers'[w].phase = "reporting" /\ workers'[w].answer = "REJECTED"
      PROVE  <<workers'[w].reply, workers'[w].token>> \notin sent'
  <2>1. Busy(workers'[w])
    BY <1>4 DEF Busy
  <2>2. TickStep(w, workers[w], workers'[w])
    BY Steps DEF TickSteps
  <2>3. CASE Claim(w)
    <3> DEFINE r == workers'[w].reply
    <3>1. r \in Replies /\ workers'[w].token = outbox[r].attempts + 1
      BY <2>3, ClaimEffect
    <3>2. outbox[r].attempts \in Nat
      BY <1>0, <3>1 DEF Rows, Row
    <3>3. ASSUME <<r, outbox[r].attempts + 1>> \in sent PROVE FALSE
      <4>1. outbox[r].attempts + 1 \in Attempts
        BY <1>0, <3>3 DEF Messages
      <4> QED BY <3>1, <3>2, <3>3, <4>1 DEF Sendings
    <3> QED BY <3>1, <3>3
  <2>4. CASE SameSend(workers[w], workers'[w])
    BY <1>4, <2>4 DEF SameSend, Sendings
  <2>5. CASE Posted(w, workers[w], workers'[w])
    BY <2>5 DEF Posted, Sendings
  <2> QED BY <2>1, <2>2, <2>3, <2>4, <2>5 DEF TickStep, Scanned
<1> QED BY <1>1, <1>2, <1>3, <1>4 DEF Sendings

(* One step keeps the sendings: a post the provider takes.                  *)
LEMMA SendingsPosted ==
  ASSUME TypeOK, Leases, Sendings, [Next]_vars,
         NEW w \in Workers, Post(w), outbox' = outbox, sent' # sent,
         \A v \in Workers : v # w => workers'[v] = workers[v],
         sent' \subseteq sent \union {<<workers[w].reply, workers[w].token>>}
  PROVE  Sendings'
<1>0. Rows /\ Ticks
  BY TypeParts
<1>1. workers[w].phase = "posting" /\ Busy(workers[w]) /\ workers[w].reply \in Replies
  BY <1>0 DEF Post, Busy, Ticks, GoodTick
<1>2. /\ Busy(workers'[w])
      /\ workers'[w].reply = workers[w].reply /\ workers'[w].token = workers[w].token
      /\ workers'[w].phase = "reporting" /\ workers'[w].answer # "REJECTED"
  <2>1. PICK a \in Answers, taken \in BOOLEAN :
          /\ a = "REJECTED" => ~taken
          /\ Become(w, [workers[w] EXCEPT !.phase = "reporting", !.answer = a])
          /\ sent' = IF taken THEN sent \union {<<workers[w].reply, workers[w].token>>} ELSE sent
    BY DEF Post
  <2>2. a # "REJECTED"
    BY <2>1
  <2>3. /\ workers'[w].reply = workers[w].reply /\ workers'[w].token = workers[w].token
        /\ workers'[w].phase = "reporting" /\ workers'[w].answer = a
    BY <1>0, <2>1 DEF Become, Ticks, Tick
  <2> QED BY <2>2, <2>3 DEF Busy
<1>3. ASSUME NEW v \in Workers, Busy(workers'[v])
      PROVE  /\ Busy(workers[v])
             /\ workers'[v].reply = workers[v].reply /\ workers'[v].token = workers[v].token
  BY <1>1, <1>2, <1>3
<1>4. ASSUME NEW r \in Replies, NEW n \in Attempts, <<r, n>> \in sent'
      PROVE  n <= outbox'[r].attempts
  BY <1>1, <1>4 DEF Sendings, Leases
<1>5. ASSUME NEW r \in Replies, outbox'[r].status = "FAILED_RETRYABLE"
      PROVE  /\ <<r, outbox'[r].attempts>> \notin sent'
             /\ \A v \in Workers : Busy(workers'[v]) /\ workers'[v].reply = r =>
                  workers'[v].token # outbox'[r].attempts
  BY <1>1, <1>3, <1>5 DEF Sendings
<1>6. ASSUME NEW v \in Workers,
             \/ workers'[v].phase = "posting"
             \/ workers'[v].phase = "reporting" /\ workers'[v].answer = "REJECTED"
      PROVE  <<workers'[v].reply, workers'[v].token>> \notin sent'
  <2>1. v # w
    BY <1>2, <1>6
  <2>2. workers'[v] = workers[v] /\ Busy(workers[v])
    BY <1>6, <2>1 DEF Busy
  <2>3. ~(workers[v].reply = workers[w].reply /\ workers[v].token = workers[w].token)
    BY <1>1, <2>1, <2>2 DEF Leases
  <2>4. <<workers[v].reply, workers[v].token>> \notin sent
    BY <1>6, <2>2 DEF Sendings
  <2> QED BY <2>2, <2>3, <2>4
<1> QED BY <1>4, <1>5, <1>6 DEF Sendings

(* The sendings hold in every execution.                                    *)
LEMMA SendingsInvariant == Spec => []Sendings
<1>1. Init => Sendings
  <2> SUFFICES ASSUME Init PROVE Sendings
    OBVIOUS
  <2>1. \A r \in Replies : outbox[r].status = "ABSENT" /\ outbox[r].attempts = 0
    BY NoRowFields DEF Init
  <2>2. \A w \in Workers : workers[w].phase = "idle"
    BY DEF Init, Idle
  <2>3. sent = {}
    BY DEF Init
  <2> QED BY <2>1, <2>2, <2>3 DEF Sendings
<1>2. TypeOK /\ Leases /\ Sendings /\ [Next]_vars => Sendings'
  BY SendingsKept, SendingsPosted, SentWriters
<1> QED BY <1>1, <1>2, TypeCorrect, LeasesInvariant, PTL DEF Spec

(* A message the provider may have taken is followed by another only after  *)
(* its attempt's lease ran out with no outcome recorded: neither a retry    *)
(* nor a second tick ever doubles a message whose fate is known.            *)
THEOREM ResendsAfterLostLease == Spec => ResendOnlyAfterLostLease
<1>1. TypeOK /\ Sendings /\ [Next]_vars =>
        [\A r \in Replies :
          /\ outbox'[r].attempts # outbox[r].attempts
          /\ <<r, outbox[r].attempts>> \in sent
          => outbox[r].status = "SENDING" /\ ~outbox[r].live]_vars
  <2> SUFFICES ASSUME TypeOK, Sendings, [Next]_vars, NEW r \in Replies,
                      outbox'[r].attempts # outbox[r].attempts,
                      <<r, outbox[r].attempts>> \in sent
               PROVE  outbox[r].status = "SENDING" /\ ~outbox[r].live
    OBVIOUS
  <2>1. RowStep(r, outbox[r], outbox'[r])
    BY Steps DEF RowSteps
  <2>2. Claimable(outbox[r])
    BY <2>1 DEF RowStep, Same, Queued, Withdrawn, Claimed, Completed, Failed, Told, Rests
  <2>3. outbox[r].attempts # 0
    <3>1. sent \subseteq Messages
      BY TypeParts DEF Ledgers
    <3> QED BY <3>1 DEF Messages, Attempts
  <2> QED BY <2>2, <2>3 DEF Claimable, Sendings
<1> QED BY <1>1, TypeCorrect, SendingsInvariant, PTL DEF Spec, ResendOnlyAfterLostLease

-----------------------------------------------------------------------------
(* Callbacks.  One step keeps, parks or marks one callback, and only a      *)
(* response with 200 acknowledges.                                          *)

Parks(h) ==
    /\ hooks[h].miss \in Receipts /\ processed' = processed
    /\ parked' = parked \union ({hooks[h].miss} \ processed)
Marks(w) ==
    /\ workers[w].mark \in Receipts
    /\ parked' = parked \ {workers[w].mark}
    /\ processed' = processed \union (parked \intersect {workers[w].mark})
Acks(h) ==
    /\ ~hooks[h].failed /\ hooks[h].todo = {} /\ hooks[h].miss = NoReceipt
    /\ acked' = acked \union hooks[h].batch
BooksStep ==
    /\ reported \subseteq reported'
    /\ \/ parked' = parked /\ processed' = processed
       \/ \E h \in Hooks : Parks(h)
       \/ \E w \in Workers : Marks(w)
    /\ acked' = acked \/ \E h \in Hooks : Acks(h)

LEMMA Books ==
  ASSUME TypeOK, [Next]_vars
  PROVE  BooksStep
<1>0. Ticks /\ Requests
  BY TypeParts
<1>1. ASSUME NEW r \in Replies, Enqueue(r) \/ Quarantine(r) \/ LeaseExpires(r) \/ RetryDue(r)
      PROVE  BooksStep
  BY <1>1 DEF BooksStep, Enqueue, Quarantine, LeaseExpires, RetryDue, inbox, provider
<1>2. ASSUME NEW w \in Workers, ~Mark(w),
             \/ WorkerStep(w) \/ NoSends(w) \/ ReportFails(w) \/ ScanFails(w) \/ Crash(w)
      PROVE  BooksStep
  <2>1. CASE StartTick(w) \/ Claim(w) \/ EndSends(w) \/ Post(w)
    BY <2>1 DEF BooksStep, StartTick, Claim, EndSends, Post, inbox, provider
  <2>2. CASE Complete(w) \/ Fail(w) \/ Refused(w)
    BY <2>2 DEF BooksStep, Complete, Fail, Refused, inbox, provider
  <2>3. CASE ReadCursor(w) \/ ReadPage(w) \/ Scan(w) \/ SaveCursor(w)
    BY <2>3 DEF BooksStep, ReadCursor, ReadPage, Scan, SaveCursor, inbox, provider
  <2>4. CASE NoSends(w) \/ ReportFails(w) \/ ScanFails(w) \/ Crash(w)
    BY <2>4 DEF BooksStep, NoSends, ReportFails, ScanFails, Crash, inbox, provider
  <2> QED BY <1>2, <2>1, <2>2, <2>3, <2>4 DEF WorkerStep
<1>3. ASSUME NEW w \in Workers, Mark(w) PROVE BooksStep
  <2>1. Marks(w) /\ reported' = reported /\ acked' = acked
    BY <1>0, <1>3 DEF Marks, Mark, provider, Ticks, Tick
  <2> QED BY <2>1 DEF BooksStep
<1>4. ASSUME NEW h \in Hooks, NEW batch,
             Receive(h, batch) \/ Persist(h) \/ PersistFails(h) \/ HookCrash(h)
      PROVE  BooksStep
  BY <1>4 DEF BooksStep, Receive, Persist, PersistFails, HookCrash, inbox, provider
<1>5. ASSUME NEW h \in Hooks, Park(h) PROVE BooksStep
  <2>1. Parks(h) /\ reported' = reported /\ acked' = acked
    BY <1>0, <1>5 DEF Parks, Park, provider, Requests, Request
  <2> QED BY <2>1 DEF BooksStep
<1>6. ASSUME NEW h \in Hooks, Respond(h) PROVE BooksStep
  <2>1. /\ reported' = reported /\ parked' = parked /\ processed' = processed
        /\ hooks[h].todo = {} /\ hooks[h].miss = NoReceipt
        /\ acked' = IF hooks[h].failed THEN acked ELSE acked \union hooks[h].batch
    BY <1>6 DEF Respond, inbox
  <2>2. CASE hooks[h].failed
    BY <2>1, <2>2 DEF BooksStep
  <2>3. CASE ~hooks[h].failed
    BY <2>1, <2>3 DEF BooksStep, Acks
  <2> QED BY <2>2, <2>3
<1>7. ASSUME NEW e \in Receipts, Issue(e) PROVE BooksStep
  BY <1>7 DEF BooksStep, Issue, inbox
<1>8. CASE UNCHANGED vars
  BY <1>8 DEF BooksStep, vars, inbox, provider
<1> QED BY <1>1, <1>2, <1>3, <1>4, <1>5, <1>6, <1>7, <1>8 DEF Next, HookStep

(* What a request or a tick holds, and what is kept, the provider has said. *)
HeldReported ==
    /\ parked \subseteq reported
    /\ \A h \in Hooks :
        /\ hooks[h].todo \subseteq reported
        /\ hooks[h].miss \in reported \union {NoReceipt}
    /\ \A w \in Workers : workers[w].page \subseteq reported

(* One step holds nothing else.                                             *)
LEMMA HeldStep ==
  ASSUME TypeOK, HeldReported, [Next]_vars
  PROVE  HeldReported'
<1>0. BooksStep /\ TickSteps /\ RequestSteps
  BY Books, Steps
<1>1. parked' \subseteq reported'
  BY <1>0, ReplyAssumption DEF BooksStep, Parks, Marks, HeldReported
<1>2. ASSUME NEW h \in Hooks
      PROVE  /\ hooks'[h].todo \subseteq reported'
             /\ hooks'[h].miss \in reported' \union {NoReceipt}
  BY <1>0 DEF BooksStep, HeldReported, RequestSteps, RequestStep, Persisted, Kept
<1>3. ASSUME NEW w \in Workers PROVE workers'[w].page \subseteq reported'
  BY <1>0 DEF BooksStep, HeldReported, TickSteps, TickStep, SameScan, Posted, Scanned
<1> QED BY <1>1, <1>2, <1>3 DEF HeldReported

(* One step writes no status but what the provider said of the message.     *)
LEMMA TrueStep ==
  ASSUME TypeOK, IdOnlyWhenAccepted, HeldReported, StatusIsTrue, [Next]_vars
  PROVE  StatusIsTrue'
<1>0. BooksStep
  BY Books
<1> SUFFICES ASSUME NEW r \in Replies, outbox'[r].pid # 0, outbox'[r].status # "ACCEPTED"
             PROVE  [message |-> <<r, outbox'[r].pid>>, status |-> outbox'[r].status] \in reported'
  BY DEF StatusIsTrue
<1>1. CASE Same(outbox[r], outbox'[r])
  BY <1>0, <1>1 DEF Same, StatusIsTrue, BooksStep
<1>2. CASE \E e \in Receipts : Told(e, r, outbox[r], outbox'[r])
  <2>1. PICK e \in Receipts : Told(e, r, outbox[r], outbox'[r])
    BY <1>2
  <2>2. e \in reported
    BY <2>1 DEF Told, Known, HeldReported
  <2>3. e = [message |-> <<r, outbox'[r].pid>>, status |-> outbox'[r].status]
    BY <2>1 DEF Told, Receipts
  <2> QED BY <1>0, <2>2, <2>3 DEF BooksStep
<1>3. CASE outbox[r].pid = 0 /\ ~Same(outbox[r], outbox'[r])
  <2>1. RowStep(r, outbox[r], outbox'[r])
    BY Steps DEF RowSteps
  <2> QED BY <1>2, <1>3, <2>1 DEF RowStep, Queued, Withdrawn, Claimed, Completed, Failed, Rests
<1> QED BY <1>1, <1>2, <1>3, AcceptedStep

(* What is held was said, in every execution.                               *)
LEMMA HeldInvariant == Spec => []HeldReported
<1>1. Init => HeldReported
  <2> SUFFICES ASSUME Init PROVE HeldReported
    OBVIOUS
  <2>1. \A h \in Hooks : hooks[h].todo = {} /\ hooks[h].miss = NoReceipt
    BY NoRequestFields DEF Init
  <2>2. \A w \in Workers : workers[w].page = {}
    BY DEF Init, Idle
  <2>3. parked = {}
    BY DEF Init
  <2> QED BY <2>1, <2>2, <2>3 DEF HeldReported
<1>2. TypeOK /\ HeldReported /\ [Next]_vars => HeldReported'
  BY HeldStep
<1> QED BY <1>1, <1>2, TypeCorrect, PTL DEF Spec

(* The outbox never claims more than the provider said of that message.     *)
THEOREM StatusesAreTrue == Spec => []StatusIsTrue
<1>1. Init => StatusIsTrue
  BY NoRowFields DEF Init, StatusIsTrue
<1>2. TypeOK /\ IdOnlyWhenAccepted /\ HeldReported /\ StatusIsTrue /\ [Next]_vars => StatusIsTrue'
  BY TrueStep
<1> QED BY <1>1, <1>2, TypeCorrect, IdsOnlyWhenAccepted, HeldInvariant, PTL DEF Spec

-----------------------------------------------------------------------------
(* No callback is lost.  What is done with stays reflected; what a request  *)
(* still answers for is to do, in hand, reflected or kept; what a tick is   *)
(* about to mark is reflected.                                              *)

Safe(e) == Reflected(e) \/ e \in parked

Keeping ==
    /\ NoReceiptLost
    /\ \A h \in Hooks : ~hooks[h].failed =>
        \A e \in hooks[h].batch : e \in hooks[h].todo \/ e = hooks[h].miss \/ Safe(e)
    /\ \A w \in Workers : workers[w].mark # NoReceipt => Reflected(workers[w].mark)

(* A callback of a message whose id is recorded is in the outbox once the   *)
(* status RPC has run, ignored or not.                                      *)
LEMMA ApplyReflects ==
  ASSUME TypeOK, IdOnlyWhenAccepted, NEW e \in Receipts, NEW coded \in BOOLEAN,
         Matched(e), Apply(e, coded)
  PROVE  Reflected(e)'
<1> DEFINE r == e.message[1]
           s == StatusRow(outbox[r], e.status, coded)
<1>1. /\ r \in Replies /\ e.message[2] \in Attempts /\ e.status \in Reported
      /\ outbox[r].pid = e.message[2]
  BY ReceiptShape DEF Matched
<1>2. outbox[r].status \in Reported
  BY <1>1 DEF IdOnlyWhenAccepted, Attempts
<1>3. Rows
  BY TypeParts
<1>4. outbox'[r] = s
  BY <1>1, <1>3 DEF Apply, Rows
<1>5. /\ s.pid = outbox[r].pid
      /\ \/ s = outbox[r] /\ Ignored(outbox[r].status, e.status)
         \/ s.status = e.status
  BY <1>1, <1>3, StatusRowFields DEF Rows
<1> HIDE DEF s
<1>6. ASSUME Ignored(outbox[r].status, e.status) PROVE outbox[r].status \in Covered(e.status)
  BY <1>1, <1>2, <1>6 DEF Ignored, Covered, Rank, Reported
<1>7. e.status \in Covered(e.status)
  BY <1>1 DEF Covered, Reported
<1> QED BY <1>1, <1>4, <1>5, <1>6, <1>7 DEF Reflected

(* A callback that is in the outbox stays there.                            *)
LEMMA ReflectedStays ==
  ASSUME TypeOK, IdOnlyWhenAccepted, [Next]_vars, NEW e \in Receipts, Reflected(e)
  PROVE  Reflected(e)'
<1> DEFINE r == e.message[1]
<1>1. /\ r \in Replies /\ e.message[2] \in Attempts /\ e.status \in Reported
      /\ outbox[r].pid = e.message[2] /\ outbox[r].status \in Covered(e.status)
  BY ReceiptShape DEF Reflected
<1>2. outbox[r].pid # 0
  BY <1>1 DEF Attempts
<1>3. \/ Same(outbox[r], outbox'[r])
      \/ \E d \in Receipts : Told(d, r, outbox[r], outbox'[r])
  BY <1>1, <1>2, AcceptedStep
<1>4. CASE Same(outbox[r], outbox'[r])
  BY <1>1, <1>4 DEF Same, Reflected
<1>5. ASSUME NEW d \in Receipts, Told(d, r, outbox[r], outbox'[r])
      PROVE  Reflected(e)'
  <2>1. /\ d.status \in Reported /\ ~Ignored(outbox[r].status, d.status)
        /\ outbox'[r].status = d.status /\ outbox'[r].pid = outbox[r].pid
    BY <1>5, ReceiptShape DEF Told
  <2>2. outbox[r].status \in Reported
    BY <1>1, <1>2 DEF IdOnlyWhenAccepted
  <2>3. d.status \in Covered(e.status)
    BY <1>1, <2>1, <2>2 DEF Ignored, Covered, Rank, Reported
  <2> QED BY <1>1, <2>1, <2>3 DEF Reflected
<1> QED BY <1>3, <1>4, <1>5

(* A callback that is kept or in the outbox stays kept or in the outbox.    *)
LEMMA KeptStays ==
  ASSUME TypeOK, IdOnlyWhenAccepted, Keeping, [Next]_vars, NEW e \in Receipts, Safe(e)
  PROVE  Safe(e)'
<1>1. CASE Reflected(e)
  BY <1>1, ReflectedStays DEF Safe
<1>2. CASE e \in parked /\ e \notin parked'
  <2>1. PICK w \in Workers : workers[w].mark = e
    BY <1>2, Books DEF BooksStep, Parks, Marks
  <2>2. e # NoReceipt
    BY ReplyAssumption
  <2> QED BY <2>1, <2>2, ReflectedStays DEF Keeping, Safe
<1>3. CASE e \in parked'
  BY <1>3 DEF Safe
<1> QED BY <1>1, <1>2, <1>3 DEF Safe

(* One step loses no callback.                                              *)
LEMMA KeepingStep ==
  ASSUME TypeOK, IdOnlyWhenAccepted, Keeping, [Next]_vars
  PROVE  Keeping'
<1>0. BooksStep /\ TickSteps /\ RequestSteps /\ TypeOK'
  BY Books, Steps
<1>1. /\ Requests /\ Ticks /\ Requests' /\ Ticks' /\ Ledgers /\ Ledgers'
      /\ NoReceipt \notin Receipts
  BY <1>0, TypeParts, ReplyAssumption
<1>2. ASSUME NEW e \in acked' \union processed' PROVE Safe(e)'
  <2>1. e \in Receipts
    BY <1>1 DEF Ledgers
  <2>2. CASE e \in acked \union processed
    <3>1. Safe(e)
      BY <2>2 DEF Keeping, NoReceiptLost, Safe
    <3> QED BY <2>1, <3>1, KeptStays
  <2>3. CASE e \in acked' \ acked
    <3>1. PICK h \in Hooks : Acks(h) /\ e \in hooks[h].batch
      BY <1>0, <2>3 DEF BooksStep, Acks
    <3>2. Safe(e)
      BY <1>1, <2>1, <3>1 DEF Keeping, Acks
    <3> QED BY <2>1, <3>2, KeptStays
  <2>4. CASE e \in processed' \ processed
    <3>1. PICK w \in Workers : workers[w].mark = e
      BY <1>0, <2>4 DEF BooksStep, Parks, Marks
    <3>2. Reflected(e)
      BY <1>1, <2>1, <3>1 DEF Keeping
    <3> QED BY <2>1, <3>2, KeptStays DEF Safe
  <2> QED BY <2>2, <2>3, <2>4
<1>3. ASSUME NEW h \in Hooks, ~hooks'[h].failed, NEW e \in hooks'[h].batch
      PROVE  e \in hooks'[h].todo \/ e = hooks'[h].miss \/ Safe(e)'
  <2>1. RequestStep(hooks[h], hooks'[h]) /\ e \in Receipts
    BY <1>0, <1>1 DEF RequestSteps, Requests, Request
  <2>2. Safe(e) => Safe(e)'
    BY <2>1, KeptStays
  <2>3. CASE hooks'[h] = hooks[h]
    BY <1>3, <2>2, <2>3 DEF Keeping
  <2>4. CASE hooks'[h].todo = hooks'[h].batch
    BY <2>4
  <2>5. CASE Persisted(hooks[h], hooks'[h])
    <3>1. PICK d \in hooks[h].todo :
            /\ hooks'[h].todo = hooks[h].todo \ {d} /\ hooks[h].miss = NoReceipt
            /\ \/ Matched(d) /\ Apply(d, TRUE) /\ hooks'[h].miss = NoReceipt
               \/ hooks'[h].miss = d
      BY <2>5 DEF Persisted
    <3>2. e \in hooks[h].todo \/ Safe(e)
      BY <1>1, <1>3, <2>1, <2>5, <3>1 DEF Persisted, Keeping
    <3>3. CASE e = d /\ Matched(d) /\ Apply(d, TRUE)
      BY <2>1, <3>3, ApplyReflects DEF Safe
    <3> QED BY <2>2, <3>1, <3>2, <3>3
  <2>6. CASE Kept(hooks[h], hooks'[h])
    <3>1. e \in hooks[h].todo \/ e = hooks[h].miss \/ Safe(e)
      BY <1>3, <2>6 DEF Kept, Keeping
    <3>2. ASSUME e = hooks[h].miss, e \in processed PROVE Safe(e)
      BY <3>2 DEF Keeping, NoReceiptLost, Safe
    <3>3. ASSUME e = hooks[h].miss, e \notin processed PROVE Safe(e)'
      BY <2>6, <3>3 DEF Kept, Safe
    <3> QED BY <2>2, <2>6, <3>1, <3>2, <3>3 DEF Kept
  <2> QED BY <1>3, <2>1, <2>3, <2>4, <2>5, <2>6 DEF RequestStep
<1>4. ASSUME NEW w \in Workers, NEW e \in Receipts, workers'[w].mark = e
      PROVE  Reflected(e)'
  <2>1. TickStep(w, workers[w], workers'[w]) /\ e # NoReceipt
    BY <1>0, <1>1 DEF TickSteps
  <2>2. CASE workers[w].mark = e
    <3>1. Reflected(e)
      BY <2>1, <2>2 DEF Keeping
    <3> QED BY <3>1, ReflectedStays
  <2>3. CASE Matched(e) /\ Apply(e, FALSE)
    BY <2>3, ApplyReflects
  <2> QED BY <1>4, <2>1, <2>2, <2>3 DEF TickStep, SameScan, Posted, Scanned
<1>5. ASSUME NEW w \in Workers
      PROVE  (workers[w].mark # NoReceipt => Reflected(workers[w].mark))'
  <2> SUFFICES ASSUME workers'[w].mark # NoReceipt
               PROVE  Reflected(workers[w].mark)'
    OBVIOUS
  <2>1. PICK e \in Receipts : e = workers'[w].mark
    BY <1>1 DEF Ticks, Tick
  <2> QED BY <1>4, <2>1 DEF Reflected
<1>6. NoReceiptLost'
  BY <1>2 DEF NoReceiptLost, Safe
<1> QED BY <1>3, <1>5, <1>6 DEF Keeping

(* A callback answered with 200, or marked processed, is in the outbox or   *)
(* still pending, whatever failed, crashed, came twice or too early.        *)
THEOREM NoReceiptIsLost == Spec => []NoReceiptLost
<1>1. Init => Keeping
  <2> SUFFICES ASSUME Init PROVE Keeping
    OBVIOUS
  <2>1. \A h \in Hooks : hooks[h].batch = {}
    BY NoRequestFields DEF Init
  <2>2. \A w \in Workers : workers[w].mark = NoReceipt
    BY DEF Init, Idle
  <2>3. acked = {} /\ processed = {}
    BY DEF Init
  <2> QED BY <2>1, <2>2, <2>3 DEF Keeping, NoReceiptLost
<1>2. TypeOK /\ IdOnlyWhenAccepted /\ Keeping /\ [Next]_vars => Keeping'
  BY KeepingStep
<1>3. Keeping => NoReceiptLost
  BY DEF Keeping
<1> QED BY <1>1, <1>2, <1>3, TypeCorrect, IdsOnlyWhenAccepted, PTL DEF Spec

-----------------------------------------------------------------------------
(* The outbox implements ReplyPromise, step by step: whatever leases, ticks *)
(* and requests do is a step of the promise or does not touch it.           *)

(* The promise's variables, under the refinement mapping.                   *)
phases == [r \in Replies |-> Phase(outbox[r].status)]
tries == [r \in Replies |-> outbox[r].attempts]
records == [r \in Replies |-> outbox[r].pid]
words == {Said(e) : e \in reported}

Promised == [Promise!Next]_<<phases, tries, records, UnderWay, sent, words>>

(* The message a tick is at.                                                *)
Message(w) == <<workers[w].reply, workers[w].token>>

(* The phases tell the statuses apart that the promise tells apart.         *)
LEMMA PhaseCases ==
  /\ Phase("ABSENT") = "NONE" /\ Phase("QUEUED") = "WAITING"
  /\ Phase("FAILED_RETRYABLE") = "WAITING" /\ Phase("SENDING") = "TRYING"
  /\ Phase("ACCEPTANCE_UNKNOWN") = "IN_DOUBT" /\ Phase("QUARANTINED") = "WITHHELD"
  /\ Phase("ACCEPTED") = "TAKEN" /\ Phase("DELIVERED") = "DELIVERED"
  /\ Phase("READ") = "READ" /\ Phase("FAILED_FINAL") = "FAILED"
  BY Zenon DEF Phase

(* A step that changes no row but for its lease or its due date, sends      *)
(* nothing, ends no post and reports nothing.                               *)
LEMMA PromiseStutters ==
  ASSUME \A r \in Replies : /\ outbox'[r].status = outbox[r].status
                            /\ outbox'[r].attempts = outbox[r].attempts
                            /\ outbox'[r].pid = outbox[r].pid,
         UnderWay' = UnderWay, sent' = sent, reported' = reported
  PROVE  Promised
<1>1. phases' = phases /\ tries' = tries /\ records' = records /\ words' = words
  BY DEF phases, tries, records, words
<1> QED BY <1>1 DEF Promised

(* A function that differs from another at one argument.                    *)
LEMMA OneArgument ==
  ASSUME NEW S, NEW f, NEW g, NEW r \in S, NEW v,
         f = [q \in S |-> f[q]], g = [q \in S |-> g[q]],
         g[r] = v, \A q \in S : q # r => g[q] = f[q]
  PROVE  g = [f EXCEPT ![r] = v]
  OBVIOUS

(* The mapped state when one row is written.                                *)
LEMMA MappedRow ==
  ASSUME Rows, NEW r \in Replies, NEW row, outbox' = [outbox EXCEPT ![r] = row]
  PROVE  /\ phases' = [phases EXCEPT ![r] = Phase(row.status)]
         /\ tries' = [tries EXCEPT ![r] = row.attempts]
         /\ records' = [records EXCEPT ![r] = row.pid]
<1>1. outbox'[r] = row /\ \A q \in Replies : q # r => outbox'[q] = outbox[q]
  BY DEF Rows
<1>2. /\ phases'[r] = Phase(row.status) /\ tries'[r] = row.attempts /\ records'[r] = row.pid
      /\ \A q \in Replies : q # r =>
            phases'[q] = phases[q] /\ tries'[q] = tries[q] /\ records'[q] = records[q]
  BY <1>1 DEF phases, tries, records
<1>3. phases = [q \in Replies |-> phases[q]] /\ phases' = [q \in Replies |-> phases'[q]]
  BY DEF phases
<1>4. tries = [q \in Replies |-> tries[q]] /\ tries' = [q \in Replies |-> tries'[q]]
  BY DEF tries
<1>5. records = [q \in Replies |-> records[q]] /\ records' = [q \in Replies |-> records'[q]]
  BY DEF records
<1>6. phases' = [phases EXCEPT ![r] = Phase(row.status)]
  BY <1>2, <1>3, OneArgument
<1>7. tries' = [tries EXCEPT ![r] = row.attempts]
  BY <1>2, <1>4, OneArgument
<1> QED BY <1>2, <1>5, <1>6, <1>7, OneArgument

(* What is written back as it was is no change.                             *)
LEMMA MappedSame ==
  ASSUME NEW r \in Replies
  PROVE  /\ [phases EXCEPT ![r] = phases[r]] = phases
         /\ [tries EXCEPT ![r] = tries[r]] = tries
         /\ [records EXCEPT ![r] = records[r]] = records
         /\ phases[r] = Phase(outbox[r].status)
         /\ tries[r] = outbox[r].attempts /\ records[r] = outbox[r].pid
  BY DEF phases, tries, records

(* The mapped state when one row is written and keeps its count or its id.  *)
LEMMA MappedMove ==
  ASSUME Rows, NEW r \in Replies, NEW row, outbox' = [outbox EXCEPT ![r] = row]
  PROVE  /\ phases' = [phases EXCEPT ![r] = Phase(row.status)]
         /\ tries' = [tries EXCEPT ![r] = row.attempts]
         /\ records' = [records EXCEPT ![r] = row.pid]
         /\ row.attempts = outbox[r].attempts => tries' = tries
         /\ row.pid = outbox[r].pid => records' = records
<1>1. /\ phases' = [phases EXCEPT ![r] = Phase(row.status)]
      /\ tries' = [tries EXCEPT ![r] = row.attempts]
      /\ records' = [records EXCEPT ![r] = row.pid]
  BY MappedRow
<1>2. row.attempts = outbox[r].attempts => tries' = tries
  BY <1>1, MappedSame
<1>3. row.pid = outbox[r].pid => records' = records
  BY <1>1, MappedSame
<1> QED BY <1>1, <1>2, <1>3

(* A step that moves only ticks that are not posting, before or after.      *)
LEMMA SamePosts ==
  ASSUME \A w \in Workers :
            \/ workers'[w] = workers[w]
            \/ workers'[w].phase # "posting" /\ workers[w].phase # "posting"
  PROVE  UnderWay' = UnderWay
  BY DEF UnderWay

(* A tick begins a post.                                                    *)
LEMMA OnePostMore ==
  ASSUME NEW w \in Workers, workers'[w].phase = "posting", workers[w].phase # "posting",
         \A v \in Workers : v # w => workers'[v] = workers[v]
  PROVE  UnderWay' = UnderWay \union {Message(w)'}
  BY DEF UnderWay, Message

(* A tick is done with a post, which no other tick is at.                   *)
LEMMA OnePostLess ==
  ASSUME Leases,
         NEW w \in Workers, workers[w].phase = "posting", workers'[w].phase # "posting",
         \A v \in Workers : v # w => workers'[v] = workers[v]
  PROVE  /\ Message(w) \in UnderWay
         /\ UnderWay' = UnderWay \ {Message(w)}
<1>1. \A v \in Workers : v # w /\ workers[v].phase = "posting" => Message(v) # Message(w)
  BY DEF Leases, Busy, Message
<1>2. Message(w) \in UnderWay
  BY DEF UnderWay, Message
<1>3. UnderWay = {Message(v) : v \in {u \in Workers : workers[u].phase = "posting"}}
  BY DEF UnderWay, Message
<1>4. UnderWay' = {Message(v) : v \in {u \in Workers : workers[u].phase = "posting"} \ {w}}
  <2>1. UnderWay' = {<<workers'[v].reply, workers'[v].token>> :
                       v \in {u \in Workers : workers'[u].phase = "posting"}}
    BY DEF UnderWay
  <2>2. {u \in Workers : workers'[u].phase = "posting"}
          = {u \in Workers : workers[u].phase = "posting"} \ {w}
    OBVIOUS
  <2>3. \A v \in {u \in Workers : workers[u].phase = "posting"} \ {w} :
          <<workers'[v].reply, workers'[v].token>> = Message(v)
    BY DEF Message
  <2> QED BY <2>1, <2>2, <2>3
<1> QED BY <1>1, <1>2, <1>3, <1>4

(* One step of the promise, on one reply, one message or one word.          *)
LEMMA PromiseMoves ==
  /\ \A r \in Replies :
       (\/ Promise!Owe(r) \/ Promise!Begin(r) \/ Promise!Accept(r) \/ Promise!TurnDown(r)
        \/ Promise!Doubt(r) \/ Promise!Withhold(r)) => Promised
  /\ \A m \in UnderWay : Promise!Arrive(m) => Promised
  /\ \A r \in Replies, e \in words : Promise!Learn(r, e) => Promised
  BY DEF Promised, Promise!Next, words

(* What a post does: the provider may take the one message, and has taken   *)
(* it if the answer says so.                                                *)
LEMMA PostEffect ==
  ASSUME TypeOK, NEW w \in Workers, Post(w)
  PROVE  /\ workers[w].phase = "posting" /\ workers'[w].phase = "reporting"
         /\ Message(w)' = Message(w)
         /\ \A v \in Workers : v # w => workers'[v] = workers[v]
         /\ sent' \in {sent, sent \union {Message(w)}}
         /\ workers'[w].answer = "ID" => Message(w) \in sent'
         /\ outbox' = outbox /\ reported' = reported
<1>1. workers \in [Workers -> Tick]
  BY TypeParts DEF Ticks
<1>2. PICK a \in Answers, taken \in BOOLEAN :
        /\ a = "ID" => taken
        /\ Become(w, [workers[w] EXCEPT !.phase = "reporting", !.answer = a])
        /\ sent' = IF taken THEN sent \union {<<workers[w].reply, workers[w].token>>} ELSE sent
  BY DEF Post
<1>3. /\ workers'[w].reply = workers[w].reply /\ workers'[w].token = workers[w].token
      /\ workers'[w].phase = "reporting" /\ workers'[w].answer = a
      /\ \A v \in Workers : v # w => workers'[v] = workers[v]
  BY <1>1, <1>2 DEF Become, Tick
<1>4. sent' = IF taken THEN sent \union {Message(w)} ELSE sent
  BY <1>2 DEF Message
<1>5. Message(w)' = Message(w)
  BY <1>3 DEF Message
<1>6. workers[w].phase = "posting" /\ outbox' = outbox /\ reported' = reported
  BY DEF Post
<1>7. CASE taken
  BY <1>3, <1>4, <1>5, <1>6, <1>7
<1>8. CASE ~taken
  BY <1>2, <1>3, <1>4, <1>5, <1>6, <1>8
<1> QED BY <1>7, <1>8

(* A tick that reports an id reports a message the provider has taken.      *)
Answered ==
    \A w \in Workers :
        workers[w].phase = "reporting" /\ workers[w].answer = "ID" => Message(w) \in sent

LEMMA AnsweredStep ==
  ASSUME TypeOK, Answered, [Next]_vars
  PROVE  Answered'
<1> SUFFICES ASSUME NEW w \in Workers,
                    workers'[w].phase = "reporting", workers'[w].answer = "ID"
             PROVE  Message(w)' \in sent'
  BY DEF Answered
<1>1. TickStep(w, workers[w], workers'[w])
  BY Steps DEF TickSteps
<1>2. sent \subseteq sent'
  BY SentWriters, PostEffect
<1>3. CASE SameSend(workers[w], workers'[w])
  BY <1>2, <1>3 DEF SameSend, Answered, Message
<1>4. CASE Post(w)
  BY <1>4, PostEffect
<1> QED BY <1>1, <1>3, <1>4 DEF TickStep, Posted, Scanned, Busy

(* Producers, operators and time.                                           *)
LEMMA PromiseOfRows ==
  ASSUME TypeOK, NEW r \in Replies,
         Enqueue(r) \/ Quarantine(r) \/ LeaseExpires(r) \/ RetryDue(r)
  PROVE  Promised
<1>0. /\ Rows /\ outbox[r] \in Row
      /\ sent' = sent /\ reported' = reported /\ workers' = workers
  BY TypeParts DEF Rows, Enqueue, Quarantine, LeaseExpires, RetryDue, provider
<1>1. UnderWay' = UnderWay /\ words' = words
  BY <1>0 DEF UnderWay, words
<1>2. CASE Enqueue(r)
  <2> DEFINE row == [outbox[r] EXCEPT !.status = "QUEUED", !.due = TRUE]
  <2>1. outbox[r].status = "ABSENT" /\ outbox' = [outbox EXCEPT ![r] = row]
    BY <1>2 DEF Enqueue
  <2>2. row.status = "QUEUED" /\ row.attempts = outbox[r].attempts /\ row.pid = outbox[r].pid
    BY <1>0 DEF Row
  <2> HIDE DEF row
  <2>3. /\ phases[r] = "NONE" /\ phases' = [phases EXCEPT ![r] = "WAITING"]
        /\ tries' = tries /\ records' = records
    <3>1. phases[r] = "NONE" /\ Phase(row.status) = "WAITING"
      BY <2>1, <2>2, MappedSame, PhaseCases
    <3>2. /\ phases' = [phases EXCEPT ![r] = Phase(row.status)]
          /\ tries' = tries /\ records' = records
      BY <1>0, <2>1, <2>2, MappedMove
    <3> QED BY <3>1, <3>2
  <2>4. Promise!Owe(r)
    BY <1>0, <1>1, <2>3 DEF Promise!Owe, phases, tries, records, words
  <2> QED BY <2>4, PromiseMoves
<1>3. CASE Quarantine(r)
  <2> DEFINE row == [Unleased(outbox[r], "QUARANTINED") EXCEPT !.due = FALSE]
  <2>1. /\ outbox[r].status \in {"QUEUED", "SENDING", "FAILED_RETRYABLE", "ACCEPTANCE_UNKNOWN"}
        /\ outbox' = [outbox EXCEPT ![r] = row]
    BY <1>3 DEF Quarantine
  <2>2. /\ row.status = "QUARANTINED" /\ row.attempts = outbox[r].attempts
        /\ row.pid = outbox[r].pid
    BY <1>0, QuarantinedRowFields DEF Rows
  <2> HIDE DEF row
  <2>3. /\ phases[r] \in {"WAITING", "TRYING", "IN_DOUBT"}
        /\ phases' = [phases EXCEPT ![r] = "WITHHELD"]
        /\ tries' = tries /\ records' = records
    <3>1. phases[r] \in {"WAITING", "TRYING", "IN_DOUBT"} /\ Phase(row.status) = "WITHHELD"
      BY <2>1, <2>2, MappedSame, PhaseCases
    <3>2. /\ phases' = [phases EXCEPT ![r] = Phase(row.status)]
          /\ tries' = tries /\ records' = records
      BY <1>0, <2>1, <2>2, MappedMove
    <3> QED BY <3>1, <3>2
  <2>4. Promise!Withhold(r)
    BY <1>0, <1>1, <2>3 DEF Promise!Withhold, phases, tries, records, words
  <2> QED BY <2>4, PromiseMoves
<1>4. CASE LeaseExpires(r)
  <2>1. outbox' = [outbox EXCEPT ![r].live = FALSE]
    BY <1>4 DEF LeaseExpires
  <2> QED BY <1>0, <1>1, <2>1, PromiseStutters DEF Rows, Row
<1>5. CASE RetryDue(r)
  <2>1. outbox' = [outbox EXCEPT ![r].due = TRUE]
    BY <1>5 DEF RetryDue
  <2> QED BY <1>0, <1>1, <2>1, PromiseStutters DEF Rows, Row
<1> QED BY <1>2, <1>3, <1>4, <1>5

(* A claim begins a message.                                                *)
LEMMA PromiseOfClaim ==
  ASSUME TypeOK, NEW w \in Workers, Claim(w)
  PROVE  Promised
<1>1. PICK r \in Replies :
        /\ Claimable(outbox[r]) /\ outbox[r].attempts < MaxClaims
        /\ outbox' = [outbox EXCEPT ![r] = ClaimRow(outbox[r])]
        /\ Become(w, [workers[w] EXCEPT !.phase = "posting", !.claims = @ + 1,
                        !.reply = r, !.token = ClaimRow(outbox[r]).token])
  BY DEF Claim, NextReply
<1>2. Rows /\ Ticks /\ workers[w].phase = "sending"
  BY TypeParts DEF Claim
<1> DEFINE row == ClaimRow(outbox[r])
<1>3. /\ row.status = "SENDING" /\ row.attempts = outbox[r].attempts + 1
      /\ row.token = outbox[r].attempts + 1 /\ row.pid = outbox[r].pid
  BY <1>1, <1>2, ClaimRowFields DEF Rows
<1>4. outbox' = [outbox EXCEPT ![r] = row]
  BY <1>1
<1>5. /\ workers'[w].reply = r /\ workers'[w].phase = "posting"
      /\ workers'[w].token = row.token
      /\ \A v \in Workers : v # w => workers'[v] = workers[v]
  BY <1>1, <1>2 DEF Become, Ticks, Tick
<1> HIDE DEF row
<1>6. /\ phases[r] \in {"WAITING", "TRYING"}
      /\ phases' = [phases EXCEPT ![r] = "TRYING"]
      /\ tries' = [tries EXCEPT ![r] = tries[r] + 1]
      /\ records' = records
  <2>1. phases[r] \in {"WAITING", "TRYING"} /\ Phase(row.status) = "TRYING"
    BY <1>1, <1>3, MappedSame, PhaseCases DEF Claimable
  <2>2. row.attempts = tries[r] + 1
    BY <1>3, MappedSame
  <2>3. /\ phases' = [phases EXCEPT ![r] = Phase(row.status)]
        /\ tries' = [tries EXCEPT ![r] = row.attempts]
        /\ records' = records
    BY <1>2, <1>3, <1>4, MappedMove
  <2> QED BY <2>1, <2>2, <2>3
<1>7. UnderWay' = UnderWay \union {<<r, tries[r] + 1>>}
  BY <1>2, <1>3, <1>5, OnePostMore, MappedSame DEF Message
<1>8. sent' = sent /\ words' = words
  BY DEF Claim, provider, words
<1>9. Promise!Begin(r)
  BY <1>6, <1>7, <1>8 DEF Promise!Begin, phases, tries, records, words
<1> QED BY <1>9, PromiseMoves

(* A post that ends, whatever its tick learns, arrives or is lost.          *)
LEMMA PromiseOfEnd ==
  ASSUME Leases, NEW w \in Workers,
         workers[w].phase = "posting", workers'[w].phase # "posting",
         \A v \in Workers : v # w => workers'[v] = workers[v],
         sent' \in {sent, sent \union {Message(w)}},
         outbox' = outbox, reported' = reported
  PROVE  Promised
<1>1. /\ Message(w) \in UnderWay
      /\ UnderWay' = UnderWay \ {Message(w)}
  BY OnePostLess
<1>2. phases' = phases /\ tries' = tries /\ records' = records /\ words' = words
  BY DEF phases, tries, records, words
<1>3. Promise!Arrive(Message(w))
  BY <1>1, <1>2 DEF Promise!Arrive, phases, tries, records, words
<1> QED BY <1>1, <1>3, PromiseMoves

(* A tick that lets go of its claim is not posting.                         *)
LEMMA UnclaimedPosts ==
  ASSUME TypeOK, NEW w \in Workers, workers[w].phase = "reporting", Become(w, Unclaimed(w))
  PROVE  UnderWay' = UnderWay
<1>1. workers \in [Workers -> Tick] /\ Unclaimed(w).phase = "sending"
  BY TypeParts DEF Ticks, Unclaimed, Idle
<1>2. workers'[w].phase = "sending" /\ \A v \in Workers : v # w => workers'[v] = workers[v]
  BY <1>1 DEF Become
<1> QED BY <1>2, SamePosts

(* Completion puts the newest message on record, which the provider took.   *)
LEMMA PromiseOfComplete ==
  ASSUME TypeOK, Leases, Answered, NEW w \in Workers, Complete(w)
  PROVE  Promised
<1>0. Rows /\ Ticks
  BY TypeParts
<1>r. PICK r \in Replies : r = workers[w].reply
  BY <1>0 DEF Ticks, GoodTick, Busy, Complete
<1> DEFINE row == CompletedRow(outbox[r], workers[w].token)
<1>1. /\ workers[w].phase = "reporting" /\ workers[w].answer = "ID"
      /\ outbox[r].status = "SENDING" /\ outbox[r].token = workers[w].token
      /\ outbox' = [outbox EXCEPT ![r] = row] /\ Become(w, Unclaimed(w))
      /\ sent' = sent /\ reported' = reported
  BY <1>r DEF Complete, Holds, provider
<1>2. /\ GoodRow(outbox[r])
      /\ workers[w].token \in Nat /\ workers[w].token # 0
  BY <1>0, <1>1, <1>r DEF Rows, Ticks, GoodTick, Busy, Attempts
<1>3. row.status = "ACCEPTED" /\ row.attempts = outbox[r].attempts /\ row.pid = workers[w].token
  BY <1>2, CompletedRowFields
<1>4. workers[w].token = tries[r] /\ <<r, tries[r]>> \in sent
  <2>1. workers[w].token = outbox[r].attempts
    BY <1>1, <1>2 DEF Leases
  <2>2. <<r, workers[w].token>> \in sent
    BY <1>1, <1>r DEF Answered, Message
  <2> QED BY <1>2, <2>1, <2>2, MappedSame
<1> HIDE DEF row
<1>5. /\ phases' = [phases EXCEPT ![r] = Phase(row.status)]
      /\ tries' = tries
      /\ records' = [records EXCEPT ![r] = row.pid]
  BY <1>0, <1>1, <1>2, <1>3, MappedMove
<1>6. /\ phases[r] = "TRYING" /\ phases' = [phases EXCEPT ![r] = "TAKEN"]
      /\ records' = [records EXCEPT ![r] = tries[r]]
  <2>1. phases[r] = "TRYING" /\ Phase(row.status) = "TAKEN"
    BY <1>1, <1>2, <1>3, MappedSame, PhaseCases
  <2> QED BY <1>3, <1>4, <1>5, <2>1
<1>7. UnderWay' = UnderWay /\ words' = words
  BY <1>1, UnclaimedPosts DEF words
<1>8. Promise!Accept(r)
  BY <1>1, <1>2, <1>4, <1>5, <1>6, <1>7
     DEF Promise!Accept, Promise!Newest, phases, tries, records, words
<1> QED BY <1>8, PromiseMoves

(* A reported failure: the newest message was turned down, or is in doubt.  *)
LEMMA PromiseOfFail ==
  ASSUME TypeOK, Leases, Sendings, NEW w \in Workers, Fail(w)
  PROVE  Promised
<1>0. Rows /\ Ticks
  BY TypeParts
<1>r. PICK r \in Replies : r = workers[w].reply
  BY <1>0 DEF Ticks, GoodTick, Busy, Fail
<1> DEFINE unknown == workers[w].answer \in {"NO_ID", "TIMEOUT"}
           row == FailedRow(outbox[r], unknown)
<1>1. /\ workers[w].phase = "reporting"
      /\ outbox[r].status = "SENDING" /\ outbox[r].token = workers[w].token
      /\ outbox' = [outbox EXCEPT ![r] = row] /\ Become(w, Unclaimed(w))
      /\ sent' = sent /\ reported' = reported
  BY <1>r DEF Fail, Holds, provider
<1>2. /\ GoodRow(outbox[r])
      /\ workers[w].token \in Nat /\ workers[w].token # 0
  BY <1>0, <1>1, <1>r DEF Rows, Ticks, GoodTick, Busy, Attempts
<1>3. /\ row.status = (IF unknown THEN "ACCEPTANCE_UNKNOWN"
                       ELSE IF outbox[r].attempts < MaxAttempts THEN "FAILED_RETRYABLE"
                       ELSE "FAILED_FINAL")
      /\ row.attempts = outbox[r].attempts /\ row.pid = outbox[r].pid
  <2>1. unknown \in BOOLEAN
    OBVIOUS
  <2> HIDE DEF unknown
  <2> QED BY <1>2, <2>1, FailedRowFields
<1>4. Message(w) = <<r, tries[r]>>
  <2>1. workers[w].token = outbox[r].attempts
    BY <1>1, <1>2 DEF Leases
  <2> QED BY <1>2, <1>r, <2>1, MappedSame DEF Message
<1>5. Message(w) \notin UnderWay
  BY <1>1 DEF UnderWay, Message, Leases, Busy
<1>6. unknown \/ Message(w) \notin sent
  BY <1>1, FailEffect DEF Sendings, Message
<1> HIDE DEF row, unknown
<1>7. /\ phases' = [phases EXCEPT ![r] = Phase(row.status)]
      /\ tries' = tries /\ records' = records
  BY <1>0, <1>1, <1>2, <1>3, MappedMove
<1>8. phases[r] = "TRYING"
  BY <1>1, <1>2, MappedSame, PhaseCases
<1>9. UnderWay' = UnderWay /\ words' = words
  BY <1>1, UnclaimedPosts DEF words
<1>10. CASE unknown
  <2>1. Phase(row.status) = "IN_DOUBT"
    BY <1>3, <1>10, PhaseCases
  <2>2. Promise!Doubt(r)
    BY <1>1, <1>2, <1>4, <1>5, <1>7, <1>8, <1>9, <2>1
       DEF Promise!Doubt, Promise!Newest, phases, tries, records, words
  <2> QED BY <1>2, <2>2, PromiseMoves
<1>11. CASE ~unknown
  <2>1. Phase(row.status) \in {"WAITING", "FAILED"}
    BY <1>3, <1>11, PhaseCases
  <2>2. Promise!TurnDown(r)
    BY <1>1, <1>2, <1>4, <1>5, <1>6, <1>7, <1>8, <1>9, <1>11, <2>1
       DEF Promise!TurnDown, Promise!Newest, phases, tries, records, words
  <2> QED BY <1>2, <2>2, PromiseMoves
<1> QED BY <1>10, <1>11

(* The status RPC, for a request or a scan: the provider's word on the      *)
(* message on record, or nothing.                                           *)
LEMMA PromiseOfWord ==
  ASSUME TypeOK, IdOnlyWhenAccepted, NEW e \in Receipts, e \in reported,
         NEW coded \in BOOLEAN, Matched(e), Apply(e, coded),
         UnderWay' = UnderWay, sent' = sent, reported' = reported
  PROVE  Promised
<1> DEFINE r == e.message[1]
           row == StatusRow(outbox[r], e.status, coded)
<1>1. /\ r \in Replies /\ e.message[2] \in Attempts
      /\ e.message = <<r, e.message[2]>> /\ e.status \in Reported
  BY ReceiptShape
<1>2. Rows /\ GoodRow(outbox[r]) /\ outbox' = [outbox EXCEPT ![r] = row]
  BY <1>1, TypeParts DEF Rows, Apply
<1>3. outbox[r].pid = e.message[2] /\ outbox[r].status \in Reported
  BY <1>1 DEF Matched, IdOnlyWhenAccepted, Attempts
<1>4. /\ row.attempts = outbox[r].attempts /\ row.pid = outbox[r].pid
      /\ \/ row.status = outbox[r].status
         \/ row.status = e.status /\ ~Ignored(outbox[r].status, e.status)
  BY <1>1, <1>2, StatusRowFields
<1> HIDE DEF row
<1>5. /\ phases' = [phases EXCEPT ![r] = Phase(row.status)]
      /\ tries' = tries /\ records' = records
  BY <1>1, <1>2, <1>4, MappedMove
<1>6. words' = words /\ Said(e) \in words
  BY DEF words
<1>7. /\ Said(e).message = <<r, records[r]>> /\ Said(e).status = Phase(e.status)
      /\ phases[r] = Phase(outbox[r].status)
  BY <1>1, <1>3, MappedSame DEF Said
<1> HIDE DEF r
<1>8. CASE row.status = outbox[r].status
  <2>1. phases' = phases
    BY <1>1, <1>5, <1>7, <1>8, MappedSame
  <2> QED BY <1>5, <1>6, <2>1 DEF Promised
<1>9. CASE row.status = e.status /\ ~Ignored(outbox[r].status, e.status)
  <2>1. \/ outbox[r].status = "ACCEPTED" /\ e.status \in {"DELIVERED", "READ", "FAILED_FINAL"}
        \/ outbox[r].status = "DELIVERED" /\ e.status = "READ"
    BY <1>1, <1>3, <1>9 DEF Ignored, Rank, Reported
  <2>2. \/ phases[r] = "TAKEN" /\ Said(e).status \in {"DELIVERED", "READ", "FAILED"}
        \/ phases[r] = "DELIVERED" /\ Said(e).status = "READ"
    BY <1>7, <2>1, PhaseCases
  <2>3. phases' = [phases EXCEPT ![r] = Said(e).status]
    BY <1>5, <1>7, <1>9
  <2>4. Promise!Learn(r, Said(e))
    BY <1>1, <1>5, <1>6, <1>7, <2>2, <2>3
       DEF Promise!Learn, phases, tries, records, words
  <2> QED BY <1>1, <1>6, <2>4, PromiseMoves
<1> QED BY <1>4, <1>8, <1>9

(* A step that writes no row, sends nothing and reports nothing: no post is *)
(* touched, or one ends.                                                    *)
LEMMA PromiseOfTick ==
  ASSUME TypeOK, Leases, NEW w \in Workers,
         \A v \in Workers : v # w => workers'[v] = workers[v],
         workers'[w].phase # "posting",
         outbox' = outbox, sent' = sent, reported' = reported
  PROVE  Promised
<1>1. CASE workers[w].phase = "posting"
  BY <1>1, PromiseOfEnd
<1>2. CASE workers[w].phase # "posting"
  <2>1. UnderWay' = UnderWay
    BY <1>2, SamePosts
  <2> QED BY <2>1, PromiseStutters
<1> QED BY <1>1, <1>2

(* A scan applies the word it has kept, if it belongs to the row.           *)
LEMMA PromiseOfScan ==
  ASSUME TypeOK, Leases, IdOnlyWhenAccepted, HeldReported, NEW w \in Workers, Scan(w)
  PROVE  Promised
<1>1. PICK e \in Receipts :
        /\ IsFirst(e, workers[w].page)
        /\ IF Matched(e) THEN Apply(e, FALSE) ELSE UNCHANGED outbox
        /\ Become(w, [workers[w] EXCEPT !.page = @ \ {e},
                        !.mark = IF Matched(e) THEN e ELSE NoReceipt])
  BY DEF Scan
<1>2. workers \in [Workers -> Tick] /\ workers[w].phase = "scanning"
  BY TypeParts DEF Ticks, Scan
<1>3. workers'[w].phase = "scanning" /\ \A v \in Workers : v # w => workers'[v] = workers[v]
  BY <1>1, <1>2 DEF Become, Tick
<1>4. UnderWay' = UnderWay /\ sent' = sent /\ reported' = reported
  BY <1>2, <1>3, SamePosts DEF Scan, provider
<1>5. e \in reported
  BY <1>1 DEF HeldReported, IsFirst
<1>6. CASE Matched(e)
  BY <1>1, <1>4, <1>5, <1>6, PromiseOfWord
<1>7. CASE ~Matched(e)
  BY <1>1, <1>4, <1>7, PromiseStutters
<1> QED BY <1>6, <1>7

(* The other steps of a tick write no row.                                  *)
LEMMA PromiseOfWorkers ==
  ASSUME TypeOK, Leases, Sendings, Answered, IdOnlyWhenAccepted, HeldReported,
         NEW w \in Workers,
         WorkerStep(w) \/ NoSends(w) \/ ReportFails(w) \/ ScanFails(w) \/ Crash(w)
  PROVE  Promised
<1>0. workers \in [Workers -> Tick]
  BY TypeParts DEF Ticks
<1>1. CASE Post(w)
  <2>1. workers'[w].phase # "posting"
    BY <1>1, PostEffect
  <2> QED BY <1>1, <2>1, PostEffect, PromiseOfEnd
<1>2. CASE \/ StartTick(w) \/ EndSends(w) \/ NoSends(w) \/ SaveCursor(w) \/ Crash(w)
           \/ Refused(w) \/ ReportFails(w)
  <2>1. /\ \/ Become(w, Idle)
           \/ Become(w, [Idle EXCEPT !.phase = "sending"])
           \/ Become(w, [Idle EXCEPT !.phase = "reading"])
           \/ Become(w, Unclaimed(w))
        /\ outbox' = outbox /\ sent' = sent /\ reported' = reported
    BY <1>2 DEF StartTick, EndSends, NoSends, SaveCursor, Crash, Refused, ReportFails, provider
  <2>2. /\ Idle.phase = "idle" /\ [Idle EXCEPT !.phase = "sending"].phase = "sending"
        /\ [Idle EXCEPT !.phase = "reading"].phase = "reading"
        /\ Unclaimed(w).phase = "sending"
    BY DEF Idle, Unclaimed
  <2>3. /\ workers'[w].phase # "posting"
        /\ \A v \in Workers : v # w => workers'[v] = workers[v]
    BY <1>0, <2>1, <2>2 DEF Become
  <2> QED BY <2>1, <2>3, PromiseOfTick
<1>3. CASE ReadCursor(w) \/ ReadPage(w) \/ ScanFails(w)
  <2>1. /\ outbox' = outbox /\ sent' = sent /\ reported' = reported
        /\ \A v \in Workers : v # w => workers'[v] = workers[v]
    BY <1>0, <1>3 DEF ReadCursor, ReadPage, ScanFails, Become, provider
  <2>2. workers'[w].phase # "posting"
    <3>1. CASE ReadCursor(w)
      BY <1>0, <3>1 DEF ReadCursor, Become, Tick
    <3>2. CASE ReadPage(w)
      <4>1. /\ Idle.phase = "idle"
            /\ \A n, p : [Idle EXCEPT !.phase = "scanning", !.upto = n, !.page = p].phase
                          = "scanning"
        BY DEF Idle
      <4>2. \/ Become(w, Idle)
            \/ \E n, p : Become(w, [Idle EXCEPT !.phase = "scanning", !.upto = n, !.page = p])
        BY <3>2 DEF ReadPage
      <4>3. CASE Become(w, Idle)
        BY <1>0, <4>1, <4>3 DEF Become
      <4>4. ASSUME NEW m, Become(w, m) PROVE workers'[w] = m
        BY <1>0, <4>4 DEF Become
      <4> QED BY <4>1, <4>2, <4>3, <4>4
    <3>3. CASE ScanFails(w)
      BY <1>0, <3>3 DEF ScanFails, Become, Tick
    <3> QED BY <1>3, <3>1, <3>2, <3>3
  <2> QED BY <2>1, <2>2, PromiseOfTick
<1>4. CASE Mark(w)
  <2>1. /\ outbox' = outbox /\ sent' = sent /\ reported' = reported
        /\ \A v \in Workers : v # w => workers'[v] = workers[v]
        /\ workers'[w].phase = workers[w].phase /\ workers'[w].reply = workers[w].reply
        /\ workers'[w].token = workers[w].token
    BY <1>0, <1>4 DEF Mark, Become, Tick, provider
  <2>2. UnderWay' = UnderWay
    BY <2>1 DEF UnderWay
  <2> QED BY <2>1, <2>2, PromiseStutters
<1> QED BY <1>1, <1>2, <1>3, <1>4, PromiseOfClaim, PromiseOfComplete, PromiseOfFail, PromiseOfScan
        DEF WorkerStep

(* The provider's words, and the requests that bring them.                  *)
LEMMA PromiseOfHooks ==
  ASSUME TypeOK, IdOnlyWhenAccepted, HeldReported, NEW h \in Hooks, NEW batch,
         \/ Receive(h, batch) \/ Persist(h) \/ Park(h) \/ Respond(h)
         \/ PersistFails(h) \/ HookCrash(h)
  PROVE  Promised
<1>1. UnderWay' = UnderWay /\ sent' = sent /\ reported' = reported
  BY DEF UnderWay, Receive, Persist, Park, Respond, PersistFails, HookCrash, provider
<1>2. CASE Persist(h)
  <2>1. PICK e \in hooks[h].todo : IF Matched(e) THEN Apply(e, TRUE) ELSE UNCHANGED outbox
    BY <1>2 DEF Persist
  <2>2. e \in Receipts /\ e \in reported
    BY TypeParts DEF HeldReported, Ledgers
  <2>3. CASE Matched(e)
    BY <1>1, <2>1, <2>2, <2>3, PromiseOfWord
  <2>4. CASE ~Matched(e)
    BY <1>1, <2>1, <2>4, PromiseStutters
  <2> QED BY <2>3, <2>4
<1>3. CASE ~Persist(h)
  <2>1. outbox' = outbox
    BY <1>3 DEF Receive, Park, Respond, PersistFails, HookCrash
  <2> QED BY <1>1, <2>1, PromiseStutters
<1> QED BY <1>2, <1>3

LEMMA PromiseOfIssue ==
  ASSUME TypeOK, NEW e \in Receipts, Issue(e)
  PROVE  Promised
<1>1. /\ outbox' = outbox /\ workers' = workers /\ sent' = sent
      /\ e.message \in sent /\ e.status \in Reported
      /\ reported' = reported \union {e}
  BY ReceiptShape DEF Issue
<1>2. /\ phases' = phases /\ tries' = tries /\ records' = records /\ UnderWay' = UnderWay
      /\ words' = words \union {Said(e)}
  BY <1>1 DEF phases, tries, records, UnderWay, words
<1>3. Said(e) = [message |-> e.message, status |-> Phase(e.status)]
  BY DEF Said
<1>4. Phase(e.status) \in {"TAKEN", "DELIVERED", "READ", "FAILED"}
  BY <1>1, PhaseCases DEF Reported
<1>5. Promise!Tell(Said(e))
  BY <1>1, <1>2, <1>3 DEF Promise!Tell, phases, tries, records, words
<1> QED BY <1>1, <1>3, <1>4, <1>5 DEF Promised, Promise!Next

(* One step keeps the promise.                                              *)
LEMMA PromiseStep ==
  ASSUME TypeOK, Leases, Sendings, Answered, IdOnlyWhenAccepted, HeldReported, [Next]_vars
  PROVE  Promised
<1>1. CASE UNCHANGED vars
  BY <1>1, PromiseStutters DEF vars, provider, UnderWay
<1> QED BY <1>1, PromiseOfRows, PromiseOfWorkers, PromiseOfHooks, PromiseOfIssue
        DEF Next, HookStep

(* At the start nothing is owed, under way, taken or said.                  *)
LEMMA PromiseInit ==
  ASSUME Init
  PROVE  Promise!Init /\ Answered
<1>1. \A r \in Replies : outbox[r].status = "ABSENT" /\ outbox[r].attempts = 0 /\ outbox[r].pid = 0
  BY NoRowFields DEF Init
<1>2. \A w \in Workers : workers[w].phase = "idle"
  BY DEF Init, Idle
<1>3. UnderWay = {} /\ Answered
  BY <1>2 DEF UnderWay, Answered
<1>4. sent = {} /\ {Said(e) : e \in reported} = {}
  BY DEF Init
<1> QED BY <1>1, <1>3, <1>4, PhaseCases DEF Promise!Init

(* The preservation of what the steps of the promise rest on.               *)
LEMMA PromiseBasis == Spec => [](TypeOK /\ Leases /\ Sendings /\ Answered
                                 /\ IdOnlyWhenAccepted /\ HeldReported)
<1>1. Init => Answered
  BY PromiseInit
<1>2. TypeOK /\ Answered /\ [Next]_vars => Answered'
  BY AnsweredStep
<1>3. Spec => [](Sendings /\ HeldReported)
  BY SendingsInvariant, HeldInvariant, PTL
<1> QED BY <1>1, <1>2, <1>3, TypeCorrect, LeasesInvariant, IdsOnlyWhenAccepted, PTL DEF Spec

(* The outbox keeps the promise in every execution: leases, retries,        *)
(* recovery, crashes, quarantine, batches of callbacks and the scan of the  *)
(* early ones neither begin a message that is not owed, nor put one on      *)
(* record that was not taken, nor give one up that may still arrive.        *)
THEOREM OutboxKeepsPromise == Spec => ImplementsPromise
<1>1. Init => Promise!Init
  BY PromiseInit
<1>2. TypeOK /\ Leases /\ Sendings /\ Answered /\ IdOnlyWhenAccepted /\ HeldReported
        /\ [Next]_vars => Promised
  BY PromiseStep
<1>3. Promised => [Promise!Next]_Promise!promiseVars
  BY DEF Promised, Promise!promiseVars, phases, tries, records, words
<1> QED BY <1>1, <1>2, <1>3, PromiseBasis, PTL DEF Spec, ImplementsPromise, Promise!Spec

-----------------------------------------------------------------------------
(* What the promise is worth: it keeps what a reply at rest says honest.    *)
(* The strengthening says how far a reply is by its phase.                  *)

HonestAt(r) ==
    /\ tries[r] \in Nat /\ (phases[r] = "TRYING" => tries[r] # 0)
    /\ records[r] # 0 =>
        /\ records[r] = tries[r] /\ <<r, tries[r]>> \in sent
        /\ phases[r] \in {"TAKEN", "DELIVERED", "READ", "FAILED"}
    /\ phases[r] \in {"TAKEN", "DELIVERED", "READ"} => records[r] # 0
    /\ phases[r] \in {"NONE", "WAITING", "FAILED"} /\ records[r] = 0
        => <<r, tries[r]>> \notin UnderWay \union sent
    /\ phases[r] = "IN_DOUBT" => <<r, tries[r]>> \notin UnderWay
    /\ phases[r] \in {"DELIVERED", "READ", "FAILED"} /\ records[r] # 0
        => [message |-> <<r, tries[r]>>, status |-> phases[r]] \in words

Honest ==
    /\ \A r \in Replies : HonestAt(r)
    /\ \A e \in words : e = [message |-> e.message, status |-> e.status]

(* The mapped state has one entry per reply.                                *)
LEMMA MappedShape ==
  /\ phases = [q \in Replies |-> phases[q]] /\ tries = [q \in Replies |-> tries[q]]
  /\ records = [q \in Replies |-> records[q]]
<1>1. phases = [q \in Replies |-> phases[q]]
  BY DEF phases
<1>2. tries = [q \in Replies |-> tries[q]]
  BY DEF tries
<1>3. records = [q \in Replies |-> records[q]]
  BY DEF records
<1> QED BY <1>1, <1>2, <1>3

(* One step of the promise keeps it.                                        *)
LEMMA HonestStep ==
  ASSUME Honest, Promised
  PROVE  Honest'
<1>0. CASE UNCHANGED <<phases, tries, records, UnderWay, sent, words>>
  BY <1>0 DEF Honest, HonestAt
<1>1. ASSUME NEW r \in Replies, Promise!Owe(r) PROVE Honest'
  <2>1. /\ phases[r] = "NONE" /\ phases' = [phases EXCEPT ![r] = "WAITING"]
        /\ UNCHANGED <<tries, records, UnderWay, sent, words>>
    BY <1>1 DEF Promise!Owe, phases, tries, records, words
  <2> QED BY <2>1, MappedShape DEF Honest, HonestAt
<1>2. ASSUME NEW r \in Replies, Promise!Begin(r) PROVE Honest'
  <2>1. /\ phases[r] \in {"WAITING", "TRYING"} /\ phases' = [phases EXCEPT ![r] = "TRYING"]
        /\ tries' = [tries EXCEPT ![r] = tries[r] + 1]
        /\ UnderWay' = UnderWay \union {<<r, tries[r] + 1>>}
        /\ UNCHANGED <<records, sent, words>>
    BY <1>2 DEF Promise!Begin, phases, tries, records, words
  <2>2. records[r] = 0
    BY <2>1 DEF Honest, HonestAt
  <2>3. HonestAt(r)'
    <3>1. /\ phases'[r] = "TRYING" /\ tries'[r] = tries[r] + 1 /\ records'[r] = 0
          /\ tries[r] \in Nat
      BY <2>1, <2>2, MappedShape DEF Honest, HonestAt
    <3>2. tries'[r] \in Nat /\ tries'[r] # 0
      BY <3>1
    <3> QED BY <3>1, <3>2 DEF HonestAt
  <2>4. ASSUME NEW q \in Replies, q # r PROVE HonestAt(q)'
    BY <2>1, <2>4, MappedShape DEF Honest, HonestAt
  <2> QED BY <2>1, <2>3, <2>4 DEF Honest
<1>3. ASSUME NEW r \in Replies, Promise!Accept(r) PROVE Honest'
  <2>1. /\ phases[r] = "TRYING" /\ <<r, tries[r]>> \in sent
        /\ phases' = [phases EXCEPT ![r] = "TAKEN"]
        /\ records' = [records EXCEPT ![r] = tries[r]]
        /\ UNCHANGED <<tries, UnderWay, sent, words>>
    BY <1>3 DEF Promise!Accept, Promise!Newest, phases, tries, records, words
  <2>2. HonestAt(r)'
    BY <2>1, MappedShape DEF Honest, HonestAt
  <2>3. ASSUME NEW q \in Replies, q # r PROVE HonestAt(q)'
    BY <2>1, <2>3, MappedShape DEF Honest, HonestAt
  <2> QED BY <2>1, <2>2, <2>3 DEF Honest
<1>4. ASSUME NEW r \in Replies, Promise!TurnDown(r) PROVE Honest'
  <2>1. PICK p \in {"WAITING", "FAILED"} : phases' = [phases EXCEPT ![r] = p]
    BY <1>4 DEF Promise!TurnDown, phases
  <2>2. /\ phases[r] = "TRYING" /\ <<r, tries[r]>> \notin UnderWay \union sent
        /\ UNCHANGED <<tries, records, UnderWay, sent, words>>
    BY <1>4 DEF Promise!TurnDown, Promise!Newest, phases, tries, records, words
  <2> QED BY <2>1, <2>2, MappedShape DEF Honest, HonestAt
<1>5. ASSUME NEW r \in Replies, Promise!Doubt(r) PROVE Honest'
  <2>1. /\ phases[r] = "TRYING" /\ <<r, tries[r]>> \notin UnderWay
        /\ phases' = [phases EXCEPT ![r] = "IN_DOUBT"]
        /\ UNCHANGED <<tries, records, UnderWay, sent, words>>
    BY <1>5 DEF Promise!Doubt, Promise!Newest, phases, tries, records, words
  <2> QED BY <2>1, MappedShape DEF Honest, HonestAt
<1>6. ASSUME NEW r \in Replies, Promise!Withhold(r) PROVE Honest'
  <2>1. /\ phases[r] \in {"WAITING", "TRYING", "IN_DOUBT"}
        /\ phases' = [phases EXCEPT ![r] = "WITHHELD"]
        /\ UNCHANGED <<tries, records, UnderWay, sent, words>>
    BY <1>6 DEF Promise!Withhold, phases, tries, records, words
  <2> QED BY <2>1, MappedShape DEF Honest, HonestAt
<1>7. ASSUME NEW r \in Replies, NEW e \in words, Promise!Learn(r, e) PROVE Honest'
  <2>1. /\ e.message = <<r, records[r]>>
        /\ \/ phases[r] = "TAKEN" /\ e.status \in {"DELIVERED", "READ", "FAILED"}
           \/ phases[r] = "DELIVERED" /\ e.status = "READ"
        /\ phases' = [phases EXCEPT ![r] = e.status]
        /\ UNCHANGED <<tries, records, UnderWay, sent, words>>
    BY <1>7 DEF Promise!Learn, phases, tries, records, words
  <2>2. records[r] # 0 /\ records[r] = tries[r]
    BY <2>1 DEF Honest, HonestAt
  <2>3. [message |-> <<r, tries[r]>>, status |-> e.status] \in words
    BY <2>1, <2>2 DEF Honest
  <2>4. phases'[r] = e.status /\ e.status \in {"DELIVERED", "READ", "FAILED"}
    BY <2>1, MappedShape
  <2>5. HonestAt(r)'
    <3>1. /\ tries'[r] = tries[r] /\ records'[r] = records[r] /\ sent' = sent /\ words' = words
      BY <2>1
    <3>2. tries[r] \in Nat /\ <<r, tries[r]>> \in sent
      BY <2>2 DEF Honest, HonestAt
    <3>3. phases'[r] \in {"DELIVERED", "READ", "FAILED"}
      BY <2>4
    <3>4. [message |-> <<r, tries'[r]>>, status |-> phases'[r]] \in words'
      BY <2>3, <2>4, <3>1
    <3> QED BY <2>2, <3>1, <3>2, <3>3, <3>4 DEF HonestAt
  <2>6. ASSUME NEW q \in Replies, q # r PROVE HonestAt(q)'
    BY <2>1, <2>6, MappedShape DEF Honest, HonestAt
  <2> QED BY <2>1, <2>5, <2>6 DEF Honest
<1>8. ASSUME NEW m \in UnderWay, Promise!Arrive(m) PROVE Honest'
  <2>1. /\ UnderWay' \subseteq UnderWay /\ sent \subseteq sent'
        /\ UnderWay' \union sent' \subseteq UnderWay \union sent
        /\ UNCHANGED <<phases, tries, records, words>>
    BY <1>8 DEF Promise!Arrive, phases, tries, records, words
  <2> QED BY <2>1 DEF Honest, HonestAt
<1>9. ASSUME NEW m, NEW s, Promise!Tell([message |-> m, status |-> s]) PROVE Honest'
  <2>1. /\ words' = words \union {[message |-> m, status |-> s]}
        /\ UNCHANGED <<phases, tries, records, UnderWay, sent>>
    BY <1>9 DEF Promise!Tell, phases, tries, records, words
  <2>2. \A r \in Replies : HonestAt(r)'
    BY <2>1 DEF Honest, HonestAt
  <2>3. \A e \in words' : e = [message |-> e.message, status |-> e.status]
    BY <2>1 DEF Honest
  <2> QED BY <2>2, <2>3 DEF Honest
<1> QED BY <1>0, <1>1, <1>2, <1>3, <1>4, <1>5, <1>6, <1>7, <1>8, <1>9
        DEF Promised, Promise!Next, words

(* What the outbox says of a reply at rest is true of the provider: an id   *)
(* on record is that of the last message, which was taken; a reply given up *)
(* has not reached the recipient, unless the provider itself said it failed,*)
(* and its last post cannot do so any more.                                 *)
THEOREM RestsAreHonest == Spec => []RestIsHonest
<1>1. Init => Honest
  <2> SUFFICES ASSUME Init PROVE Honest
    OBVIOUS
  <2>1. \A r \in Replies : outbox[r].status = "ABSENT" /\ outbox[r].attempts = 0 /\ outbox[r].pid = 0
    BY NoRowFields DEF Init
  <2>2. \A w \in Workers : workers[w].phase = "idle"
    BY DEF Init, Idle
  <2>3. UnderWay = {} /\ sent = {} /\ words = {}
    BY <2>2 DEF UnderWay, Init, words
  <2>4. \A r \in Replies : phases[r] = "NONE" /\ tries[r] = 0 /\ records[r] = 0
    BY <2>1, PhaseCases, MappedSame
  <2> QED BY <2>3, <2>4 DEF Honest, HonestAt
<1>2. TypeOK /\ Leases /\ Sendings /\ Answered /\ IdOnlyWhenAccepted /\ HeldReported
        /\ Honest /\ [Next]_vars => Honest'
  BY PromiseStep, HonestStep
<1>3. Honest => RestIsHonest
  <2> SUFFICES ASSUME Honest, NEW r \in Replies
               PROVE  /\ records[r] # 0 => records[r] = tries[r] /\ <<r, tries[r]>> \in sent
                      /\ phases[r] \in {"WAITING", "FAILED"} /\ records[r] = 0
                           => <<r, tries[r]>> \notin UnderWay \union sent
                      /\ phases[r] = "IN_DOUBT" => <<r, tries[r]>> \notin UnderWay
                      /\ phases[r] \in {"DELIVERED", "READ", "FAILED"} /\ records[r] # 0
                           => [message |-> <<r, tries[r]>>, status |-> phases[r]] \in words
    BY DEF RestIsHonest, Promise!RestIsHonest, Promise!Newest, phases, tries, records, words
  <2> QED BY DEF Honest, HonestAt
<1> QED BY <1>1, <1>2, <1>3, PromiseBasis, PTL DEF Spec
=============================================================================

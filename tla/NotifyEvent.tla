----------------------------- MODULE NotifyEvent -----------------------------
(***************************************************************************)
(* The notify-event function: staff ask it to notify, it answers 200 once    *)
(* every channel had its turn.  An approval goes through one outbox row per  *)
(* application and channel (claimed by compare and set, leased, completed,   *)
(* failed or quarantined); any other event is sent without a row.  Each      *)
(* stage of a worker is one await of the handler.  Failed calls, lost        *)
(* provider answers, crashes and edits of an application are capped by       *)
(* MaxFaults.                                                                *)
(***************************************************************************)
EXTENDS Integers, Sequences, FiniteSets

CONSTANTS Applications,   \* b2b_applications rows
          Reach,          \* the usable contact channels of each application
          Traffic,        \* what callers may post: one set of requests per behaviour
          Directory,      \* the channels each audience is reached by
          Workers,        \* concurrent invocations
          MaxAttempts,    \* bound: outbox max_attempts
          MaxFaults       \* bound: failed calls, lost answers, crashes, edits

Channels == {"email", "whatsapp"}
Labels == {"direct", "buyer", "sales_exec", "admin"}
RequestType ==
  [caller: {"anonymous", "service", "staff", "outsider", "unverifiable"},
   event: {"none", "approval_granted", "other"}, app: Applications,
   fields: BOOLEAN,            \* carries fields only the server may choose
   text: BOOLEAN,              \* subject and message are both given
   direct: SUBSET Channels, company: BOOLEAN, audiences: SUBSET Labels]

NotifyAssumption ==
  /\ Reach \in [Applications -> SUBSET Channels]
  /\ Traffic \subseteq SUBSET RequestType
  /\ Directory \in [Labels -> SUBSET Channels]
  /\ Applications \cap Labels = {} /\ "nobody" \notin Workers
  /\ MaxAttempts \in Nat \ {0} /\ MaxFaults \in Nat

VARIABLES posted, application, outbox, worker, delivered, unsure, deadLetters, faults

vars == <<posted, application, outbox, worker, delivered, unsure, deadLetters, faults>>

Keys == Applications \X Channels
Targets == Keys \cup (Labels \X Channels)
Contents == 1..2     \* the message made from a version of the application
NoRow == [status |-> "none"]
RowStatus == {"pending", "processing", "sent", "retry", "failed", "quarantined"}
Row == [status: RowStatus, content: Contents, attempt: 0..MaxAttempts,
        due: BOOLEAN, stale: BOOLEAN, owner: Workers \cup {"nobody"}]
Idle == [stage |-> "idle"]
Providers == {"resend", "click2api", "msg91"}
\* What a provider accepted: for which target, on which attempt, through whom.
Delivery == [target: Targets, content: 0..2, attempt: 0..MaxAttempts,
             provider: Providers]
Stages == {"read", "select", "insert", "claim", "send", "complete", "quarantine",
           "fail", "lookup", "audit"}
Working == [stage: Stages, request: RequestType, todo: Seq(Targets), first: {"select", "send"},
            content: 0..2, provider: Providers \cup {"none"}, seen: Row \cup {NoRow},
            attempt: 0..MaxAttempts, results: SUBSET (Targets \X BOOLEAN)]

TypeOK ==
  /\ application \in [Applications -> [status: {"pending", "approved"}, content: Contents]]
  /\ posted \in Traffic /\ outbox \in [Keys -> Row \cup {NoRow}]
  /\ \A k \in Keys : outbox[k] # NoRow =>
       (outbox[k].status = "processing") = (outbox[k].owner # "nobody")
  /\ worker \in [Workers -> Working \cup {Idle}]
  /\ delivered \subseteq Delivery
  /\ unsure \subseteq Keys /\ deadLetters \subseteq Keys
  /\ faults \in 0..MaxFaults

Init ==
  /\ application = [a \in Applications |-> [status |-> "pending", content |-> 1]]
  /\ posted \in Traffic /\ outbox = [k \in Keys |-> NoRow]
  /\ worker = [w \in Workers |-> Idle]
  /\ delivered = {} /\ unsure = {} /\ deadLetters = {} /\ faults = 0

-----------------------------------------------------------------------------
(* What the code decides from a request or a row alone.                      *)

\* requireInternalStaff, then the fields: 200 lets the request through.
GateStatus(r) ==
  CASE r.caller = "anonymous" -> 401
    [] r.caller = "unverifiable" -> 500
    [] r.caller = "outsider" -> 403
    [] r.event = "none" -> 400
    [] r.event = "approval_granted" /\ r.fields -> 400
    [] r.event = "other" /\ ~r.text -> 400
    [] OTHER -> 200

\* Email first, then WhatsApp, of the channels in S.
InOrder(S) ==
  (IF "email" \in S THEN <<"email">> ELSE <<>>)
    \o (IF "whatsapp" \in S THEN <<"whatsapp">> ELSE <<>>)
FirstProvider(channel) == IF channel = "email" THEN "resend" ELSE "click2api"
TargetsOf(label, S) == [i \in 1..Len(InOrder(S)) |-> <<label, InOrder(S)[i]>>]

\* resolveGenericRecipients; a lookup that fails yields no recipient.
Recipients(r, companyRead, adminsRead) ==
  LET Asked(label) == label \in r.audiences
      Of(label, wanted) == IF wanted THEN TargetsOf(label, Directory[label]) ELSE <<>>
  IN  TargetsOf("direct", r.direct)
      \o Of("buyer", Asked("buyer") /\ r.company /\ companyRead)
      \o Of("sales_exec", Asked("sales_exec") /\ r.company /\ companyRead)
      \o Of("admin", Asked("admin") /\ adminsRead)

Claimable(row) ==
  \/ row.status \in {"pending", "failed"}
  \/ row.status = "retry" /\ row.due
  \/ row.status = "processing" /\ row.stale
Attemptable(row) == row.attempt < MaxAttempts

-----------------------------------------------------------------------------
(* Control of one worker.                                                    *)

At(w, stage) == worker[w].stage = stage
Target(w) == worker[w].todo[1]
Goto(w, stage) == worker' = [worker EXCEPT ![w].stage = stage]
End(w) == worker' = [worker EXCEPT ![w] = Idle]
Fault == faults < MaxFaults /\ faults' = faults + 1
Works == UNCHANGED faults
Outside == UNCHANGED <<posted, application, delivered, unsure, deadLetters>>

\* A channel had its turn; the last one leads to the audit row.
NextTurn(w, ok) ==
  LET rest == Tail(worker[w].todo)
  IN  worker' = [worker EXCEPT ![w].todo = rest,
                               ![w].results = @ \cup {<<Target(w), ok>>},
                               ![w].stage = IF rest = <<>> THEN "audit"
                                            ELSE worker[w].first,
                               ![w].provider = IF rest = <<>> THEN "none"
                                               ELSE FirstProvider(rest[1][2])]
\* The row as read decides: skip, give up, or claim it as it was read.
Judge(w, row) ==
  IF row.content # worker[w].content THEN End(w)
  ELSE IF row.status = "sent" THEN NextTurn(w, TRUE)
  ELSE IF ~Attemptable(row) \/ ~Claimable(row) THEN NextTurn(w, FALSE)
  ELSE worker' = [worker EXCEPT ![w].stage = "claim", ![w].seen = row]

\* `first' is the stage a channel's turn begins with.
Begin(w, r, todo, first, stage) ==
  worker' = [worker EXCEPT ![w] =
    [stage |-> stage, request |-> r, todo |-> todo, first |-> first, content |-> 0,
     provider |-> IF todo = <<>> THEN "none" ELSE FirstProvider(todo[1][2]),
     seen |-> NoRow, attempt |-> 0, results |-> {}]]
Accept(w, r) ==
  /\ At(w, "idle") /\ GateStatus(r) = 200 /\ Works
  /\ IF r.event = "approval_granted"
     THEN LET channels == InOrder(Reach[r.app])
          IN  Begin(w, r, [i \in 1..Len(channels) |-> <<r.app, channels[i]>>],
                    "select", "read")
     ELSE Begin(w, r, <<>>, "send", "lookup")
  /\ Outside /\ UNCHANGED outbox

\* buildApprovalNotification: of the approved application as it reads now.
ReadApplication(w) ==
  LET a == worker[w].request.app
  IN  /\ At(w, "read")
      /\ \/ /\ application[a].status = "approved" /\ worker[w].todo # <<>> /\ Works
            /\ worker' = [worker EXCEPT ![w].stage = "select",
                                        ![w].content = application[a].content]
         \/ /\ application[a].status # "approved" \/ worker[w].todo = <<>>
            /\ Works /\ End(w)
         \/ Fault /\ End(w)
      /\ Outside /\ UNCHANGED outbox

\* A row that cannot be read counts as missing.
SelectRow(w) ==
  LET row == outbox[Target(w)]
  IN  /\ At(w, "select")
      /\ \/ row # NoRow /\ Works /\ Judge(w, row)
         \/ row = NoRow /\ Works /\ Goto(w, "insert")
         \/ row # NoRow /\ Fault /\ Goto(w, "insert")
      /\ Outside /\ UNCHANGED outbox

\* The unique key refuses a second insert; the row then found is judged.
NewRow(w) == [status |-> "pending", content |-> worker[w].content, attempt |-> 0,
              due |-> TRUE, stale |-> FALSE, owner |-> "nobody"]
InsertRow(w) ==
  LET k == Target(w)
  IN  /\ At(w, "insert")
      /\ \/ /\ outbox[k] = NoRow /\ Works
            /\ outbox' = [outbox EXCEPT ![k] = NewRow(w)] /\ Judge(w, NewRow(w))
         \/ outbox[k] # NoRow /\ Works /\ Judge(w, outbox[k]) /\ UNCHANGED outbox
         \/ Fault /\ End(w) /\ UNCHANGED outbox
      /\ Outside

\* The claim is a compare and set on the row as it was read.
Unmoved(row, seen) ==
  row.status = seen.status /\ row.attempt = seen.attempt /\ row.owner = seen.owner
Claim(w) ==
  LET k == Target(w)
      seen == worker[w].seen
  IN  /\ At(w, "claim")
      /\ \/ /\ Unmoved(outbox[k], seen) /\ Works
            /\ outbox' = [outbox EXCEPT ![k].status = "processing", ![k].owner = w,
                                        ![k].stale = FALSE, ![k].attempt = seen.attempt + 1]
            /\ worker' = [worker EXCEPT ![w].stage = "send", ![w].attempt = seen.attempt + 1]
         \/ ~Unmoved(outbox[k], seen) /\ Works /\ NextTurn(w, FALSE) /\ UNCHANGED outbox
         \/ Fault /\ End(w) /\ UNCHANGED outbox
      /\ Outside

\* After the provider's word: the next provider, the row's transition, or the
\* next recipient of an event that has no row.
AfterSend(w, ok) ==
  IF ~ok /\ worker[w].provider = "click2api"
  THEN worker' = [worker EXCEPT ![w].provider = "msg91"]
  ELSE IF worker[w].first = "send" THEN NextTurn(w, ok)
  ELSE Goto(w, IF ok THEN "complete" ELSE "fail")
Accepted(w) == [target |-> Target(w), content |-> worker[w].content,
                attempt |-> worker[w].attempt, provider |-> worker[w].provider]
\* A timeout may hide an accepted message: it counts as a failure.
Send(w) ==
  /\ At(w, "send")
  /\ \/ /\ delivered' = delivered \cup {Accepted(w)}
        /\ AfterSend(w, TRUE) /\ Works /\ UNCHANGED unsure
     \/ AfterSend(w, FALSE) /\ Works /\ UNCHANGED <<delivered, unsure>>
     \/ /\ delivered' = delivered \cup {Accepted(w)}
        /\ unsure' = unsure \cup ({Target(w)} \cap Keys)
        /\ AfterSend(w, FALSE) /\ Fault
  /\ UNCHANGED <<posted, application, outbox, deadLetters>>

Holds(w) == LET row == outbox[Target(w)] IN row.status = "processing" /\ row.owner = w
(* Mutant: the lease is left on the row.                                     *)
Settled_Leased(k, status) == outbox' = [outbox EXCEPT ![k].status = status]

Settled(k, status) ==
  outbox' = [outbox EXCEPT ![k].status = status, ![k].owner = "nobody",
                           ![k].stale = FALSE, ![k].due = FALSE]
(* Mutant: a failed completion leaves the row to its lease.                  *)
AfterLostCompletion_Nothing(w) == NextTurn(w, FALSE)

AfterLostCompletion(w) == Goto(w, "quarantine")
\* complete_notification_v1: only the worker that holds the lease.
Complete(w) ==
  /\ At(w, "complete")
  /\ \/ Holds(w) /\ Settled(Target(w), "sent") /\ NextTurn(w, TRUE) /\ Works
     \/ ~Holds(w) /\ AfterLostCompletion(w) /\ UNCHANGED outbox /\ Works
     \/ Holds(w) /\ AfterLostCompletion(w) /\ UNCHANGED outbox /\ Fault
     \/ Holds(w) /\ Settled(Target(w), "sent") /\ AfterLostCompletion(w) /\ Fault
  /\ Outside

\* Its own failure is not looked at.
QuarantineRow(w) ==
  /\ At(w, "quarantine")
  /\ \/ /\ IF Holds(w) THEN Settled(Target(w), "quarantined") ELSE UNCHANGED outbox
        /\ Works /\ UNCHANGED unsure
     \/ UNCHANGED outbox /\ Fault /\ unsure' = unsure \cup {Target(w)}
  /\ NextTurn(w, FALSE)
  /\ UNCHANGED <<posted, application, delivered, deadLetters>>

(* Mutant: a failed delivery is given up one attempt late.                   *)
Exhausted_Late(row) == row.attempt > MaxAttempts

\* fail_notification_v1: retry in five minutes, or failed with a dead letter.
Exhausted(row) == row.attempt >= MaxAttempts
Fail(w) ==
  LET k == Target(w)
  IN  /\ At(w, "fail")
      /\ \/ /\ Holds(w) /\ Works
            /\ Settled(k, IF Exhausted(outbox[k]) THEN "failed" ELSE "retry")
            /\ deadLetters' = deadLetters \cup {x \in {k} : Exhausted(outbox[x])}
         \/ ((~Holds(w) /\ Works) \/ Fault) /\ UNCHANGED <<outbox, deadLetters>>
      /\ NextTurn(w, FALSE)
      /\ UNCHANGED <<posted, application, delivered, unsure>>

\* The generic event: recipients from the payload, the company and the staff list.
LookUp(w) ==
  /\ At(w, "lookup")
  /\ \E companyRead, adminsRead \in BOOLEAN :
       LET todo == Recipients(worker[w].request, companyRead, adminsRead)
       IN  /\ IF companyRead /\ adminsRead THEN Works ELSE Fault
           /\ Begin(w, worker[w].request, todo, "send",
                    IF todo = <<>> THEN "audit" ELSE "send")
  /\ Outside /\ UNCHANGED outbox

\* The audit row is best effort; the caller is answered either way.
Audit(w) ==
  /\ At(w, "audit") /\ Works /\ End(w) /\ Outside /\ UNCHANGED outbox

\* An invocation dies: what it sent may not be on record.
Sent(w) == worker[w].stage \in {"send", "complete", "quarantine", "fail"}
           /\ worker[w].first = "select"
Crash(w) ==
  /\ ~At(w, "idle") /\ Fault /\ End(w)
  /\ unsure' = IF Sent(w) THEN unsure \cup {Target(w)} ELSE unsure
  /\ UNCHANGED <<posted, application, outbox, delivered, deadLetters>>

-----------------------------------------------------------------------------
(* Time and the application's own life.                                      *)

\* Of a live sender it is a fault: the lease outlasts every provider timeout.
LeaseExpires(k) ==
  LET alive == \E w \in Workers : worker[w] # Idle /\ Sent(w) /\ Target(w) = k /\ Holds(w)
  IN  /\ outbox[k].status = "processing" /\ ~outbox[k].stale
      /\ outbox' = [outbox EXCEPT ![k].stale = TRUE]
      /\ IF alive THEN Fault /\ unsure' = unsure \cup {k} ELSE Works /\ UNCHANGED unsure
      /\ UNCHANGED <<posted, application, worker, delivered, deadLetters>>
RetryFallsDue(k) ==
  /\ outbox[k].status = "retry" /\ ~outbox[k].due /\ Works
  /\ outbox' = [outbox EXCEPT ![k].due = TRUE]
  /\ UNCHANGED <<posted, application, worker, delivered, unsure, deadLetters>>
Approve(a) ==
  /\ application[a].status = "pending" /\ Works
  /\ application' = [application EXCEPT ![a].status = "approved"]
  /\ UNCHANGED <<posted, outbox, worker, delivered, unsure, deadLetters>>
Edit(a) ==
  /\ application[a].content = 1 /\ Fault
  /\ application' = [application EXCEPT ![a].content = 2]
  /\ UNCHANGED <<posted, outbox, worker, delivered, unsure, deadLetters>>

Next ==
  \/ \E w \in Workers :
       \/ \E r \in posted : Accept(w, r)
       \/ ReadApplication(w) \/ SelectRow(w) \/ InsertRow(w) \/ Claim(w) \/ Send(w)
       \/ Complete(w) \/ QuarantineRow(w) \/ Fail(w) \/ LookUp(w) \/ Audit(w) \/ Crash(w)
  \/ \E k \in Keys : LeaseExpires(k) \/ RetryFallsDue(k)
  \/ \E a \in Applications : Approve(a) \/ Edit(a)
Spec == Init /\ [][Next]_vars

-----------------------------------------------------------------------------
(* Properties.                                                               *)

\* A customer is told once per channel, and what is told is the one text on record,
\* however often the application is edited and notified again.  A second message
\* needs one of the windows the code cannot close: a provider's answer lost, a
\* worker that died or outlived its lease in mid-delivery, a quarantine that
\* failed too.
ToldOnce ==
  \A k \in Keys :
    /\ \A d \in delivered : d.target = k => d.content = outbox[k].content
    /\ k \in unsure \/ \A d, e \in delivered : d.target = k /\ e.target = k => d = e

\* A result reported as sent was accepted by a provider, a row "sent" too.
ReportedWasSent ==
  /\ \A w \in Workers : worker[w] # Idle =>
       \A x \in worker[w].results : x[2] => \E d \in delivered : d.target = x[1]
  /\ \A k \in Keys : outbox[k].status = "sent" => \E d \in delivered : d.target = k

\* A notification no request will try again was sent, waits for a human or is
\* in the dead letters; only a worker that never reported its last attempt
\* leaves one behind.
GivenUpIsVisible ==
  \A k \in Keys : outbox[k] # NoRow /\ ~Attemptable(outbox[k]) =>
    \/ outbox[k].status \in {"sent", "quarantined", "processing"}
    \/ k \in deadLetters

\* Neither a success nor a final failure is only claimed.
OutcomesAreTrue == ReportedWasSent /\ GivenUpIsVisible
=============================================================================

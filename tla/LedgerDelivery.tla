----------------------------- MODULE LedgerDelivery ---------------------------
(***************************************************************************)
(* The account statements: generate-bi-monthly-ledger and                    *)
(* generate-rescue-ledger.  A run, started by the scheduler or by a finance  *)
(* operator, reads the companies once and then takes them one after the      *)
(* other: it makes the company's ledger for the period when there is none,   *)
(* claims its delivery in the database and sends it by WhatsApp.  Several    *)
(* runs may be at work; a run may stop anywhere.  The provider's answer is   *)
(* an acceptance, a rejection, a gateway's error (which may follow an        *)
(* acceptance) or none at all.                                               *)
(***************************************************************************)
EXTENDS Integers, FiniteSets

CONSTANTS Companies,    \* companies with credit terms
          Kinds,        \* subset of {"bi_monthly", "rescue"}, one period each
          Callers,      \* subset of {"cron", "operator", "other"}
          None, Runs,
          MaxFaults,    \* bound: failed calls, lost answers, stopped runs
          MaxGateway,   \* bound: gateway errors after the provider has accepted
          MaxPhones     \* bound: changes of a company's phone

Statuses == {"pending", "sending", "sent", "failed", "skipped"}
Row == [delivery: Statuses, disputed: BOOLEAN]

LedgerAssumption ==
  /\ Kinds \subseteq {"bi_monthly", "rescue"}
  /\ Callers \subseteq {"cron", "operator", "other"}
  /\ None \notin Companies /\ None \notin Row
  /\ MaxFaults \in Nat /\ MaxGateway \in Nat /\ MaxPhones \in Nat

VARIABLES ledger,      \* per company and kind: the row of bi_monthly_ledgers
          pdf,         \* documents in storage
          phone,       \* companies with a usable phone number
          accepted,    \* per company and kind: messages the provider accepted
          run, faults, gateway, phones

vars == <<ledger, pdf, phone, accepted, run, faults, gateway, phones>>

Keys == Companies \X Kinds
Idle == [stage |-> "idle"]
Stages == {"next", "look", "orders", "upload", "insert", "skip", "claim", "sign", "document",
           "text", "finalize", "fail"}

Working == [stage: Stages, kind: Kinds, todo: SUBSET Companies, called: SUBSET Companies,
            company: Companies \cup {None}]

TypeOK ==
  /\ ledger \in [Keys -> Row \cup {None}] /\ pdf \subseteq Keys /\ phone \subseteq Companies
  /\ accepted \in [Keys -> Nat] /\ run \in [Runs -> Working \cup {Idle}]
  /\ \A k \in Keys : ledger[k] # None => k \in pdf
  /\ \A r \in Runs : run[r] # Idle /\ run[r].stage # "next" => run[r].company # None
  /\ faults \in 0..MaxFaults /\ gateway \in 0..MaxGateway /\ phones \in 0..MaxPhones

Init ==
  /\ ledger = [k \in Keys |-> None] /\ pdf = {} /\ phone \in SUBSET Companies
  /\ accepted = [k \in Keys |-> 0] /\ run = [r \in Runs |-> Idle]
  /\ faults = 0 /\ gateway = 0 /\ phones = 0

-----------------------------------------------------------------------------
At(r, stage) == run[r].stage = stage
Key(r) == <<run[r].company, run[r].kind>>
Goto(r, stage) == run' = [run EXCEPT ![r].stage = stage]
NextCompany(r) == run' = [run EXCEPT ![r].stage = "next", ![r].company = None]
End(r) == run' = [run EXCEPT ![r] = Idle]
Fault == faults < MaxFaults /\ faults' = faults + 1
Works == UNCHANGED faults
Outside == <<phone, gateway, phones>>
Delivery(r, status) == ledger' = [ledger EXCEPT ![Key(r)].delivery = status]

\* The scheduler's secret, or a user with a finance role.
Authorised(caller) == caller \in {"cron", "operator"}

\* The companies and their phones are read once, all of them or a given one.
Start(r, caller, kind, todo) ==
  /\ At(r, "idle") /\ Authorised(caller) /\ Works
  /\ todo = Companies \/ Cardinality(todo) = 1
  /\ run' = [run EXCEPT ![r] = [stage |-> "next", kind |-> kind, todo |-> todo,
                                called |-> phone, company |-> None]]
  /\ UNCHANGED <<ledger, pdf, accepted, Outside>>

Take(r) ==
  /\ At(r, "next") /\ Works
  /\ \/ \E c \in run[r].todo :
          run' = [run EXCEPT ![r].stage = "look", ![r].company = c, ![r].todo = @ \ {c}]
     \/ run[r].todo = {} /\ End(r)
  /\ UNCHANGED <<ledger, pdf, accepted, Outside>>

\* deliverLedger: a company without a phone is skipped before the claim.
Deliver(r) == Goto(r, IF run[r].company \in run[r].called THEN "claim" ELSE "skip")

\* What has been sent or skipped is done, what is being sent is left to people.
Look(r) ==
  LET row == ledger[Key(r)]
  IN  /\ At(r, "look")
      /\ \/ row = None /\ Works /\ Goto(r, "orders")
         \/ row # None /\ Works
            /\ IF row.delivery \in {"pending", "failed"} THEN Deliver(r) ELSE NextCompany(r)
         \/ Fault /\ End(r)
      /\ UNCHANGED <<ledger, pdf, accepted, Outside>>
ReadOrders(r) ==
  /\ At(r, "orders")
  /\ \/ Works /\ Goto(r, "upload")
     \/ Fault /\ End(r)
  /\ UNCHANGED <<ledger, pdf, accepted, Outside>>
AfterUpload(r, stored) == IF stored THEN Goto(r, "insert") ELSE NextCompany(r)
Upload(r) ==
  /\ At(r, "upload")
  /\ \/ pdf' = pdf \cup {Key(r)} /\ Works /\ AfterUpload(r, TRUE)
     \/ Fault /\ UNCHANGED pdf /\ AfterUpload(r, FALSE)
  /\ UNCHANGED <<ledger, accepted, Outside>>

\* One row for a company, kind and period: who comes second goes on.
Insert(r) ==
  /\ At(r, "insert")
  /\ LET new == [ledger EXCEPT ![Key(r)] = [delivery |-> "pending", disputed |-> FALSE]]
     IN  \/ ledger[Key(r)] = None /\ Works /\ ledger' = new /\ Deliver(r)
         \/ ledger[Key(r)] # None /\ Works /\ NextCompany(r) /\ UNCHANGED ledger
         \/ /\ Fault /\ End(r)
            /\ UNCHANGED ledger \/ (ledger[Key(r)] = None /\ ledger' = new)
  /\ UNCHANGED <<pdf, accepted, Outside>>

\* The update is not conditional and its answer is not looked at.
Skip(r) ==
  /\ At(r, "skip") /\ NextCompany(r)
  /\ \/ Works /\ Delivery(r, "skipped")
     \/ Fault /\ UNCHANGED ledger
  /\ UNCHANGED <<pdf, accepted, Outside>>

(* Mutant: a delivery whose lease has run out is claimed again.              *)
Claimable_Stale(k) == ledger[k].delivery \in {"pending", "failed", "sending"}

\* claim_bi_monthly_ledger_delivery: never again once it is "sending".
Claimable(k) == ledger[k].delivery \in {"pending", "failed"}
Claim(r) ==
  /\ At(r, "claim")
  /\ \/ Claimable(Key(r)) /\ Works /\ Delivery(r, "sending") /\ Goto(r, "sign")
     \/ ~Claimable(Key(r)) /\ Works /\ NextCompany(r) /\ UNCHANGED ledger
     \/ /\ Fault /\ NextCompany(r)
        /\ UNCHANGED ledger \/ (Claimable(Key(r)) /\ Delivery(r, "sending"))
  /\ UNCHANGED <<pdf, accepted, Outside>>

\* Without a signed link the delivery has failed; that update is not looked at.
Sign(r) ==
  /\ At(r, "sign")
  /\ \/ Works /\ Goto(r, "document") /\ UNCHANGED ledger
     \/ Fault /\ NextCompany(r) /\ (Delivery(r, "failed") \/ UNCHANGED ledger)
  /\ UNCHANGED <<pdf, accepted, Outside>>

Accepted(r) == accepted' = [accepted EXCEPT ![Key(r)] = @ + 1]
\* Nobody knows whether it arrived: the row stays "sending".
AfterSilence(r, rejected) == NextCompany(r)

\* Both sends of sendWhatsAppPdf; every answer that is not a success, a gateway's
\* among them, counts as a definite rejection.
Send(r, stage, rejected) ==
  /\ At(r, stage)
  /\ \/ Works /\ Accepted(r) /\ Goto(r, "finalize") /\ UNCHANGED gateway
     \/ Works /\ Goto(r, rejected) /\ UNCHANGED <<accepted, gateway>>
     \/ Works /\ gateway < MaxGateway /\ gateway' = gateway + 1 /\ Accepted(r)
        /\ Goto(r, rejected)
     \/ Fault /\ AfterSilence(r, rejected) /\ UNCHANGED gateway
        /\ (Accepted(r) \/ UNCHANGED accepted)
  /\ UNCHANGED <<ledger, pdf, phone, phones>>
SendDocument(r) == Send(r, "document", "text")
SendText(r) == Send(r, "text", "fail")

\* A bi-monthly statement's status becomes "sent" too, whatever it was.
Sent(r) ==
  ledger' = [ledger EXCEPT ![Key(r)].delivery = "sent",
                           ![Key(r)].disputed = @ /\ run[r].kind = "rescue"]
Finalize(r) ==
  /\ At(r, "finalize") /\ NextCompany(r)
  /\ \/ Works /\ Sent(r)
     \/ Fault /\ UNCHANGED ledger
  /\ UNCHANGED <<pdf, accepted, Outside>>
Fail(r) ==
  /\ At(r, "fail") /\ NextCompany(r)
  /\ \/ Works /\ Delivery(r, "failed")
     \/ Fault /\ UNCHANGED ledger
  /\ UNCHANGED <<pdf, accepted, Outside>>

Stop(r) == ~At(r, "idle") /\ Fault /\ End(r) /\ UNCHANGED <<ledger, pdf, accepted, Outside>>

\* The customer's "request correction", as the webhook records it.
Dispute(k) ==
  /\ ledger[k] # None /\ Works /\ ledger' = [ledger EXCEPT ![k].disputed = TRUE]
  /\ UNCHANGED <<pdf, accepted, run, Outside>>
ChangePhone(c) ==
  /\ phones < MaxPhones /\ phones' = phones + 1 /\ Works
  /\ phone' = IF c \in phone THEN phone \ {c} ELSE phone \cup {c}
  /\ UNCHANGED <<ledger, pdf, accepted, run, gateway>>

Next ==
  \/ \E r \in Runs :
       \/ \E caller \in Callers, kind \in Kinds, todo \in SUBSET Companies :
            Start(r, caller, kind, todo)
       \/ Take(r) \/ Look(r) \/ ReadOrders(r) \/ Upload(r) \/ Insert(r) \/ Skip(r)
       \/ Claim(r) \/ Sign(r) \/ SendDocument(r) \/ SendText(r) \/ Finalize(r) \/ Fail(r)
       \/ Stop(r)
  \/ \E k \in Keys : Dispute(k)
  \/ \E c \in Companies : ChangePhone(c)
Spec == Init /\ [][Next]_vars

-----------------------------------------------------------------------------
(* Properties.                                                               *)

\* A statement reaches the customer at most once: runs that overlap, stop, or
\* lose the provider's answer never send a second one, as long as no gateway
\* reports an error for a message the provider has accepted.
DeliveredOnce == gateway = 0 => \A k \in Keys : accepted[k] <= 1

\* A row that says the statement was not delivered is right: what an operator
\* sends again by hand, or the next run by itself, has not arrived before, unless
\* a gateway erred or the company's phone was entered while a run was at work.
UndeliveredIsTrue ==
  gateway = 0 /\ phones = 0 =>
    \A k \in Keys : ledger[k] # None /\ ledger[k].delivery \in {"pending", "failed", "skipped"}
                      => accepted[k] = 0

\* A row that says "sent" is backed by an acceptance of the provider.
SentWasAccepted ==
  \A k \in Keys : ledger[k] # None /\ ledger[k].delivery = "sent" => accepted[k] > 0

\* Runs and operators decide by the ledger's word; it can be relied upon.
LedgerTellsTheTruth == DeliveredOnce /\ UndeliveredIsTrue /\ SentWasAccepted
=============================================================================

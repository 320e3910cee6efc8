---------------------------- MODULE WebhookIntake ----------------------------
(***************************************************************************)
(* The WhatsApp webhook: authentication of a provider request, the status   *)
(* batch it may carry, and the pipeline each of its inbound messages goes   *)
(* through, from the debounce buffer to the completion receipt.  Every      *)
(* stage of a handler is one await of handleWebhookRequest; the provider    *)
(* redelivers a request until it is answered 200, and may deliver it to two *)
(* workers at once.  A database call may fail and a worker may die at any   *)
(* stage; the failures of a behaviour are capped by MaxFaults.              *)
(***************************************************************************)
EXTENDS Integers, Sequences, FiniteSets

CONSTANTS Messages,   \* inbound provider messages
          Requests,   \* provider requests (webhook bodies)
          Workers,    \* concurrent invocations of the function
          Senders,    \* sender phone numbers
          Trait,      \* what the code reads of a message
          Payload,    \* what the code reads of a request
          Traffic,    \* the sets of requests the provider may send
          MaxFaults   \* bound: failed calls, crashes, repeats of an answered request

Cues == {"PURCHASE_ORDER_DOCUMENT", "INTERNAL_NOTE", "ORDER_CANCELLATION",
         "ORDER_MODIFICATION", "COMPLAINT", "PAYMENT_PROOF",
         "CLIENT_KYC_DOCUMENT", "SO_REFERENCE", "DISPATCH_FOLLOWUP",
         "PACKAGING_MATERIAL_REQUEST", "GENERAL_INQUIRY"}
Outcomes == {"SUCCEEDED", "UNSUPPORTED", "TIMED_OUT", "FAILED"}
Nobody == "nobody"
NotSent == 1    \* a request the provider does not send in this behaviour

\* identified: the provider gave an id; text: the body is not empty; words: an
\* order keyword occurs in it; cues: the classifier patterns that match.
TraitType == [identified: BOOLEAN, sender: Senders \cup {Nobody}, text: BOOLEAN,
              noise: BOOLEAN, outgoing: BOOLEAN, dispute: BOOLEAN,
              words: BOOLEAN, cues: SUBSET Cues,
              media: {"none", "one", "unsupported", "several"}]
PayloadType == [source: {"click2api", "meta"}, proof: {"none", "bad", "good", "unset"},
                json: BOOLEAN, malformed: BOOLEAN, statuses: BOOLEAN,
                messages: Seq(Messages)]

ASSUME WebhookAssumption ==
  /\ Trait \in [Messages -> TraitType]
  /\ DOMAIN Payload = Requests
  /\ \A r \in Requests : Payload[r] \in PayloadType
  /\ Traffic \subseteq SUBSET Requests
  /\ MaxFaults \in Nat

VARIABLES handler, answer, receipts, buffered, ingested, captured, contacts,
          owned, mediaEvent, stored, marked, audited, statusSaved, faults

done == <<buffered, ingested, captured, contacts, owned>>
kept == <<mediaEvent, stored, marked, receipts>>
vars == <<handler, answer, receipts, buffered, ingested, captured, contacts,
          owned, mediaEvent, stored, marked, audited, statusSaved, faults>>

\* A worker at none of the stages audit, statuses, start, buffer, ingest, capture,
\* dispute, contact, create, own, media, upload, event and receipt.
Idle == [stage |-> "idle"]

-----------------------------------------------------------------------------
(* The tables buffered and owned and the bucket stored: sets of rows, each   *)
(* under its key and about a message.                                        *)

HasRow(t, m) == \E row \in t : row.message = m
\* An insert is refused when its key is in use (23505, "already exists"), and the
\* code takes that for done: whatever row has the key stands for this message.
Insert(t, key, m) ==
  IF \E row \in t : row.key = key THEN t ELSE t \cup {[key |-> key, message |-> m]}

\* The key of a row is made from the provider's id; a row without one gets an id
\* from the database, and its null provider id conflicts with no other.
RowKey(t, m) == IF Trait[m].identified THEN <<m, 0>> ELSE <<m, Cardinality(t) + 1>>

(* Mutant: every object is named by its sender and the clock.                *)
ObjectNames_Clock(m) == {<<Trait[m].sender, reading>> : reading \in {1, 2}}

\* So is an object's name; without an id it is the sender's and the clock's, whose
\* readings at two uploads may be the same or not.
ObjectNames(m) ==
  IF Trait[m].identified THEN {<<m, 0>>}
  ELSE {<<Trait[m].sender, reading>> : reading \in {1, 2}}

Init ==
  /\ handler = [w \in Workers |-> Idle]
  /\ \E sent \in Traffic :
       answer = [r \in Requests |-> IF r \in sent THEN 0 ELSE NotSent]
  /\ receipts = {} /\ ingested = {} /\ captured = {} /\ marked = {}
  /\ contacts = {} /\ audited = {} /\ statusSaved = {}
  /\ buffered = {} /\ owned = {} /\ stored = {}
  /\ mediaEvent = [m \in Messages |-> "none"]
  /\ faults = 0

-----------------------------------------------------------------------------
(* What the code decides from the message and the request alone.            *)

\* "unset": the environment holds no secret to check the proof against.
VerifyChallengeToken(proof) ==
  CASE proof = "good" -> 200 [] proof = "unset" -> 500 [] OTHER -> 403
VerifyMetaSignature(proof) ==
  CASE proof = "good" -> 200 [] proof = "unset" -> 500 [] OTHER -> 401
BoundaryStatus(r) ==
  LET auth == IF Payload[r].source = "click2api"
              THEN VerifyChallengeToken(Payload[r].proof)
              ELSE VerifyMetaSignature(Payload[r].proof)
  IN  IF auth # 200 THEN auth ELSE IF Payload[r].json THEN 200 ELSE 400

\* What is taken up has a message - a body that carries none is its own - or it
\* is a batch of statuses.
ASSUME InboundAssumption ==
  \A r \in Requests : BoundaryStatus(r) = 200 /\ Len(Payload[r].messages) = 0 =>
    Payload[r].statuses

IntentOrder == <<"PURCHASE_ORDER_DOCUMENT", "INTERNAL_NOTE", "ORDER_CANCELLATION",
  "ORDER_MODIFICATION", "COMPLAINT", "PAYMENT_PROOF", "CLIENT_KYC_DOCUMENT",
  "SO_REFERENCE", "DISPATCH_FOLLOWUP", "PACKAGING_MATERIAL_REQUEST",
  "GENERAL_INQUIRY">>
ClassifyMessageIntent(m) ==
  IF Trait[m].cues = {} THEN "OTHER"
  ELSE LET first == CHOOSE i \in 1..Len(IntentOrder) :
                      /\ IntentOrder[i] \in Trait[m].cues
                      /\ \A j \in 1..(i - 1) : IntentOrder[j] \notin Trait[m].cues
       IN  IntentOrder[first]
HasOrderIntent(m) ==
  /\ Trait[m].words
  /\ ClassifyMessageIntent(m) \notin {"INTERNAL_NOTE", "PACKAGING_MATERIAL_REQUEST"}
Commercial(m) ==
  \/ HasOrderIntent(m)
  \/ ClassifyMessageIntent(m) \in {"PURCHASE_ORDER_DOCUMENT", "SO_REFERENCE"}
InternalNote(m) == ClassifyMessageIntent(m) = "INTERNAL_NOTE"
HasMedia(m) == Trait[m].media # "none"
Discarded(m) == Trait[m].noise \/ (~Trait[m].text /\ ~HasMedia(m))
Known(m) == Trait[m].sender # Nobody
Completed(m) == Trait[m].identified /\ m \in receipts
\* Messages the pipeline must own before the request may be acknowledged.
RequiresDurableOwnership(m) ==
  Known(m) /\ ~Discarded(m) /\ ~InternalNote(m) /\ ~Trait[m].outgoing

-----------------------------------------------------------------------------
(* Control of one handler.                                                   *)

At(w, stage) == handler[w].stage = stage
Current(w) == Payload[handler[w].req].messages[handler[w].i]
Goto(w, stage) ==
  handler' = [handler EXCEPT ![w].stage = stage] /\ UNCHANGED answer
\* The provider's own record of the request: a 200 stays one.
Respond(w, code) ==
  /\ answer' = [answer EXCEPT ![handler[w].req] = IF @ = 200 THEN 200 ELSE code]
  /\ handler' = [handler EXCEPT ![w] = Idle]
(* Mutant: the first message of the batch answers for all.                  *)
EndMessage_FirstOnly(w) == Respond(w, 200)

\* The message is answered 200: the loop goes on, or the request is answered.
EndMessage(w) ==
  IF handler[w].i < Len(Payload[handler[w].req].messages)
  THEN /\ handler' = [handler EXCEPT ![w].stage = "start", ![w].i = @ + 1,
                                     ![w].outcome = "none"]
       /\ UNCHANGED answer
  ELSE Respond(w, 200)
Fault == faults < MaxFaults /\ faults' = faults + 1
Works == UNCHANGED faults

FirstStage(r) ==
  IF Payload[r].malformed THEN "audit"
  ELSE IF Payload[r].statuses THEN "statuses" ELSE "start"

Deliver(w, r) ==
  /\ answer[r] # NotSent /\ At(w, "idle")
  /\ IF answer[r] = 200 THEN Fault ELSE Works
  /\ IF BoundaryStatus(r) # 200
     THEN /\ answer[r] # BoundaryStatus(r)
          /\ answer' = [answer EXCEPT ![r] = BoundaryStatus(r)]
          /\ UNCHANGED handler
     ELSE /\ handler' = [handler EXCEPT ![w] = [stage |-> FirstStage(r), req |-> r,
                                                i |-> 1, outcome |-> "none"]]
          /\ UNCHANGED answer
  /\ UNCHANGED <<done, kept, audited, statusSaved>>

\* Malformed status elements are acknowledged only once the audit row is stored.
Audit(w) ==
  /\ At(w, "audit")
  /\ \/ /\ audited' = audited \cup {handler[w].req}
        /\ Goto(w, IF Payload[handler[w].req].statuses THEN "statuses" ELSE "start")
        /\ Works
     \/ Fault /\ Respond(w, 503) /\ UNCHANGED audited
  /\ UNCHANGED <<done, kept, statusSaved>>

PersistStatuses(w) ==
  LET r == handler[w].req
  IN  /\ At(w, "statuses")
      /\ \/ /\ statusSaved' = statusSaved \cup {r}
            /\ IF Payload[r].messages = <<>> THEN Respond(w, 200) ELSE Goto(w, "start")
            /\ Works
         \/ Fault /\ Respond(w, 503) /\ UNCHANGED statusSaved
      /\ UNCHANGED <<done, kept, audited>>

\* Noise and empty bodies are discarded; a completed duplicate is acknowledged;
\* a receipt that cannot be read counts as missing.
Start(w) ==
  LET m == Current(w)
  IN  /\ At(w, "start")
      /\ \/ (Discarded(m) \/ Completed(m)) /\ Works /\ EndMessage(w)
         \/ ~Discarded(m) /\ ~Completed(m) /\ Works /\ Goto(w, "buffer")
         \/ ~Discarded(m) /\ Completed(m) /\ Fault /\ Goto(w, "buffer")
      /\ UNCHANGED <<done, kept, audited, statusSaved>>

\* An internal note leaves the pipeline after the fan-out.
EndFanOut(w, m) == IF InternalNote(m) THEN EndMessage(w) ELSE Goto(w, "dispute")

\* A call may fail before its insert or after it.
Buffer(w) ==
  LET m == Current(w)
      inserted == Insert(buffered, RowKey(buffered, m), m)
  IN  /\ At(w, "buffer")
      /\ \/ /\ buffered' = IF Known(m) THEN inserted ELSE buffered
            /\ IF Trait[m].identified THEN Goto(w, "ingest") ELSE EndFanOut(w, m)
            /\ Works
         \/ Known(m) /\ Fault /\ Respond(w, 503) /\ buffered' \in {buffered, inserted}
      /\ UNCHANGED <<ingested, captured, contacts, owned, kept, audited, statusSaved>>

\* fanOutToStudioInbox: the ingest is required of a commercial message only.
Ingest(w) ==
  LET m == Current(w)
  IN  /\ At(w, "ingest")
      /\ \/ /\ ingested' = ingested \cup {m}
            /\ IF Commercial(m) THEN Goto(w, "capture") ELSE EndFanOut(w, m)
            /\ Works
         \/ /\ Fault /\ UNCHANGED ingested
            /\ IF Commercial(m) THEN Respond(w, 500) ELSE EndFanOut(w, m)
      /\ UNCHANGED <<buffered, captured, contacts, owned, kept, audited, statusSaved>>

Capture(w) ==
  /\ At(w, "capture")
  /\ \/ captured' = captured \cup {Current(w)} /\ Goto(w, "dispute") /\ Works
     \/ Fault /\ Respond(w, 500) /\ UNCHANGED captured
  /\ UNCHANGED <<buffered, ingested, contacts, owned, kept, audited, statusSaved>>

\* Best effort: the sender's company is looked up by the sender's phone and its
\* latest ledger marked; the dispute row itself is refused by the database.
Dispute(w) ==
  LET m == Current(w)
  IN  /\ At(w, "dispute")
      /\ \/ /\ Trait[m].dispute /\ Known(m) /\ Works
            /\ contacts' = contacts \cup {Trait[m].sender}
            /\ marked' = marked \cup {m}
         \/ /\ Trait[m].dispute /\ Known(m) /\ Fault
            /\ contacts' \in {contacts, contacts \cup {Trait[m].sender}}
            /\ UNCHANGED marked
         \/ ~(Trait[m].dispute /\ Known(m)) /\ Works /\ UNCHANGED <<contacts, marked>>
      /\ IF Trait[m].outgoing \/ (~Known(m) /\ ~HasMedia(m)) THEN EndMessage(w)
         ELSE Goto(w, IF Known(m) THEN "contact" ELSE "media")
      /\ UNCHANGED <<buffered, ingested, captured, owned, mediaEvent, stored, receipts,
                     audited, statusSaved>>

(* Mutant: the contact is inserted without looking it up.                   *)
FindContact_Inserts(w) ==
  /\ At(w, "contact") /\ Works /\ Goto(w, "create")
  /\ UNCHANGED <<done, kept, audited, statusSaved>>

\* findOrCreateWhatsappContact: the row is looked up, then inserted.
FindContact(w) ==
  /\ At(w, "contact")
  /\ \/ Works /\ Goto(w, IF Trait[Current(w)].sender \in contacts THEN "own" ELSE "create")
     \/ Fault /\ Respond(w, 503)
  /\ UNCHANGED <<done, kept, audited, statusSaved>>

CreateContact(w) ==
  LET sender == Trait[Current(w)].sender
  IN  /\ At(w, "create")
      /\ \/ /\ sender \notin contacts /\ Works
            /\ contacts' = contacts \cup {sender} /\ Goto(w, "own")
         \/ sender \in contacts /\ Works /\ Respond(w, 503) /\ UNCHANGED contacts
         \/ sender \notin contacts /\ Fault /\ Respond(w, 503) /\ UNCHANGED contacts
      /\ UNCHANGED <<buffered, ingested, captured, owned, kept, audited, statusSaved>>

AfterOwn(m) == IF HasMedia(m) THEN "media" ELSE "receipt"
Own(w) ==
  LET m == Current(w)
      inserted == Insert(owned, RowKey(owned, m), m)
  IN  /\ At(w, "own")
      /\ \/ owned' = inserted /\ Goto(w, AfterOwn(m)) /\ Works
         \/ Fault /\ Respond(w, 503) /\ owned' \in {owned, inserted}
      /\ UNCHANGED <<buffered, ingested, captured, contacts, kept, audited, statusSaved>>

\* What the download, and the number of attachments, make of the media.
MediaOutcome(m, download) ==
  IF Trait[m].media \in {"unsupported", "several"} THEN "UNSUPPORTED" ELSE download
AfterMedia(m) == IF Trait[m].identified /\ Commercial(m) THEN "event" ELSE "receipt"
SetOutcome(w, stage, outcome) ==
  /\ handler' = [handler EXCEPT ![w].stage = stage, ![w].outcome = outcome]
  /\ UNCHANGED answer

Download(w) ==
  LET m == Current(w)
  IN  /\ At(w, "media")
      /\ \/ Trait[m].media # "unsupported" /\ SetOutcome(w, "upload", "none")
         \/ \E failure \in {"FAILED", "TIMED_OUT"} :
              SetOutcome(w, AfterMedia(m), MediaOutcome(m, failure))
      /\ Works
      /\ UNCHANGED <<done, kept, audited, statusSaved>>

Upload(w) ==
  LET m == Current(w)
  IN  /\ At(w, "upload")
      /\ \/ /\ \E name \in ObjectNames(m) : stored' = Insert(stored, name, m)
            /\ Works
            /\ SetOutcome(w, AfterMedia(m), MediaOutcome(m, "SUCCEEDED"))
         \/ /\ Fault
            /\ \E name \in ObjectNames(m) : stored' \in {stored, Insert(stored, name, m)}
            /\ SetOutcome(w, AfterMedia(m), MediaOutcome(m, "FAILED"))
      /\ UNCHANGED <<done, mediaEvent, marked, receipts, audited, statusSaved>>

\* complete_whatsapp_media_processing: evidence is required, and the first
\* terminal event of an evidence row owns the result.
Terminal(m, outcome) == IF mediaEvent[m] # "none" THEN mediaEvent[m] ELSE outcome
CompleteMedia(w) ==
  LET m == Current(w)
  IN  /\ At(w, "event")
      /\ \/ /\ m \in captured /\ Works /\ Goto(w, "receipt")
            /\ mediaEvent' = [mediaEvent EXCEPT ![m] = Terminal(m, handler[w].outcome)]
         \/ m \in captured /\ Fault /\ Respond(w, 500) /\ UNCHANGED mediaEvent
      /\ UNCHANGED <<done, stored, marked, receipts, audited, statusSaved>>

\* Best effort: a lost receipt costs one more replay.
RecordReceipt(w) ==
  LET m == Current(w)
  IN  /\ At(w, "receipt")
      /\ \/ Works /\ receipts' = receipts \cup {x \in {m} : Trait[x].identified}
         \/ Trait[m].identified /\ Fault /\ UNCHANGED receipts
      /\ EndMessage(w)
      /\ UNCHANGED <<done, mediaEvent, stored, marked, audited, statusSaved>>

\* The invocation dies: nothing is answered, the provider delivers again.
Crash(w) ==
  /\ ~At(w, "idle") /\ Fault
  /\ handler' = [handler EXCEPT ![w] = Idle]
  /\ UNCHANGED <<answer, done, kept, audited, statusSaved>>

Step(w) == \/ Audit(w) \/ PersistStatuses(w) \/ Start(w) \/ Buffer(w) \/ Ingest(w)
           \/ Capture(w) \/ Dispute(w) \/ FindContact(w) \/ CreateContact(w)
           \/ Own(w) \/ Download(w) \/ Upload(w) \/ CompleteMedia(w) \/ RecordReceipt(w)
Next == \E w \in Workers : Step(w) \/ Crash(w) \/ \E r \in Requests : Deliver(w, r)

\* The platform runs an invocation on; the provider repeats what is not answered 200.
Redelivery ==
  \E w \in Workers, r \in Requests :
    BoundaryStatus(r) = 200 /\ answer[r] # 200 /\ Deliver(w, r)
Fairness == WF_vars(Redelivery) /\ \A w \in Workers : WF_vars(Step(w))
Spec == Init /\ [][Next]_vars /\ Fairness

-----------------------------------------------------------------------------
(* Properties.                                                               *)

InRequest(m, r) == \E i \in 1..Len(Payload[r].messages) : Payload[r].messages[i] = m
Safe(m) == RequiresDurableOwnership(m) => HasRow(owned, m) /\ HasRow(buffered, m)

\* An identified message with commercial risk has its evidence captured, and when
\* it carried media, a terminal media event.
EvidenceKept(m) ==
  Trait[m].identified /\ Commercial(m) =>
    m \in captured /\ (HasMedia(m) => mediaEvent[m] \in Outcomes)

\* A 200 to the provider is final: everything the request carried - malformed
\* statuses, statuses, each message of the batch the system must own, and its
\* commercial evidence - was stored before, whatever failed, died or ran twice on
\* the way.  A completion receipt, which makes a replay skip every step, proves
\* the same of its message.
AcknowledgedIsDurable ==
  /\ \A r \in Requests : answer[r] = 200 =>
       /\ Payload[r].malformed => r \in audited
       /\ Payload[r].statuses => r \in statusSaved
       /\ \A m \in Messages : InRequest(m, r) =>
            Safe(m) /\ (RequiresDurableOwnership(m) => EvidenceKept(m))
  /\ \A m \in receipts :
       /\ Known(m) => Safe(m)
       /\ EvidenceKept(m) /\ (Commercial(m) => m \in ingested)

\* Redeliveries, replays after a crash or an insert whose answer was lost, and two
\* workers at once leave at most one buffer row, message row and stored object of
\* an identified message; and where a refused upload was taken for done and its
\* media is on record as read, the object that was already there is its own.
OneEffectPerMessage ==
  \A m \in Messages : Trait[m].identified =>
    /\ \A t \in {buffered, owned, stored} :
         \A x, y \in t : x.message = m /\ y.message = m => x = y
    /\ mediaEvent[m] = "SUCCEEDED" => HasRow(stored, m)

\* Every authentic request is in the end acknowledged.
RequestsAreAcknowledged ==
  <>(\A r \in Requests : BoundaryStatus(r) = 200 => answer[r] \in {NotSent, 200})
=============================================================================

------------------------ MODULE WebhookIntakeProofs ------------------------
(***************************************************************************)
(* Proofs about WebhookIntake for any messages, requests, concurrent       *)
(* workers and number of faults.                                           *)
(*                                                                         *)
(* What the pipeline stores is never taken back, so a fact about the rows  *)
(* of a message, once true, stays true whatever the other workers do.  The *)
(* inductive invariant says, for each worker, which of these facts its     *)
(* stage stands for: those of the messages of its request it has left      *)
(* behind, and those of the message it is at.                              *)
(***************************************************************************)
EXTENDS WebhookIntake, SequenceTheorems, TLAPS

OnMessage == {"start", "buffer", "ingest", "capture", "dispute", "contact", "create",
              "own", "media", "upload", "event", "receipt"}
Stages == OnMessage \cup {"audit", "statuses"}
Results == Outcomes \cup {"none"}
Handling == [stage : Stages, req : {r \in Requests : BoundaryStatus(r) = 200},
             i : Nat \ {0}, outcome : Results]

\* The stable key of an identified message.
KeyOf(m) == <<m, 0>>
\* No two rows of a table share a key, and the key made from a message's id is
\* that of its row and of no other.
Keyed(t) ==
  /\ \A x, y \in t : x.key = y.key => x = y
  /\ \A row \in t :
       /\ row.message \in Messages
       /\ \A m \in Messages : Trait[m].identified => (row.key = KeyOf(m) <=> row.message = m)
\* A row's key is told from those of other messages, whether it was generated or not.
OwnKeyed(t) == Keyed(t) /\ \A row \in t : row.key[1] = row.message

Rows ==
  /\ OwnKeyed(buffered) /\ OwnKeyed(owned) /\ Keyed(stored)
  /\ mediaEvent \in [Messages -> Results]
  /\ receipts \subseteq Messages /\ captured \subseteq Messages
  /\ ingested \subseteq Messages
Shape ==
  /\ handler \in [Workers -> Handling \cup {Idle}]
  /\ answer \in [Requests -> Nat]
  /\ Rows

-----------------------------------------------------------------------------
(* What is on record of a message and of a request.                         *)

\* The request of this message may be acknowledged.
Durable(m) == Safe(m) /\ (RequiresDurableOwnership(m) => EvidenceKept(m))
\* This message may have a receipt.
Proven(m) ==
  /\ Known(m) => Safe(m)
  /\ EvidenceKept(m) /\ (Commercial(m) => m \in ingested)
Settled(r) ==
  /\ Payload[r].malformed => r \in audited
  /\ Payload[r].statuses => r \in statusSaved
  /\ \A j \in 1..Len(Payload[r].messages) : Durable(Payload[r].messages[j])

\* The evidence a message with commercial risk leaves in the fan-out.
FannedOut(m) == Trait[m].identified /\ Commercial(m) => m \in ingested /\ m \in captured

\* What a stage stands for, of the message the worker is at.
Stands(stage, m, outcome) ==
  /\ stage \notin {"start", "buffer"} => (Known(m) => HasRow(buffered, m))
  /\ stage \in {"ingest", "capture"} => Trait[m].identified
  /\ stage = "capture" => m \in ingested
  /\ stage \notin {"start", "buffer", "ingest", "capture"} => FannedOut(m)
  /\ stage \in {"media", "upload", "event", "receipt"} => (Known(m) => HasRow(owned, m))
  /\ stage = "event" => outcome \in Outcomes /\ (outcome = "SUCCEEDED" => HasRow(stored, m))
  /\ stage = "receipt" =>
       (Trait[m].identified /\ Commercial(m) /\ HasMedia(m) => mediaEvent[m] \in Outcomes)

\* A worker's stage stands for what is on record.
Here(h) == Payload[h.req].messages[h.i]
Sound(h) ==
  /\ h.stage # "audit" => (Payload[h.req].malformed => h.req \in audited)
  /\ h.stage \notin OnMessage => h.i = 1
  /\ h.stage \in OnMessage =>
       /\ h.i <= Len(Payload[h.req].messages)
       /\ Payload[h.req].statuses => h.req \in statusSaved
       /\ \A j \in 1..(h.i - 1) : Durable(Payload[h.req].messages[j])
       /\ Stands(h.stage, Here(h), h.outcome)

\* Media on record as read is there to be read.
MediaIsOwn ==
  \A m \in Messages : Trait[m].identified /\ mediaEvent[m] = "SUCCEEDED" => HasRow(stored, m)

WebhookInv ==
  /\ Shape
  /\ \A w \in Workers : handler[w] # Idle => Sound(handler[w])
  /\ \A r \in Requests : answer[r] = 200 => Settled(r)
  /\ \A m \in receipts : Proven(m)
  /\ MediaIsOwn

-----------------------------------------------------------------------------
(* The rows only grow.                                                      *)

\* No row of a message or of a request is taken back.
Grows ==
  /\ buffered \subseteq buffered' /\ owned \subseteq owned' /\ stored \subseteq stored'
  /\ \A m \in Messages : mediaEvent[m] \in Outcomes => mediaEvent'[m] \in Outcomes
  /\ captured \subseteq captured' /\ ingested \subseteq ingested'
  /\ audited \subseteq audited' /\ statusSaved \subseteq statusSaved'

\* A row in a table stays in one that grows.
LEMMA RowStays ==
  ASSUME NEW t, NEW u, t \subseteq u, NEW m, HasRow(t, m)
  PROVE  HasRow(u, m)
  BY DEF HasRow

\* The messages of a request.
LEMMA MessageOf ==
  ASSUME NEW r \in Requests, NEW j \in 1..Len(Payload[r].messages)
  PROVE  Payload[r].messages[j] \in Messages
  BY WebhookAssumption DEF PayloadType

LEMMA LengthIsNat == ASSUME NEW r \in Requests PROVE Len(Payload[r].messages) \in Nat
  BY WebhookAssumption DEF PayloadType

LEMMA DurableGrows ==
  ASSUME Grows, NEW m \in Messages
  PROVE  (Durable(m) => Durable(m)') /\ (Proven(m) => Proven(m)')
         /\ (FannedOut(m) => FannedOut(m)')
  BY DEF Grows, Durable, Proven, FannedOut, Safe, EvidenceKept, HasRow

LEMMA SettledGrows ==
  ASSUME Grows, NEW r \in Requests, Settled(r)
  PROVE  Settled(r)'
  BY DurableGrows, MessageOf DEF Grows, Settled

\* A message a worker is at.
LEMMA HereIsMessage ==
  ASSUME NEW h \in Handling, h.stage \in OnMessage, Sound(h)
  PROVE  /\ h.i \in 1..Len(Payload[h.req].messages)
         /\ Here(h) \in Messages
  BY MessageOf, LengthIsNat DEF Handling, Sound, Here

LEMMA SoundGrows ==
  ASSUME Grows, NEW h \in Handling, Sound(h)
  PROVE  Sound(h)'
<1>1. h.req \in Requests /\ h.stage \in Stages /\ h.i \in Nat \ {0}
  BY DEF Handling
<1>2. CASE h.stage \notin OnMessage
  BY <1>1, <1>2 DEF Sound, Stages, OnMessage, Grows
<1>3. CASE h.stage \in OnMessage
  <2>1. Here(h) \in Messages /\ h.i <= Len(Payload[h.req].messages)
    BY <1>3, HereIsMessage DEF Sound
  <2>2. \A j \in 1..(h.i - 1) : Durable(Payload[h.req].messages[j])'
    <3> SUFFICES ASSUME NEW j \in 1..(h.i - 1)
                 PROVE  Durable(Payload[h.req].messages[j])'
      OBVIOUS
    <3>1. j \in 1..Len(Payload[h.req].messages)
      BY <1>1, <2>1, LengthIsNat
    <3>2. Payload[h.req].messages[j] \in Messages
      BY <1>1, <3>1, MessageOf
    <3>3. Durable(Payload[h.req].messages[j])
      BY <1>3 DEF Sound
    <3> QED BY <3>2, <3>3, DurableGrows
  <2>3. Stands(h.stage, Here(h), h.outcome)'
    BY <1>3, <2>1, DurableGrows DEF Sound, Stands, Grows, HasRow
  <2> QED BY <1>1, <1>3, <2>1, <2>2, <2>3 DEF Sound, Grows, OnMessage
<1> QED BY <1>2, <1>3

-----------------------------------------------------------------------------
(* The control of one worker.                                               *)

\* What a step of worker w does to the handlers and the answers: only its own
\* handler moves, to a stage that stands for no more than is on record, and a
\* request that becomes acknowledged is settled.
Advances(w) ==
  /\ handler' \in [Workers -> Handling \cup {Idle}]
  /\ answer' \in [Requests -> Nat]
  /\ \A v \in Workers : v # w => handler'[v] = handler[v]
  /\ handler'[w] # Idle => Sound(handler[w])'
  /\ \A r \in Requests : answer'[r] = 200 => answer[r] = 200 \/ Settled(r)'

\* A worker at a stage is handling a request.
LEMMA Handles ==
  ASSUME Shape, NEW w \in Workers, handler[w] # Idle \/ handler[w].stage # "idle"
  PROVE  handler[w] \in Handling
  BY DEF Shape, Idle

LEMMA MovedTo ==
  ASSUME Shape, NEW w \in Workers, NEW h \in Handling, Sound(h)',
         handler' = [handler EXCEPT ![w] = h], UNCHANGED answer
  PROVE  Advances(w)
  BY DEF Shape, Advances

\* The worker takes its message to a stage that stands for what is on record.
LEMMA GoesWith ==
  ASSUME Shape, NEW w \in Workers, NEW h \in Handling, handler[w] = h,
         h.stage \in OnMessage, Sound(h)', NEW s \in OnMessage, NEW o \in Results,
         SetOutcome(w, s, o), Stands(s, Here(h), o)'
  PROVE  Advances(w)
<1> DEFINE g == [h EXCEPT !.stage = s, !.outcome = o]
<1>1. handler' = [handler EXCEPT ![w] = g]
  BY DEF SetOutcome, Shape
<1>2. /\ g \in Handling
      /\ g.stage = s /\ g.outcome = o /\ g.req = h.req /\ g.i = h.i
  BY DEF Handling, Stages
<1> HIDE DEF g
<1>3. Here(g) = Here(h)
  BY <1>2 DEF Here
<1>4. Sound(g)'
  BY <1>2, <1>3 DEF Sound, OnMessage
<1> QED BY <1>1, <1>2, <1>4, MovedTo DEF SetOutcome

LEMMA GoesTo ==
  ASSUME Shape, NEW w \in Workers, NEW h \in Handling, handler[w] = h,
         h.stage \in OnMessage, Sound(h)', NEW s \in OnMessage,
         Goto(w, s), Stands(s, Here(h), h.outcome)'
  PROVE  Advances(w)
<1> DEFINE g == [h EXCEPT !.stage = s]
<1>1. handler' = [handler EXCEPT ![w] = g]
  BY DEF Goto, Shape
<1>2. /\ g \in Handling
      /\ g.stage = s /\ g.outcome = h.outcome /\ g.req = h.req /\ g.i = h.i
  BY DEF Handling, Stages
<1> HIDE DEF g
<1>3. Here(g) = Here(h)
  BY <1>2 DEF Here
<1>4. Sound(g)'
  BY <1>2, <1>3 DEF Sound, OnMessage
<1> QED BY <1>1, <1>2, <1>4, MovedTo DEF Goto

LEMMA Answers ==
  ASSUME Shape, NEW w \in Workers, NEW h \in Handling, handler[w] = h,
         NEW code \in Nat, Respond(w, code), code = 200 => Settled(h.req)'
  PROVE  Advances(w)
<1>1. h.req \in Requests
  BY DEF Handling
<1>2. /\ answer' = [answer EXCEPT ![h.req] = IF answer[h.req] = 200 THEN 200 ELSE code]
      /\ handler' = [handler EXCEPT ![w] = Idle]
  BY DEF Respond
<1> QED BY <1>1, <1>2 DEF Shape, Advances

\* The worker is done with a message it leaves durable.
LEMMA Ends ==
  ASSUME Shape, NEW w \in Workers, NEW h \in Handling, handler[w] = h,
         h.stage \in OnMessage, EndMessage(w), Sound(h)', Durable(Here(h))'
  PROVE  Advances(w)
<1>1. /\ h.req \in Requests /\ h.i \in Nat \ {0}
      /\ h.i <= Len(Payload[h.req].messages)
      /\ Payload[h.req].malformed => h.req \in audited'
      /\ Payload[h.req].statuses => h.req \in statusSaved'
      /\ \A j \in 1..(h.i - 1) : Durable(Payload[h.req].messages[j])'
  BY DEF Handling, Sound, OnMessage
<1>2. Len(Payload[h.req].messages) \in Nat
  BY <1>1, LengthIsNat
<1>3. \A j \in 1..h.i : Durable(Payload[h.req].messages[j])'
  <2> SUFFICES ASSUME NEW j \in 1..h.i PROVE Durable(Payload[h.req].messages[j])'
    OBVIOUS
  <2>1. CASE j = h.i
    BY <2>1 DEF Here
  <2>2. CASE j # h.i
    <3>1. j \in 1..(h.i - 1)
      BY <1>1, <2>2
    <3> QED BY <1>1, <3>1
  <2> QED BY <2>1, <2>2
<1>4. CASE h.i < Len(Payload[h.req].messages)
  <2> DEFINE g == [h EXCEPT !.stage = "start", !.i = h.i + 1, !.outcome = "none"]
  <2>1. handler' = [handler EXCEPT ![w] = g] /\ UNCHANGED answer
    BY <1>4 DEF EndMessage, Shape
  <2>0. /\ h.i + 1 \in Nat \ {0} /\ h.i + 1 <= Len(Payload[h.req].messages)
        /\ (h.i + 1) - 1 = h.i
    BY <1>1, <1>2, <1>4
  <2>2. g \in Handling
    <3>1. "start" \in Stages /\ "none" \in Results
      BY DEF Stages, OnMessage, Results
    <3> QED BY <2>0, <3>1 DEF Handling
  <2>3. g.stage = "start" /\ g.i = h.i + 1 /\ g.req = h.req
    BY DEF Handling
  <2> HIDE DEF g
  <2>4. g.i <= Len(Payload[g.req].messages) /\ g.i - 1 = h.i
    BY <2>0, <2>3
  <2>5. Sound(g)'
    BY <1>1, <1>3, <2>3, <2>4 DEF Sound, Stands, OnMessage
  <2> QED BY <2>1, <2>2, <2>5, MovedTo
<1>5. CASE ~(h.i < Len(Payload[h.req].messages))
  <2>1. h.i = Len(Payload[h.req].messages) /\ Respond(w, 200)
    BY <1>1, <1>2, <1>5 DEF EndMessage
  <2>2. Settled(h.req)'
    BY <1>1, <1>3, <2>1 DEF Settled
  <2> QED BY <2>1, <2>2, Answers
<1> QED BY <1>4, <1>5

-----------------------------------------------------------------------------
(* The steps of one worker.                                                 *)

\* What every step of worker w keeps.
Keeps(w) ==
  /\ Advances(w) /\ Grows /\ Rows'
  /\ \A m \in receipts' : m \in receipts \/ Proven(m)'
  /\ MediaIsOwn'

LEMMA RowsUnchanged ==
  ASSUME WebhookInv, UNCHANGED <<done, kept>>,
         audited \subseteq audited', statusSaved \subseteq statusSaved'
  PROVE  Grows /\ Rows' /\ MediaIsOwn' /\ (receipts' = receipts)
  BY DEF WebhookInv, Shape, Rows, Grows, MediaIsOwn, done, kept

\* What the invariant says of a worker at a stage, before and, as long as rows only
\* grow, after a step.
LEMMA Handled ==
  ASSUME WebhookInv, NEW w \in Workers, handler[w].stage # "idle"
  PROVE  /\ Shape /\ handler[w] \in Handling /\ Sound(handler[w])
         /\ handler[w].stage \in OnMessage =>
              Current(w) = Here(handler[w]) /\ Current(w) \in Messages
<1>1. Shape /\ handler[w] \in Handling /\ handler[w] # Idle
  BY Handles DEF WebhookInv, Idle
<1>2. Sound(handler[w])
  BY <1>1 DEF WebhookInv
<1>3. Current(w) = Here(handler[w])
  BY DEF Current, Here
<1> QED BY <1>1, <1>2, <1>3, HereIsMessage

LEMMA StepKeeps ==
  ASSUME WebhookInv, NEW w \in Workers, Keeps(w)
  PROVE  WebhookInv'
<1> USE DEF WebhookInv, Keeps
<1>1. Shape'
  BY DEF Shape, Advances
<1>2. ASSUME NEW v \in Workers, handler'[v] # Idle PROVE Sound(handler[v])'
  <2>1. CASE v = w
    BY <1>2, <2>1 DEF Advances
  <2>2. CASE v # w
    <3> DEFINE h == handler[v]
    <3>1. handler'[v] = h /\ h # Idle
      BY <1>2, <2>2 DEF Advances
    <3>2. h \in Handling /\ Sound(h)
      BY <3>1, Handles
    <3>3. PICK g \in Handling : g = h
      BY <3>2
    <3>4. Sound(g)'
      BY <3>2, <3>3, SoundGrows
    <3>5. handler'[v] = g
      BY <3>1, <3>3
    <3> QED BY <3>4, <3>5
  <2> QED BY <2>1, <2>2
<1>3. ASSUME NEW r \in Requests, answer'[r] = 200 PROVE Settled(r)'
  BY <1>3, SettledGrows DEF Advances
<1>4. ASSUME NEW m \in receipts' PROVE Proven(m)'
  <2>1. m \in Messages
    BY <1>1 DEF Shape, Rows
  <2> QED BY <1>4, <2>1, DurableGrows
<1> QED BY <1>1, <1>2, <1>3, <1>4

LEMMA KeepsDeliver ==
  ASSUME WebhookInv, NEW w \in Workers, NEW r \in Requests, Deliver(w, r)
  PROVE  Keeps(w)
<1>1. handler[w] = Idle /\ Shape
  BY DEF WebhookInv, Shape, Deliver, At, Handling, Stages, OnMessage
<1>2. Grows /\ Rows' /\ MediaIsOwn' /\ receipts' = receipts
  BY RowsUnchanged DEF Deliver
<1>3. Advances(w)
  <2>1. CASE BoundaryStatus(r) # 200
    <3>1. BoundaryStatus(r) \in Nat
      BY DEF BoundaryStatus, VerifyChallengeToken, VerifyMetaSignature
    <3>2. answer' = [answer EXCEPT ![r] = BoundaryStatus(r)] /\ UNCHANGED handler
      BY <2>1 DEF Deliver
    <3> QED BY <1>1, <2>1, <3>1, <3>2 DEF Shape, Advances
  <2>2. CASE BoundaryStatus(r) = 200
    <3> DEFINE h == [stage |-> FirstStage(r), req |-> r, i |-> 1, outcome |-> "none"]
    <3>1. handler' = [handler EXCEPT ![w] = h] /\ UNCHANGED answer
      BY <2>2 DEF Deliver
    <3>2. FirstStage(r) \in Stages /\ "none" \in Results
      BY DEF FirstStage, Stages, OnMessage, Results
    <3>3. h \in Handling
      BY <2>2, <3>2 DEF Handling
    <3>4. h.stage = FirstStage(r) /\ h.req = r /\ h.i = 1
      OBVIOUS
    <3>5. Payload[r].malformed \in BOOLEAN /\ Payload[r].statuses \in BOOLEAN
          /\ Len(Payload[r].messages) \in Nat
      BY WebhookAssumption DEF PayloadType
    <3> HIDE DEF h
    <3>6. Sound(h)'
      <4>1. CASE Payload[r].malformed
        BY <3>4, <4>1 DEF FirstStage, Sound, OnMessage
      <4>2. CASE ~Payload[r].malformed /\ Payload[r].statuses
        BY <3>4, <4>2 DEF FirstStage, Sound, OnMessage
      <4>3. CASE ~Payload[r].malformed /\ ~Payload[r].statuses
        <5>1. Len(Payload[r].messages) # 0
          BY <2>2, <4>3, InboundAssumption
        <5>2. h.stage = "start"
          BY <3>4, <4>3 DEF FirstStage
        <5> QED BY <3>3, <3>4, <3>5, <4>3, <5>1, <5>2
                DEF Sound, Stands, OnMessage
      <4> QED BY <4>1, <4>2, <4>3
    <3> QED BY <1>1, <3>1, <3>3, <3>6, MovedTo
  <2> QED BY <2>1, <2>2
<1> QED BY <1>2, <1>3 DEF Keeps

\* Audit and statuses: on the way to the first message of the request.
LEMMA KeepsAudit ==
  ASSUME WebhookInv, NEW w \in Workers, Audit(w)
  PROVE  Keeps(w)
<1>1. handler[w].stage = "audit"
  BY DEF Audit, At
<1>2. PICK h \in Handling : handler[w] = h /\ Sound(h) /\ Shape
  BY <1>1, Handled
<1>3. Grows /\ Rows' /\ MediaIsOwn' /\ receipts' = receipts
  BY RowsUnchanged DEF Audit
<1>4. h.i = 1 /\ h.req \in Requests /\ BoundaryStatus(h.req) = 200
  BY <1>1, <1>2 DEF Sound, OnMessage, Handling
<1>5. CASE Respond(w, 503)
  BY <1>2, <1>3, <1>5, Answers DEF Keeps
<1>6. CASE audited' = audited \cup {h.req}
           /\ Goto(w, IF Payload[h.req].statuses THEN "statuses" ELSE "start")
  <2> DEFINE s == IF Payload[h.req].statuses THEN "statuses" ELSE "start"
             g == [h EXCEPT !.stage = s]
  <2>1. handler' = [handler EXCEPT ![w] = g] /\ UNCHANGED answer
    BY <1>2, <1>6 DEF Goto, Shape
  <2>2. /\ g \in Handling
        /\ g.stage = s /\ g.req = h.req /\ g.i = 1
    BY <1>4 DEF Handling, Stages, OnMessage
  <2>3. CASE Payload[h.req].statuses
    <3>1. g.stage = "statuses"
      BY <2>2, <2>3
    <3> HIDE DEF g
    <3>2. Sound(g)'
      BY <1>6, <2>2, <3>1 DEF Sound, OnMessage
    <3> QED BY <1>2, <1>3, <2>1, <2>2, <3>2, MovedTo DEF Keeps
  <2>4. CASE ~Payload[h.req].statuses
    <3>1. g.stage = "start" /\ Len(Payload[h.req].messages) # 0
      BY <1>4, <2>2, <2>4, InboundAssumption
    <3>2. Len(Payload[h.req].messages) \in Nat
      BY <1>4, LengthIsNat
    <3> HIDE DEF g
    <3>3. Sound(g)'
      BY <1>6, <2>2, <2>4, <3>1, <3>2 DEF Sound, Stands, OnMessage
    <3> QED BY <1>2, <1>3, <2>1, <2>2, <3>3, MovedTo DEF Keeps
  <2> QED BY <2>3, <2>4
<1> QED BY <1>2, <1>5, <1>6 DEF Audit

LEMMA KeepsPersistStatuses ==
  ASSUME WebhookInv, NEW w \in Workers, PersistStatuses(w)
  PROVE  Keeps(w)
<1>1. handler[w].stage = "statuses"
  BY DEF PersistStatuses, At
<1>2. PICK h \in Handling : handler[w] = h /\ Sound(h) /\ Shape
  BY <1>1, Handled
<1>3. Grows /\ Rows' /\ MediaIsOwn' /\ receipts' = receipts
  BY RowsUnchanged DEF PersistStatuses
<1>4. /\ h.i = 1 /\ h.req \in Requests
      /\ Payload[h.req].malformed => h.req \in audited'
  BY <1>1, <1>2, <1>3 DEF Sound, OnMessage, Handling, Grows
<1>5. CASE Respond(w, 503)
  BY <1>2, <1>3, <1>5, Answers DEF Keeps
<1>6. CASE statusSaved' = statusSaved \cup {h.req} /\ Payload[h.req].messages = <<>>
           /\ Respond(w, 200)
  <2>1. Settled(h.req)'
    BY <1>4, <1>6 DEF Settled
  <2> QED BY <1>2, <1>3, <1>6, <2>1, Answers DEF Keeps
<1>7. CASE statusSaved' = statusSaved \cup {h.req} /\ Payload[h.req].messages # <<>>
           /\ Goto(w, "start")
  <2> DEFINE g == [h EXCEPT !.stage = "start"]
  <2>1. handler' = [handler EXCEPT ![w] = g] /\ UNCHANGED answer
    BY <1>2, <1>7 DEF Goto, Shape
  <2>2. /\ g \in Handling
        /\ g.stage = "start" /\ g.req = h.req /\ g.i = 1
    BY <1>4 DEF Handling, Stages, OnMessage
  <2>3. Len(Payload[h.req].messages) # 0 /\ Len(Payload[h.req].messages) \in Nat
    <3>1. Payload[h.req].messages \in Seq(Messages)
      BY <1>4, WebhookAssumption DEF PayloadType
    <3> QED BY <1>7, <3>1, EmptySeq
  <2> HIDE DEF g
  <2>4. Sound(g)'
    BY <1>4, <1>7, <2>2, <2>3 DEF Sound, Stands, OnMessage
  <2> QED BY <1>2, <1>3, <2>1, <2>2, <2>4, MovedTo DEF Keeps
<1> QED BY <1>2, <1>5, <1>6, <1>7 DEF PersistStatuses

-----------------------------------------------------------------------------
(* The steps of the loop over the messages.                                 *)

\* What is known of a worker at a message, before and after a step that takes
\* nothing back.
LEMMA AtMessage ==
  ASSUME WebhookInv, NEW w \in Workers, handler[w].stage \in OnMessage, Grows
  PROVE  \E h \in Handling :
           /\ handler[w] = h /\ Shape /\ h.stage \in OnMessage
           /\ Current(w) = Here(h) /\ Here(h) \in Messages
           /\ Sound(h)'
           /\ Stands(h.stage, Here(h), h.outcome)
           /\ Stands(h.stage, Here(h), h.outcome)'
<1>1. handler[w].stage # "idle"
  BY DEF OnMessage
<1>2. PICK h \in Handling : handler[w] = h /\ Sound(h) /\ Shape /\ h.stage \in OnMessage
           /\ Current(w) = Here(h) /\ Here(h) \in Messages
  BY <1>1, Handled
<1>3. Sound(h)'
  BY <1>2, SoundGrows
<1>4. Stands(h.stage, Here(h), h.outcome) /\ Stands(h.stage, Here(h), h.outcome)'
  BY <1>2, <1>3 DEF Sound
<1> QED BY <1>2, <1>3, <1>4

\* An insert under a key that fits the message keeps a table keyed, and takes no
\* row back; of an identified message there is a row afterwards.
LEMMA InsertKeyed ==
  ASSUME NEW t, Keyed(t), NEW m \in Messages, NEW key,
         \A x \in Messages : Trait[x].identified => (key = KeyOf(x) <=> x = m)
  PROVE  /\ Keyed(Insert(t, key, m)) /\ t \subseteq Insert(t, key, m)
         /\ Trait[m].identified => HasRow(Insert(t, key, m), m)
<1>1. CASE \E row \in t : row.key = key
  <2>1. Insert(t, key, m) = t
    BY <1>1 DEF Insert
  <2>2. Trait[m].identified => HasRow(t, m)
    BY <1>1 DEF Keyed, HasRow
  <2> QED BY <2>1, <2>2
<1>2. CASE \A row \in t : row.key # key
  <2> DEFINE new == [key |-> key, message |-> m]
  <2>1. Insert(t, key, m) = t \cup {new}
    BY <1>2 DEF Insert
  <2>2. new.key = key /\ new.message = m
    OBVIOUS
  <2> HIDE DEF new
  <2>3. Keyed(t \cup {new})
    BY <1>2, <2>2 DEF Keyed
  <2>4. HasRow(t \cup {new}, m)
    BY <2>2 DEF HasRow
  <2> QED BY <2>1, <2>3, <2>4
<1> QED BY <1>1, <1>2

\* The key of a buffer or message row fits its message.
LEMMA RowKeyFits ==
  ASSUME NEW t, NEW m \in Messages
  PROVE  /\ RowKey(t, m)[1] = m
         /\ \A x \in Messages : Trait[x].identified => (RowKey(t, m) = KeyOf(x) <=> x = m)
  BY DEF RowKey, KeyOf

\* The name of an object fits its message.
LEMMA ObjectNameFits ==
  ASSUME NEW m \in Messages, NEW name \in ObjectNames(m), NEW x \in Messages,
         Trait[x].identified
  PROVE  name = KeyOf(x) <=> x = m
  BY DEF ObjectNames, KeyOf

\* An insert into the buffer or the messages leaves a row of the message.
LEMMA InsertOwnKeyed ==
  ASSUME NEW t, OwnKeyed(t), NEW m \in Messages
  PROVE  LET u == Insert(t, RowKey(t, m), m)
         IN  OwnKeyed(u) /\ t \subseteq u /\ HasRow(u, m)
<1> DEFINE key == RowKey(t, m)
<1>1. key[1] = m /\ \A x \in Messages : Trait[x].identified => (key = KeyOf(x) <=> x = m)
  BY RowKeyFits
<1> HIDE DEF key
<1>2. Keyed(Insert(t, key, m)) /\ t \subseteq Insert(t, key, m)
  BY <1>1, InsertKeyed DEF OwnKeyed
<1>3. \A row \in Insert(t, key, m) : row \in t \/ (row.key = key /\ row.message = m)
  BY DEF Insert
<1>4. OwnKeyed(Insert(t, key, m))
  BY <1>1, <1>2, <1>3 DEF OwnKeyed
<1>5. HasRow(Insert(t, key, m), m)
  <2>1. CASE \E row \in t : row.key = key
    BY <1>1, <1>2, <2>1 DEF OwnKeyed, HasRow
  <2>2. CASE \A row \in t : row.key # key
    <3>1. [key |-> key, message |-> m] \in Insert(t, key, m)
      BY <2>2 DEF Insert
    <3> QED BY <3>1 DEF HasRow
  <2> QED BY <2>1, <2>2
<1> QED BY <1>2, <1>4, <1>5 DEF key

\* A message nothing need be owned of leaves the request durable.
LEMMA NothingOwed ==
  ASSUME NEW m \in Messages, ~RequiresDurableOwnership(m)
  PROVE  Durable(m)'
  BY DEF Durable, Safe

LEMMA ProvenIsDurable ==
  ASSUME NEW m \in Messages, Proven(m)
  PROVE  Durable(m)
  BY DEF Durable, Proven, Safe, RequiresDurableOwnership

LEMMA KeepsStart ==
  ASSUME WebhookInv, NEW w \in Workers, Start(w)
  PROVE  Keeps(w)
<1>1. Grows /\ Rows' /\ MediaIsOwn' /\ receipts' = receipts
  BY RowsUnchanged DEF Start
<1>2. handler[w].stage = "start" /\ handler[w].stage \in OnMessage
  BY DEF Start, At, OnMessage
<1>3. PICK h \in Handling :
           /\ handler[w] = h /\ Shape /\ h.stage \in OnMessage
           /\ Current(w) = Here(h) /\ Here(h) \in Messages /\ Sound(h)'
  BY <1>1, <1>2, AtMessage
<1> DEFINE m == Here(h)
<1>4. CASE (Discarded(m) \/ Completed(m)) /\ EndMessage(w)
  <2>3. Durable(m)'
    <3>1. CASE Discarded(m)
      BY <1>3, <3>1, NothingOwed DEF RequiresDurableOwnership
    <3>2. CASE Completed(m)
      <4>1. Proven(m)
        BY <3>2 DEF WebhookInv, Completed
      <4> QED BY <1>1, <1>3, <4>1, ProvenIsDurable, DurableGrows
    <3> QED BY <1>4, <3>1, <3>2
  <2> QED BY <1>1, <1>3, <1>4, <2>3, Ends DEF Keeps
<1>5. CASE Goto(w, "buffer")
  <2>1. "buffer" \in OnMessage
    BY DEF OnMessage
  <2>2. Stands("buffer", m, h.outcome)'
    BY DEF Stands
  <2>3. Advances(w)
    BY <1>3, <1>5, <2>1, <2>2, GoesTo
  <2> QED BY <1>1, <2>3 DEF Keeps
<1> QED BY <1>3, <1>4, <1>5 DEF Start

\* The end of the fan-out: an internal note is owed nothing.
LEMMA FanOutEnds ==
  ASSUME Shape, NEW w \in Workers, NEW h \in Handling, handler[w] = h,
         h.stage \in OnMessage, Sound(h)', Here(h) \in Messages, EndFanOut(w, Here(h)),
         Known(Here(h)) => HasRow(buffered', Here(h)), FannedOut(Here(h))'
  PROVE  Advances(w)
<1>1. CASE InternalNote(Here(h)) /\ EndMessage(w)
  <2>1. Durable(Here(h))'
    BY <1>1, NothingOwed DEF RequiresDurableOwnership
  <2> QED BY <1>1, <2>1, Ends
<1>2. CASE Goto(w, "dispute")
  <2>1. "dispute" \in OnMessage /\ Stands("dispute", Here(h), h.outcome)'
    BY DEF OnMessage, Stands
  <2> QED BY <1>2, <2>1, GoesTo
<1> QED BY <1>1, <1>2 DEF EndFanOut

LEMMA KeepsBuffer ==
  ASSUME WebhookInv, NEW w \in Workers, Buffer(w)
  PROVE  Keeps(w)
<1>0. handler[w].stage = "buffer" /\ handler[w].stage \in OnMessage
  BY DEF Buffer, At, OnMessage
<1>1. PICK m \in Messages : m = Current(w) /\ Rows
  BY <1>0, Handled DEF Shape, OnMessage
<1>2. Grows /\ Rows' /\ MediaIsOwn' /\ receipts' = receipts
  <2>1. /\ UNCHANGED <<ingested, captured, owned, mediaEvent, stored, receipts,
                       audited, statusSaved>>
        /\ buffered' \in {buffered, Insert(buffered, RowKey(buffered, m), m)}
    BY <1>1 DEF Buffer, kept
  <2>2. OwnKeyed(buffered)' /\ buffered \subseteq buffered'
    BY <1>1, <2>1, InsertOwnKeyed DEF Rows
  <2> QED BY <1>1, <2>1, <2>2 DEF Rows, Grows, MediaIsOwn, WebhookInv
<1>3. PICK h \in Handling :
           /\ handler[w] = h /\ Shape /\ h.stage \in OnMessage
           /\ m = Here(h) /\ Sound(h)'
  BY <1>0, <1>1, <1>2, AtMessage
<1>4. CASE Respond(w, 503)
  BY <1>2, <1>3, <1>4, Answers DEF Keeps
<1>5. CASE /\ Known(m) => buffered' = Insert(buffered, RowKey(buffered, m), m)
           /\ IF Trait[m].identified THEN Goto(w, "ingest") ELSE EndFanOut(w, m)
  <2>1. Known(m) => HasRow(buffered', m)
    BY <1>1, <1>5, InsertOwnKeyed DEF Rows
  <2>2. CASE Trait[m].identified
    <3>1. "ingest" \in OnMessage /\ Stands("ingest", m, h.outcome)'
      BY <2>1, <2>2 DEF OnMessage, Stands
    <3>2. Advances(w)
      BY <1>3, <1>5, <2>2, <3>1, GoesTo
    <3> QED BY <1>2, <3>2 DEF Keeps
  <2>3. CASE ~Trait[m].identified
    <3>1. FannedOut(m)'
      BY <2>3 DEF FannedOut
    <3>2. Advances(w)
      BY <1>1, <1>3, <1>5, <2>1, <2>3, <3>1, FanOutEnds
    <3> QED BY <1>2, <3>2 DEF Keeps
  <2> QED BY <2>2, <2>3
<1> QED BY <1>1, <1>4, <1>5 DEF Buffer

LEMMA KeepsIngest ==
  ASSUME WebhookInv, NEW w \in Workers, Ingest(w)
  PROVE  Keeps(w)
<1>0. handler[w].stage = "ingest" /\ handler[w].stage \in OnMessage
  BY DEF Ingest, At, OnMessage
<1>1. PICK m \in Messages : m = Current(w) /\ Rows
  BY <1>0, Handled DEF Shape, OnMessage
<1>2. Grows /\ Rows' /\ MediaIsOwn' /\ receipts' = receipts
      /\ UNCHANGED captured
  <2>1. /\ UNCHANGED <<buffered, captured, owned, mediaEvent, stored, receipts,
                       audited, statusSaved>>
        /\ ingested' = ingested \/ ingested' = ingested \cup {m}
    BY <1>1 DEF Ingest, kept
  <2> QED BY <1>1, <2>1 DEF Rows, Grows, MediaIsOwn, WebhookInv
<1>3. PICK h \in Handling :
           /\ handler[w] = h /\ Shape /\ h.stage \in OnMessage
           /\ m = Here(h) /\ Sound(h)' /\ Stands("ingest", m, h.outcome)
           /\ Stands("ingest", m, h.outcome)'
  BY <1>0, <1>1, <1>2, AtMessage
<1>4. CASE Respond(w, 500)
  BY <1>2, <1>3, <1>4, Answers DEF Keeps
<1>5. CASE Commercial(m) /\ ingested' = ingested \cup {m} /\ Goto(w, "capture")
  <2>1. "capture" \in OnMessage /\ Stands("capture", m, h.outcome)'
    BY <1>3, <1>5 DEF OnMessage, Stands
  <2>2. Advances(w)
    BY <1>3, <1>5, <2>1, GoesTo
  <2> QED BY <1>2, <2>2 DEF Keeps
<1>6. CASE ~Commercial(m) /\ EndFanOut(w, m)
  <2>1. FannedOut(m)' /\ (Known(m) => HasRow(buffered', m))
    BY <1>3, <1>6 DEF FannedOut, Stands
  <2>2. Advances(w)
    BY <1>3, <1>6, <2>1, FanOutEnds
  <2> QED BY <1>2, <2>2 DEF Keeps
<1> QED BY <1>1, <1>4, <1>5, <1>6 DEF Ingest

LEMMA KeepsCapture ==
  ASSUME WebhookInv, NEW w \in Workers, Capture(w)
  PROVE  Keeps(w)
<1>0. handler[w].stage = "capture" /\ handler[w].stage \in OnMessage
  BY DEF Capture, At, OnMessage
<1>1. PICK m \in Messages : m = Current(w) /\ Rows
  BY <1>0, Handled DEF Shape, OnMessage
<1>2. Grows /\ Rows' /\ MediaIsOwn' /\ receipts' = receipts
  <2>1. /\ UNCHANGED <<buffered, ingested, owned, mediaEvent, stored, receipts,
                       audited, statusSaved>>
        /\ captured' = captured \/ captured' = captured \cup {m}
    BY <1>1 DEF Capture, kept
  <2> QED BY <1>1, <2>1 DEF Rows, Grows, MediaIsOwn, WebhookInv
<1>3. PICK h \in Handling :
           /\ handler[w] = h /\ Shape /\ h.stage \in OnMessage
           /\ m = Here(h) /\ Sound(h)' /\ Stands("capture", m, h.outcome)
           /\ Stands("capture", m, h.outcome)'
  BY <1>0, <1>1, <1>2, AtMessage
<1>4. CASE Respond(w, 500)
  BY <1>2, <1>3, <1>4, Answers DEF Keeps
<1>5. CASE captured' = captured \cup {m} /\ Goto(w, "dispute")
  <2>1. "dispute" \in OnMessage /\ Stands("dispute", m, h.outcome)'
    BY <1>3, <1>5 DEF OnMessage, Stands, FannedOut
  <2>2. Advances(w)
    BY <1>3, <1>5, <2>1, GoesTo
  <2> QED BY <1>2, <2>2 DEF Keeps
<1> QED BY <1>1, <1>4, <1>5 DEF Capture

LEMMA KeepsDispute ==
  ASSUME WebhookInv, NEW w \in Workers, Dispute(w)
  PROVE  Keeps(w)
<1>0. handler[w].stage = "dispute" /\ handler[w].stage \in OnMessage
  BY DEF Dispute, At, OnMessage
<1>1. PICK m \in Messages : m = Current(w) /\ Rows
  BY <1>0, Handled DEF Shape, OnMessage
<1>2. Grows /\ Rows' /\ MediaIsOwn' /\ receipts' = receipts
  <2>1. UNCHANGED <<buffered, ingested, captured, owned, mediaEvent, stored, receipts,
                    audited, statusSaved>>
    BY DEF Dispute
  <2> QED BY <1>1, <2>1 DEF Rows, Grows, MediaIsOwn, WebhookInv
<1>3. PICK h \in Handling :
           /\ handler[w] = h /\ Shape /\ h.stage \in OnMessage
           /\ m = Here(h) /\ Sound(h)' /\ Stands("dispute", m, h.outcome)
           /\ Stands("dispute", m, h.outcome)'
  BY <1>0, <1>1, <1>2, AtMessage
<1>4. CASE (Trait[m].outgoing \/ (~Known(m) /\ ~HasMedia(m))) /\ EndMessage(w)
  <2>1. Durable(m)'
    BY <1>4, NothingOwed DEF RequiresDurableOwnership
  <2> QED BY <1>2, <1>3, <1>4, <2>1, Ends DEF Keeps
<1>5. CASE Known(m) /\ Goto(w, "contact")
  <2>1. "contact" \in OnMessage /\ Stands("contact", m, h.outcome)'
    BY <1>3 DEF OnMessage, Stands
  <2>2. Advances(w)
    BY <1>3, <1>5, <2>1, GoesTo
  <2> QED BY <1>2, <2>2 DEF Keeps
<1>6. CASE ~Known(m) /\ Goto(w, "media")
  <2>1. "media" \in OnMessage /\ Stands("media", m, h.outcome)'
    BY <1>3, <1>6 DEF OnMessage, Stands
  <2>2. Advances(w)
    BY <1>3, <1>6, <2>1, GoesTo
  <2> QED BY <1>2, <2>2 DEF Keeps
<1> QED BY <1>1, <1>4, <1>5, <1>6 DEF Dispute

LEMMA KeepsFindContact ==
  ASSUME WebhookInv, NEW w \in Workers, FindContact(w)
  PROVE  Keeps(w)
<1>0. handler[w].stage = "contact" /\ handler[w].stage \in OnMessage
  BY DEF FindContact, At, OnMessage
<1>1. PICK m \in Messages : m = Current(w) /\ Rows
  BY <1>0, Handled DEF Shape, OnMessage
<1>2. Grows /\ Rows' /\ MediaIsOwn' /\ receipts' = receipts
  BY RowsUnchanged DEF FindContact
<1>3. PICK h \in Handling :
           /\ handler[w] = h /\ Shape /\ h.stage \in OnMessage
           /\ m = Here(h) /\ Sound(h)' /\ Stands("contact", m, h.outcome)
           /\ Stands("contact", m, h.outcome)'
  BY <1>0, <1>1, <1>2, AtMessage
<1>4. CASE Respond(w, 503)
  BY <1>2, <1>3, <1>4, Answers DEF Keeps
<1>5. ASSUME NEW s \in {"own", "create"}, Goto(w, s) PROVE Keeps(w)
  <2>1. s \in OnMessage /\ Stands(s, m, h.outcome)'
    BY <1>3 DEF OnMessage, Stands
  <2>2. Advances(w)
    BY <1>3, <1>5, <2>1, GoesTo
  <2> QED BY <1>2, <2>2 DEF Keeps
<1> QED BY <1>4, <1>5 DEF FindContact

LEMMA KeepsCreateContact ==
  ASSUME WebhookInv, NEW w \in Workers, CreateContact(w)
  PROVE  Keeps(w)
<1>0. handler[w].stage = "create" /\ handler[w].stage \in OnMessage
  BY DEF CreateContact, At, OnMessage
<1>1. PICK m \in Messages : m = Current(w) /\ Rows
  BY <1>0, Handled DEF Shape, OnMessage
<1>2. Grows /\ Rows' /\ MediaIsOwn' /\ receipts' = receipts
  <2>1. UNCHANGED <<buffered, ingested, captured, owned, mediaEvent, stored, receipts,
                    audited, statusSaved>>
    BY DEF CreateContact, kept
  <2> QED BY <1>1, <2>1 DEF Rows, Grows, MediaIsOwn, WebhookInv
<1>3. PICK h \in Handling :
           /\ handler[w] = h /\ Shape /\ h.stage \in OnMessage
           /\ m = Here(h) /\ Sound(h)' /\ Stands("create", m, h.outcome)
           /\ Stands("create", m, h.outcome)'
  BY <1>0, <1>1, <1>2, AtMessage
<1>4. CASE Respond(w, 503)
  BY <1>2, <1>3, <1>4, Answers DEF Keeps
<1>5. CASE Goto(w, "own")
  <2>1. "own" \in OnMessage /\ Stands("own", m, h.outcome)'
    BY <1>3 DEF OnMessage, Stands
  <2>2. Advances(w)
    BY <1>3, <1>5, <2>1, GoesTo
  <2> QED BY <1>2, <2>2 DEF Keeps
<1> QED BY <1>4, <1>5 DEF CreateContact

LEMMA KeepsOwn ==
  ASSUME WebhookInv, NEW w \in Workers, Own(w)
  PROVE  Keeps(w)
<1>0. handler[w].stage = "own" /\ handler[w].stage \in OnMessage
  BY DEF Own, At, OnMessage
<1>1. PICK m \in Messages : m = Current(w) /\ Rows
  BY <1>0, Handled DEF Shape, OnMessage
<1>2. Grows /\ Rows' /\ MediaIsOwn' /\ receipts' = receipts
  <2>1. /\ UNCHANGED <<buffered, ingested, captured, mediaEvent, stored, receipts,
                       audited, statusSaved>>
        /\ owned' \in {owned, Insert(owned, RowKey(owned, m), m)}
    BY <1>1 DEF Own, kept
  <2>2. OwnKeyed(owned)' /\ owned \subseteq owned'
    BY <1>1, <2>1, InsertOwnKeyed DEF Rows
  <2> QED BY <1>1, <2>1, <2>2 DEF Rows, Grows, MediaIsOwn, WebhookInv
<1>3. PICK h \in Handling :
           /\ handler[w] = h /\ Shape /\ h.stage \in OnMessage
           /\ m = Here(h) /\ Sound(h)' /\ Stands("own", m, h.outcome)
           /\ Stands("own", m, h.outcome)'
  BY <1>0, <1>1, <1>2, AtMessage
<1>4. CASE Respond(w, 503)
  BY <1>2, <1>3, <1>4, Answers DEF Keeps
<1>5. CASE owned' = Insert(owned, RowKey(owned, m), m) /\ Goto(w, AfterOwn(m))
  <2>1. HasRow(owned', m)
    BY <1>1, <1>5, InsertOwnKeyed DEF Rows
  <2>2. AfterOwn(m) \in {"media", "receipt"} /\ (AfterOwn(m) = "receipt" => ~HasMedia(m))
    BY DEF AfterOwn
  <2>3. AfterOwn(m) \in OnMessage /\ Stands(AfterOwn(m), m, h.outcome)'
    BY <1>3, <2>1, <2>2 DEF OnMessage, Stands
  <2>4. Advances(w)
    BY <1>3, <1>5, <2>3, GoesTo
  <2> QED BY <1>2, <2>4 DEF Keeps
<1> QED BY <1>1, <1>4, <1>5 DEF Own

\* After the media: the terminal event of a message with commercial risk, or the receipt.
LEMMA MediaEnds ==
  ASSUME Shape, NEW w \in Workers, NEW h \in Handling, handler[w] = h,
         h.stage \in OnMessage, Sound(h)',
         Stands("media", Here(h), "none")', NEW o \in Outcomes,
         Trait[Here(h)].identified /\ o = "SUCCEEDED" => HasRow(stored', Here(h)),
         SetOutcome(w, AfterMedia(Here(h)), o)
  PROVE  Advances(w)
<1> DEFINE s == AfterMedia(Here(h))
<1>1. /\ s \in {"event", "receipt"} /\ s \in OnMessage
      /\ s = "receipt" => ~(Trait[Here(h)].identified /\ Commercial(Here(h)))
      /\ s = "event" => Trait[Here(h)].identified
      /\ o \in Results
  BY DEF AfterMedia, OnMessage, Results
<1> HIDE DEF s
<1>2. Stands(s, Here(h), o)'
  BY <1>1 DEF Stands
<1> QED BY <1>1, <1>2, GoesWith DEF s

LEMMA KeepsDownload ==
  ASSUME WebhookInv, NEW w \in Workers, Download(w)
  PROVE  Keeps(w)
<1>0. handler[w].stage = "media" /\ handler[w].stage \in OnMessage
  BY DEF Download, At, OnMessage
<1>1. PICK m \in Messages : m = Current(w) /\ Rows
  BY <1>0, Handled DEF Shape, OnMessage
<1>2. Grows /\ Rows' /\ MediaIsOwn' /\ receipts' = receipts
  BY RowsUnchanged DEF Download
<1>3. PICK h \in Handling :
           /\ handler[w] = h /\ Shape /\ h.stage \in OnMessage
           /\ m = Here(h) /\ Sound(h)' /\ Stands("media", m, h.outcome)
           /\ Stands("media", m, h.outcome)'
  BY <1>0, <1>1, <1>2, AtMessage
<1>4. CASE SetOutcome(w, "upload", "none")
  <2>1. "upload" \in OnMessage /\ "none" \in Results /\ Stands("upload", m, "none")'
    BY <1>3 DEF OnMessage, Results, Stands
  <2>2. Advances(w)
    BY <1>3, <1>4, <2>1, GoesWith
  <2> QED BY <1>2, <2>2 DEF Keeps
<1>5. ASSUME NEW failure \in {"FAILED", "TIMED_OUT"},
             SetOutcome(w, AfterMedia(m), MediaOutcome(m, failure))
      PROVE  Keeps(w)
  <2>1. /\ MediaOutcome(m, failure) \in Outcomes /\ MediaOutcome(m, failure) # "SUCCEEDED"
        /\ Stands("media", m, "none")'
    BY <1>3 DEF MediaOutcome, Outcomes, Stands
  <2>2. Advances(w)
    BY <1>3, <1>5, <2>1, MediaEnds
  <2> QED BY <1>2, <2>2 DEF Keeps
<1> QED BY <1>1, <1>4, <1>5 DEF Download

LEMMA KeepsUpload ==
  ASSUME WebhookInv, NEW w \in Workers, Upload(w)
  PROVE  Keeps(w)
<1>0. handler[w].stage = "upload" /\ handler[w].stage \in OnMessage
  BY DEF Upload, At, OnMessage
<1>1. PICK m \in Messages : m = Current(w) /\ Rows
  BY <1>0, Handled DEF Shape, OnMessage
<1>2. Grows /\ Rows' /\ MediaIsOwn' /\ receipts' = receipts
  <2>1. /\ UNCHANGED <<buffered, ingested, captured, owned, mediaEvent, receipts,
                       audited, statusSaved>>
        /\ \E name \in ObjectNames(m) : stored' \in {stored, Insert(stored, name, m)}
    BY <1>1 DEF Upload, done
  <2>2. Keyed(stored)' /\ stored \subseteq stored'
    BY <1>1, <2>1, InsertKeyed, ObjectNameFits DEF Rows
  <2>3. Rows' /\ Grows
    BY <1>1, <2>1, <2>2 DEF Rows, Grows
  <2>4. MediaIsOwn'
    BY <2>1, <2>2, RowStays DEF MediaIsOwn, WebhookInv
  <2> QED BY <2>1, <2>3, <2>4
<1>3. PICK h \in Handling :
           /\ handler[w] = h /\ Shape /\ h.stage \in OnMessage
           /\ m = Here(h) /\ Sound(h)' /\ Stands("upload", m, h.outcome)
           /\ Stands("upload", m, h.outcome)'
  BY <1>0, <1>1, <1>2, AtMessage
<1>4. ASSUME NEW download \in {"SUCCEEDED", "FAILED"},
             SetOutcome(w, AfterMedia(m), MediaOutcome(m, download)),
             Trait[m].identified /\ download = "SUCCEEDED" => HasRow(stored', m)
      PROVE  Keeps(w)
  <2>1. /\ MediaOutcome(m, download) \in Outcomes /\ Stands("media", m, "none")'
        /\ MediaOutcome(m, download) = "SUCCEEDED" => download = "SUCCEEDED"
    BY <1>3 DEF MediaOutcome, Outcomes, Stands
  <2>2. Advances(w)
    BY <1>3, <1>4, <2>1, MediaEnds
  <2> QED BY <1>2, <2>2 DEF Keeps
<1>5. CASE /\ \E name \in ObjectNames(m) : stored' = Insert(stored, name, m)
           /\ SetOutcome(w, AfterMedia(m), MediaOutcome(m, "SUCCEEDED"))
  <2>1. Trait[m].identified => HasRow(stored', m)
    BY <1>1, <1>5, InsertKeyed, ObjectNameFits DEF Rows
  <2> QED BY <1>4, <1>5, <2>1
<1> QED BY <1>1, <1>4, <1>5 DEF Upload

LEMMA KeepsCompleteMedia ==
  ASSUME WebhookInv, NEW w \in Workers, CompleteMedia(w)
  PROVE  Keeps(w)
<1>0. handler[w].stage = "event" /\ handler[w].stage \in OnMessage
  BY DEF CompleteMedia, At, OnMessage
<1>1. PICK m \in Messages : m = Current(w) /\ Rows
  BY <1>0, Handled DEF Shape, OnMessage
<1>2. Grows /\ Rows' /\ MediaIsOwn' /\ receipts' = receipts
  <2>1. /\ UNCHANGED <<buffered, ingested, captured, owned, stored, receipts,
                       audited, statusSaved>>
        /\ \/ mediaEvent' = mediaEvent
           \/ mediaEvent' = [mediaEvent EXCEPT ![m] = Terminal(m, handler[w].outcome)]
    BY <1>1 DEF CompleteMedia, done
  <2>2. /\ handler[w].outcome \in Results
        /\ mediaEvent[m] \in Results
    BY <1>0, <1>1, Handled DEF Handling, OnMessage, Rows
  <2>3. /\ Terminal(m, handler[w].outcome) \in Results
        /\ mediaEvent[m] \in Outcomes => Terminal(m, handler[w].outcome) \in Outcomes
    BY <2>2 DEF Terminal, Results, Outcomes
  <2>4. Rows' /\ Grows
    BY <1>1, <2>1, <2>3 DEF Rows, Grows
  <2>5. MediaIsOwn'
    <3>1. handler[w].outcome = "SUCCEEDED" => HasRow(stored, m)
      BY <1>0, <1>1, Handled DEF Sound, Stands
    <3>2. Terminal(m, handler[w].outcome) \in {mediaEvent[m], handler[w].outcome}
      BY DEF Terminal
    <3> QED BY <1>1, <2>1, <3>1, <3>2 DEF Rows, MediaIsOwn, WebhookInv
  <2> QED BY <2>1, <2>4, <2>5
<1>3. PICK h \in Handling :
           /\ handler[w] = h /\ Shape /\ h.stage \in OnMessage
           /\ m = Here(h) /\ Sound(h)' /\ Stands("event", m, h.outcome)
           /\ Stands("event", m, h.outcome)'
  BY <1>0, <1>1, <1>2, AtMessage
<1>4. CASE Respond(w, 500)
  BY <1>2, <1>3, <1>4, Answers DEF Keeps
<1>5. CASE /\ mediaEvent' = [mediaEvent EXCEPT ![m] = Terminal(m, handler[w].outcome)]
           /\ Goto(w, "receipt")
  <2>1. mediaEvent'[m] \in Outcomes
    <3>1. h.outcome \in Outcomes /\ mediaEvent[m] \in Results
      BY <1>1, <1>3 DEF Stands, Rows
    <3>2. mediaEvent'[m] = Terminal(m, h.outcome)
      BY <1>1, <1>3, <1>5 DEF Rows
    <3> QED BY <3>1, <3>2 DEF Terminal, Results
  <2>2. "receipt" \in OnMessage /\ Stands("receipt", m, h.outcome)'
    BY <1>3, <2>1 DEF OnMessage, Stands
  <2>3. Advances(w)
    BY <1>3, <1>5, <2>2, GoesTo
  <2> QED BY <1>2, <2>3 DEF Keeps
<1> QED BY <1>1, <1>4, <1>5 DEF CompleteMedia

\* The receipt: everything it stands for is on record.
LEMMA KeepsRecordReceipt ==
  ASSUME WebhookInv, NEW w \in Workers, RecordReceipt(w)
  PROVE  Keeps(w)
<1>0. handler[w].stage = "receipt" /\ handler[w].stage \in OnMessage
  BY DEF RecordReceipt, At, OnMessage
<1>1. PICK m \in Messages : m = Current(w) /\ Rows
  BY <1>0, Handled DEF Shape, OnMessage
<1>2. /\ Grows /\ Rows' /\ MediaIsOwn'
      /\ \A x \in receipts' : x \in receipts \/ (x = m /\ Trait[m].identified)
  <2>1. /\ UNCHANGED <<buffered, ingested, captured, owned, mediaEvent, stored,
                       audited, statusSaved>>
        /\ \/ receipts' = receipts
           \/ receipts' = receipts \cup {x \in {m} : Trait[x].identified}
    BY <1>1 DEF RecordReceipt, done
  <2> QED BY <1>1, <2>1 DEF Rows, Grows, MediaIsOwn, WebhookInv
<1>3. PICK h \in Handling :
           /\ handler[w] = h /\ Shape /\ h.stage \in OnMessage
           /\ m = Here(h) /\ Sound(h)' /\ Stands("receipt", m, h.outcome)
           /\ Stands("receipt", m, h.outcome)'
  BY <1>0, <1>1, <1>2, AtMessage
<1>4. Durable(m)' /\ (Trait[m].identified => Proven(m)')
  BY <1>3 DEF Stands, FannedOut, Durable, Proven, Safe, EvidenceKept,
              RequiresDurableOwnership
<1>5. Advances(w)
  BY <1>3, <1>4, Ends DEF RecordReceipt
<1> QED BY <1>2, <1>4, <1>5 DEF Keeps

LEMMA KeepsCrash ==
  ASSUME WebhookInv, NEW w \in Workers, Crash(w)
  PROVE  Keeps(w)
<1>1. Grows /\ Rows' /\ MediaIsOwn' /\ receipts' = receipts
  BY RowsUnchanged DEF Crash
<1>2. Advances(w)
  BY DEF WebhookInv, Shape, Crash, Advances
<1> QED BY <1>1, <1>2 DEF Keeps

-----------------------------------------------------------------------------
(* The invariant and the theorems.                                          *)

LEMMA WebhookInvInit == Init => WebhookInv
<1> SUFFICES ASSUME Init PROVE WebhookInv
  OBVIOUS
<1>1. PICK sent \in Traffic :
        answer = [r \in Requests |-> IF r \in sent THEN 0 ELSE NotSent]
  BY DEF Init
<1>2. answer \in [Requests -> Nat] /\ \A r \in Requests : answer[r] # 200
  BY <1>1 DEF NotSent
<1>3. Shape
  BY <1>2 DEF Init, Shape, Rows, Results, Keyed, OwnKeyed
<1> QED BY <1>2, <1>3 DEF WebhookInv, Init, MediaIsOwn

LEMMA WebhookInvNext == WebhookInv /\ [Next]_vars => WebhookInv'
<1> SUFFICES ASSUME WebhookInv, [Next]_vars PROVE WebhookInv'
  OBVIOUS
<1>1. ASSUME NEW w \in Workers, Step(w) PROVE WebhookInv'
  BY <1>1, StepKeeps, KeepsAudit, KeepsPersistStatuses, KeepsStart, KeepsBuffer,
     KeepsIngest, KeepsCapture, KeepsDispute, KeepsFindContact, KeepsCreateContact,
     KeepsOwn, KeepsDownload, KeepsUpload, KeepsCompleteMedia, KeepsRecordReceipt
     DEF Step
<1>2. ASSUME NEW w \in Workers, Crash(w) PROVE WebhookInv'
  BY <1>2, StepKeeps, KeepsCrash
<1>3. ASSUME NEW w \in Workers, NEW r \in Requests, Deliver(w, r) PROVE WebhookInv'
  BY <1>3, StepKeeps, KeepsDeliver
<1>4. CASE UNCHANGED vars
  <2>1. /\ UNCHANGED <<handler, answer, receipts, buffered, ingested, captured, owned,
                       mediaEvent, stored, audited, statusSaved>>
        /\ Grows /\ Shape' /\ MediaIsOwn'
    BY <1>4 DEF vars, WebhookInv, Shape, Rows, Grows, MediaIsOwn
  <2>2. ASSUME NEW w \in Workers, handler'[w] # Idle PROVE Sound(handler[w])'
    <3>1. PICK h \in Handling : h = handler[w] /\ Sound(h)
      BY <2>1, <2>2, Handles DEF WebhookInv
    <3>2. Sound(h)' /\ handler'[w] = h
      BY <2>1, <3>1, SoundGrows
    <3> QED BY <3>2
  <2>3. ASSUME NEW r \in Requests, answer'[r] = 200 PROVE Settled(r)'
    BY <2>1, <2>3, SettledGrows DEF WebhookInv
  <2>4. ASSUME NEW m \in receipts' PROVE Proven(m)'
    BY <2>1, <2>4, DurableGrows DEF WebhookInv, Shape, Rows
  <2> QED BY <2>1, <2>2, <2>3, <2>4 DEF WebhookInv
<1> QED BY <1>1, <1>2, <1>3, <1>4 DEF Next

LEMMA WebhookInvariant == Spec => []WebhookInv
<1> QED BY WebhookInvInit, WebhookInvNext, PTL DEF Spec

\* A 200 to the provider is final: whatever failed, died or ran twice on the way,
\* everything the request carried - the audit of its malformed statuses, its
\* statuses, the messages the system must own and their commercial evidence - was
\* stored before it; and a completion receipt, which makes a replay skip every
\* step, proves the same of its message.
THEOREM AcknowledgementsAreDurable == Spec => []AcknowledgedIsDurable
<1>1. WebhookInv => AcknowledgedIsDurable
  <2> SUFFICES ASSUME WebhookInv PROVE AcknowledgedIsDurable
    OBVIOUS
  <2>1. ASSUME NEW r \in Requests, answer[r] = 200 PROVE Settled(r)
    BY <2>1 DEF WebhookInv
  <2>2. ASSUME NEW r \in Requests, answer[r] = 200, NEW m \in Messages, InRequest(m, r)
        PROVE  Durable(m)
    BY <2>2, <2>1 DEF Settled, InRequest
  <2>3. \A m \in receipts : Proven(m)
    BY DEF WebhookInv
  <2> QED BY <2>1, <2>2, <2>3 DEF AcknowledgedIsDurable, Settled, Durable, Proven
<1> QED BY <1>1, WebhookInvariant, PTL

\* However often a message is delivered, resumed after a crash or a lost answer, or
\* handled by two workers at once, an identified one leaves one buffer row, one
\* message row and one stored object, because each is under a key made from its id;
\* and media on record as read has its object, also where the upload was refused.
THEOREM EffectsAreSingle == Spec => []OneEffectPerMessage
<1>1. ASSUME NEW t, Keyed(t), NEW m \in Messages, Trait[m].identified,
             NEW x \in t, NEW y \in t, x.message = m, y.message = m
      PROVE  x = y
  BY <1>1 DEF Keyed
<1>2. WebhookInv => OneEffectPerMessage
  <2> SUFFICES ASSUME WebhookInv PROVE OneEffectPerMessage
    OBVIOUS
  <2>1. Keyed(buffered) /\ Keyed(owned) /\ Keyed(stored)
    BY DEF WebhookInv, Shape, Rows, OwnKeyed
  <2> QED BY <1>1, <2>1 DEF OneEffectPerMessage, MediaIsOwn, WebhookInv
<1> QED BY <1>2, WebhookInvariant, PTL
=============================================================================

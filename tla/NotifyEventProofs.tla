------------------------- MODULE NotifyEventProofs -------------------------
(***************************************************************************)
(* Proofs for NotifyEvent: its type correctness, that a customer is told     *)
(* once (ToldOnce), and that outcomes are true (OutcomesAreTrue), for any    *)
(* applications, channels, requests and number of concurrent invocations.    *)
(***************************************************************************)
EXTENDS NotifyEvent, SequenceTheorems, TLAPS

TargetStages == {"select", "insert", "claim", "send", "complete", "quarantine", "fail"}
SendStages == {"send", "complete", "quarantine", "fail"}
Reported(told, t) == \E d \in told : d.target = t

\* An invocation between its claim of k and the record of what came of it.
Sending(h) == h.stage \in SendStages /\ h.first = "select"
SendsAt(h, k) == Sending(h) /\ h.todo[1] = k

\* What an invocation knows is true of the tables: box is the outbox, told the
\* deliveries.
Prepared(h) ==
  /\ h.todo # <<>> => h.provider # "none"
  /\ h.stage \in TargetStages => h.todo # <<>>
  /\ h.stage \in {"read"} \cup (TargetStages \ {"send"}) => h.first = "select"
  /\ h.first = "select" => h.todo \in Seq(Keys)
  /\ h.first = "send" => h.todo \in Seq(Labels \X Channels)
  /\ h.first = "select" /\ h.stage \in TargetStages => h.content \in Contents
OwnText(h, box) ==
  h.stage = "claim" \/ Sending(h) =>
    box[h.todo[1]] # NoRow /\ box[h.todo[1]].content = h.content
ClaimIsSound(h, row) ==
  h.stage = "claim" =>
    /\ h.seen \in Row /\ Attemptable(h.seen) /\ Claimable(h.seen)
    /\ h.seen.attempt <= row.attempt
    /\ h.seen.status = "processing" /\ Unmoved(row, h.seen) => row.stale
Truthful(h, told) ==
  /\ h.stage = "complete" => Reported(told, h.todo[1])
  /\ \A x \in h.results : x[2] => Reported(told, x[1])
WorkerFits(h, box, told) ==
  h # Idle => /\ Prepared(h) /\ OwnText(h, box) /\ Truthful(h, told)
              /\ ClaimIsSound(h, box[h.todo[1]])

RowFits(k, row, told, dead) ==
  /\ row.status \in {"pending", "retry"} => row.attempt < MaxAttempts
  /\ row.status = "failed" => k \in dead
  /\ row.status = "sent" => Reported(told, k)
  /\ \A d \in told : d.target = k => row # NoRow /\ d.content = row.content

\* As long as none of the windows was hit, one invocation at a time sends, and
\* what was sent is on the row or still in the hands of the row's owner.
SenderHolds(k, work, row) ==
  \A w \in Workers : SendsAt(work[w], k) =>
    \/ row.status = "processing" /\ row.owner = w /\ ~row.stale
    \/ work[w].stage = "quarantine" /\ row.status = "sent"
SendIsTracked(k, work, row, told) ==
  Reported(told, k) =>
    \/ row.status \in {"sent", "quarantined"}
    \/ \E w \in Workers :
         /\ SendsAt(work[w], k) /\ work[w].stage \in {"complete", "quarantine"}
         /\ row.status = "processing" /\ row.owner = w
Once(k, told) == \A d, e \in told : d.target = k /\ e.target = k => d = e
Sure(k, work, row, told) ==
  SenderHolds(k, work, row) /\ SendIsTracked(k, work, row, told) /\ Once(k, told)

WorkersFit == \A w \in Workers : WorkerFits(worker[w], outbox, delivered)
RowsFit == \A k \in Keys : RowFits(k, outbox[k], delivered, deadLetters)
KeysSure == \A k \in Keys \ unsure : Sure(k, worker, outbox[k], delivered)
NotifyInv == TypeOK /\ WorkersFit /\ RowsFit /\ KeysSure
-----------------------------------------------------------------------------
(* Lists of targets.                                                         *)

LEMMA KeyIsTarget == Keys \subseteq Targets /\ Labels \X Channels \subseteq Targets
  BY DEF Keys, Targets
LEMMA NoLabelIsKey == ASSUME NotifyAssumption PROVE \A t \in Labels \X Channels : t \notin Keys
  BY DEF Keys, NotifyAssumption

\* approvalChannels lists channels only.
LEMMA OrderedChannels ==
  ASSUME NEW S \in SUBSET Channels PROVE InOrder(S) \in Seq(Channels)
<1>1. <<"email">> \in Seq(Channels) /\ <<"whatsapp">> \in Seq(Channels) /\ <<>> \in Seq(Channels)
  BY EmptySeq DEF Channels
<1> QED BY <1>1, ConcatProperties DEF InOrder

LEMMA LabelledChannels ==
  ASSUME NEW A, NEW a \in A, NEW S \in SUBSET Channels
  PROVE  TargetsOf(a, S) \in Seq(A \X Channels)
<1>1. InOrder(S) \in Seq(Channels) BY OrderedChannels
<1>2. Len(InOrder(S)) \in Nat /\ \A i \in 1..Len(InOrder(S)) : InOrder(S)[i] \in Channels
  BY <1>1, LenProperties, ElementOfSeq
<1>3. TargetsOf(a, S) \in [1..Len(InOrder(S)) -> A \X Channels] BY <1>2 DEF TargetsOf
<1> QED BY <1>2, <1>3, SeqDef

LEMMA RecipientsAreLabelled ==
  ASSUME NotifyAssumption, NEW r \in RequestType, NEW b \in BOOLEAN, NEW c \in BOOLEAN
  PROVE  Recipients(r, b, c) \in Seq(Labels \X Channels)
<1> DEFINE L == Seq(Labels \X Channels)
<1>1. <<>> \in L BY EmptySeq
<1>2. \A l \in Labels : TargetsOf(l, Directory[l]) \in L
  BY LabelledChannels DEF NotifyAssumption
<1>3. TargetsOf("direct", r.direct) \in L
  BY LabelledChannels DEF RequestType, Labels
<1>4. \A s, t \in L : s \o t \in L BY ConcatProperties
<1>5. Recipients(r, b, c) \in L
  <2> HIDE DEF L
  <2> QED BY <1>1, <1>2, <1>3, <1>4 DEF Recipients, Labels
<1> QED BY <1>5
-----------------------------------------------------------------------------
(* Control of one invocation.                                                *)

\* Only w moves, and its new state is well formed.
Moves(w) ==
  /\ worker' \in [Workers -> Working \cup {Idle}]
  /\ \A v \in Workers \ {w} : worker'[v] = worker[v]

LEMMA Busy ==
  ASSUME TypeOK, WorkersFit, NEW w \in Workers, worker[w].stage # "idle"
  PROVE  /\ worker[w] # Idle /\ worker[w] \in Working
         /\ WorkerFits(worker[w], outbox, delivered) /\ Prepared(worker[w])
         /\ OwnText(worker[w], outbox) /\ Truthful(worker[w], delivered)
         /\ ClaimIsSound(worker[w], outbox[worker[w].todo[1]])
<1>1. worker[w] # Idle BY DEF Idle
<1> QED BY <1>1 DEF TypeOK, WorkersFit, WorkerFits

LEMMA IdleFits == \A box, told : WorkerFits(Idle, box, told) /\ ~Sending(Idle)
  BY DEF WorkerFits, Idle, Sending, SendStages

LEMMA Ended ==
  ASSUME TypeOK, NEW w \in Workers, End(w)
  PROVE  Moves(w) /\ worker'[w] = Idle
  BY DEF TypeOK, End, Moves

LEMMA TargetTyped ==
  ASSUME NEW h \in Working, Prepared(h), h.stage \in TargetStages
  PROVE  /\ h.todo # <<>> /\ h.todo[1] \in Targets /\ Tail(h.todo) \in Seq(Targets)
         /\ h.first = "select" => h.todo[1] \in Keys /\ Tail(h.todo) \in Seq(Keys)
         /\ h.first = "send" => /\ h.todo[1] \in Labels \X Channels
                                /\ Tail(h.todo) \in Seq(Labels \X Channels)
<1>1. h.todo # <<>> BY DEF Prepared
<1>2. \A S : h.todo \in Seq(S) => h.todo[1] \in S /\ Tail(h.todo) \in Seq(S)
  BY <1>1, HeadTailProperties, ElementOfSeq, EmptySeq
<1>3. h.todo \in Seq(Targets) BY DEF Working
<1> QED BY <1>1, <1>2, <1>3 DEF Prepared

\* After a turn the next one begins, or the audit: either way nothing is in flight.
LEMMA TurnTaken ==
  ASSUME NEW told, NEW box, TypeOK, NEW w \in Workers, NEW ok \in BOOLEAN,
         worker[w] \in Working, Prepared(worker[w]), worker[w].stage \in TargetStages,
         \A x \in worker[w].results : x[2] => Reported(told, x[1]),
         ok => Reported(told, Target(w)), NextTurn(w, ok)
  PROVE  Moves(w) /\ WorkerFits(worker'[w], box, told) /\ ~Sending(worker'[w])
<1> PICK h : h = worker[w] OBVIOUS
<1> PICK rest : rest = Tail(h.todo) OBVIOUS
<1> PICK next : next = [h EXCEPT !.todo = rest, !.results = @ \cup {<<h.todo[1], ok>>},
                                !.stage = IF rest = <<>> THEN "audit" ELSE h.first,
                                !.provider = IF rest = <<>> THEN "none"
                                             ELSE FirstProvider(rest[1][2])]
  OBVIOUS
<1>1. h \in Working /\ h.todo[1] \in Targets /\ rest \in Seq(Targets)
  BY TargetTyped
<1>2. worker' = [worker EXCEPT ![w] = next]
  BY DEF NextTurn, Target, TypeOK
<1>3. next \in Working /\ next # Idle
  <2>1. \A t \in Targets : FirstProvider(t[2]) \in Providers
    BY DEF FirstProvider, Providers
  <2>2. rest # <<>> => rest[1] \in Targets BY <1>1, ElementOfSeq, EmptySeq
  <2>3. next.provider \in Providers \cup {"none"} BY <1>1, <2>1, <2>2 DEF Working
  <2>4. next.results \in SUBSET (Targets \X BOOLEAN) BY <1>1 DEF Working
  <2>5. next.stage \in Stages BY <1>1 DEF Working, Stages
  <2>6. next.todo = rest /\ next.seen = h.seen /\ next.first = h.first
        /\ next.request = h.request /\ next.content = h.content /\ next.attempt = h.attempt
    BY <1>1 DEF Working
  <2>7. next \in Working
    BY <1>1, <2>3, <2>4, <2>5, <2>6, ZenonT(30) DEF Working
  <2> QED BY <2>5, <2>7 DEF Stages, Idle
<1>4. Moves(w) /\ worker'[w] = next
  BY <1>2, <1>3 DEF Moves, TypeOK
<1>5. Prepared(next)
  BY <1>1, TargetTyped DEF Prepared, TargetStages, FirstProvider, Working
<1>6. next.stage \in {"audit", next.first} /\ next.first \in {"select", "send"}
  BY <1>1 DEF Working
<1>7. ~Sending(next) BY <1>6 DEF Sending, SendStages
<1>8. OwnText(next, box) /\ ClaimIsSound(next, box[next.todo[1]])
  BY <1>6, <1>7 DEF OwnText, ClaimIsSound
<1>9. Truthful(next, told)
  BY <1>1, <1>6 DEF Truthful, Working, Target
<1>10. WorkerFits(next, box, told) BY <1>5, <1>8, <1>9 DEF WorkerFits
<1>11. WorkerFits(worker'[w], box, told) BY <1>4, <1>10
<1>12. ~Sending(worker'[w]) BY <1>4, <1>7
<1> QED BY <1>4, <1>11, <1>12

\* What becomes of a row that was read or found.
LEMMA Judged ==
  ASSUME NotifyAssumption, NEW told, NEW box, NEW dead, TypeOK, NEW w \in Workers, NEW row \in Row,
         worker[w] \in Working, Prepared(worker[w]),
         worker[w].stage \in {"select", "insert"}, box[Target(w)] = row,
         \A x \in worker[w].results : x[2] => Reported(told, x[1]),
         RowFits(Target(w), row, told, dead), Judge(w, row)
  PROVE  Moves(w) /\ WorkerFits(worker'[w], box, told) /\ ~Sending(worker'[w])
<1> worker[w].stage \in TargetStages BY DEF TargetStages
<1>1. CASE End(w) BY <1>1, Ended, IdleFits
<1>2. CASE row.status = "sent" /\ NextTurn(w, TRUE)
  BY <1>2, TurnTaken DEF RowFits
<1>3. CASE NextTurn(w, FALSE) BY <1>3, TurnTaken
<1>4. ASSUME row.content = worker[w].content, row.status # "sent",
             Attemptable(row), Claimable(row),
             worker' = [worker EXCEPT ![w].stage = "claim", ![w].seen = row]
      PROVE  Moves(w) /\ WorkerFits(worker'[w], box, told) /\ ~Sending(worker'[w])
  <2> PICK h : h = worker[w] OBVIOUS
  <2> PICK next : next = [h EXCEPT !.stage = "claim", !.seen = row] OBVIOUS
  <2>1. worker' = [worker EXCEPT ![w] = next] BY <1>4 DEF TypeOK
  <2>2. next \in Working BY DEF Working, Stages
  <2>3. Moves(w) /\ worker'[w] = next BY <2>1, <2>2 DEF Moves, TypeOK
  <2>4. next.stage = "claim" /\ next.seen = row /\ next.todo = h.todo /\ next.first = h.first
        /\ next.content = h.content /\ next.results = h.results /\ next.provider = h.provider
    BY DEF Working
  <2>5. Prepared(next) BY <2>4 DEF Prepared, TargetStages
  <2>6. row # NoRow /\ row.attempt \in Nat BY DEF Row, NoRow, RowStatus, NotifyAssumption
  <2>7. OwnText(next, box) BY <1>4, <2>4, <2>6 DEF OwnText, Target
  <2>8. ClaimIsSound(next, box[next.todo[1]])
    BY <1>4, <2>4, <2>6 DEF ClaimIsSound, Target, Claimable
  <2>9. Truthful(next, told) BY <2>4 DEF Truthful
  <2>10. WorkerFits(next, box, told) BY <2>5, <2>7, <2>8, <2>9 DEF WorkerFits
  <2>11. ~Sending(next) BY <2>4 DEF Sending, SendStages
  <2>12. WorkerFits(worker'[w], box, told) BY <2>3, <2>10
  <2> QED BY <2>3, <2>11, <2>12
<1> QED BY <1>1, <1>2, <1>3, <1>4 DEF Judge
-----------------------------------------------------------------------------
(* Steps that leave the outbox and the deliveries alone.                     *)

\* Rows stay, keep their text, and count their claims.
Grows(box, box2) ==
  \A k \in Keys : box[k] # NoRow =>
    /\ box2[k] # NoRow /\ box2[k].content = box[k].content
    /\ box[k].attempt <= box2[k].attempt
    /\ box2[k].status = "processing" /\ box2[k].attempt = box[k].attempt =>
         /\ box[k].status = "processing" /\ box2[k].owner = box[k].owner
         /\ box[k].stale => box2[k].stale

LEMMA StillFits ==
  ASSUME NotifyAssumption, NEW h \in Working \cup {Idle}, NEW told, NEW told2, told \subseteq told2,
         NEW box \in [Keys -> Row \cup {NoRow}], NEW box2 \in [Keys -> Row \cup {NoRow}],
         Grows(box, box2), WorkerFits(h, box, told)
  PROVE  WorkerFits(h, box2, told2)
<1> SUFFICES ASSUME h # Idle PROVE WorkerFits(h, box2, told2)
  BY DEF WorkerFits
<1> DEFINE k == h.todo[1]
<1>1. Prepared(h) /\ OwnText(h, box) /\ Truthful(h, told) /\ ClaimIsSound(h, box[k])
  BY DEF WorkerFits
<1>2. h \in Working OBVIOUS
<1>3. h.stage = "claim" \/ Sending(h) => k \in Keys
  BY <1>1, <1>2, TargetTyped DEF Prepared, TargetStages, Sending, SendStages
<1>4. OwnText(h, box2) BY <1>1, <1>3 DEF OwnText, Grows
<1>5. Truthful(h, told2) BY <1>1 DEF Truthful, Reported
<1>6. ClaimIsSound(h, box2[k])
  <2> SUFFICES ASSUME h.stage = "claim" PROVE ClaimIsSound(h, box2[k])
    BY DEF ClaimIsSound
  <2>1. k \in Keys /\ box[k] # NoRow BY <1>1, <1>3 DEF OwnText
  <2>2. box[k] \in Row /\ box2[k] \in Row BY <2>1 DEF Grows
  <2>3. h.seen \in Row BY <1>1 DEF ClaimIsSound
  <2>4. h.seen.attempt \in Nat /\ box[k].attempt \in Nat /\ box2[k].attempt \in Nat
    BY <2>2, <2>3 DEF Row, NotifyAssumption
  <2>5. box[k].attempt <= box2[k].attempt BY <2>1 DEF Grows
  <2>6. h.seen.attempt <= box2[k].attempt BY <1>1, <2>4, <2>5 DEF ClaimIsSound
  <2>7. ASSUME h.seen.status = "processing", Unmoved(box2[k], h.seen) PROVE box2[k].stale
    <3>1. box2[k].status = "processing" /\ box2[k].attempt = box[k].attempt
      BY <1>1, <2>4, <2>5, <2>7 DEF Unmoved, ClaimIsSound
    <3>2. Unmoved(box[k], h.seen)
      BY <2>1, <2>7, <3>1 DEF Unmoved, Grows
    <3> QED BY <1>1, <2>1, <2>7, <3>1, <3>2 DEF ClaimIsSound, Grows
  <2> QED BY <1>1, <2>6, <2>7 DEF ClaimIsSound
<1> QED BY <1>1, <1>4, <1>5, <1>6 DEF WorkerFits

LEMMA OthersFit ==
  ASSUME NotifyAssumption, TypeOK, WorkersFit, NEW w, Moves(w),
         outbox' \in [Keys -> Row \cup {NoRow}], Grows(outbox, outbox'),
         delivered \subseteq delivered',
         w \in Workers => WorkerFits(worker'[w], outbox', delivered')
  PROVE  WorkersFit'
<1>1. SUFFICES ASSUME NEW v \in Workers PROVE WorkerFits(worker'[v], outbox', delivered')
  BY DEF WorkersFit
<1>2. CASE v = w BY <1>2
<1>3. CASE v # w
  <2>1. worker'[v] = worker[v] BY <1>3 DEF Moves
  <2>2. WorkerFits(worker[v], outbox, delivered) BY DEF WorkersFit
  <2>3. WorkerFits(worker[v], outbox', delivered')
    BY <2>2, StillFits DEF TypeOK
  <2> QED BY <2>1, <2>3
<1> QED BY <1>2, <1>3

LEMMA StaysSure ==
  ASSUME NEW k, NEW work, NEW work2, NEW row, NEW told, NEW w,
         \A v \in Workers \ {w} : work2[v] = work[v],
         w \in Workers => ~SendsAt(work2[w], k),
         w \in Workers /\ SendsAt(work[w], k) => work[w].stage \in {"send", "fail"},
         Sure(k, work, row, told)
  PROVE  Sure(k, work2, row, told)
<1>1. SenderHolds(k, work2, row) BY DEF Sure, SenderHolds
<1>2. SendIsTracked(k, work2, row, told)
  <2> SUFFICES ASSUME Reported(told, k), row.status \notin {"sent", "quarantined"}
               PROVE  \E v \in Workers :
                        /\ SendsAt(work2[v], k) /\ work2[v].stage \in {"complete", "quarantine"}
                        /\ row.status = "processing" /\ row.owner = v
    BY DEF SendIsTracked
  <2> PICK v \in Workers : /\ SendsAt(work[v], k) /\ work[v].stage \in {"complete", "quarantine"}
                           /\ row.status = "processing" /\ row.owner = v
    BY DEF Sure, SendIsTracked
  <2>1. v # w OBVIOUS
  <2> QED BY <2>1
<1> QED BY <1>1, <1>2 DEF Sure

\* w moves and is not in flight afterwards; if it was, nothing had been sent or the
\* row is not sure any more.
LEMMA QuietStep ==
  ASSUME NotifyAssumption, NotifyInv, NEW w \in Workers, Moves(w),
         WorkerFits(worker'[w], outbox, delivered), ~Sending(worker'[w]),
         \A k \in Keys \ unsure' : SendsAt(worker[w], k) => worker[w].stage \in {"send", "fail"},
         UNCHANGED <<posted, application, outbox, delivered, deadLetters>>,
         unsure \subseteq unsure', unsure' \subseteq Keys, faults' \in 0..MaxFaults
  PROVE  NotifyInv'
<1>1. TypeOK' BY DEF NotifyInv, TypeOK, Moves
<1>2. WorkersFit'
  <2>1. Grows(outbox, outbox)
    <3> SUFFICES ASSUME NEW k \in Keys, outbox[k] # NoRow PROVE outbox[k].attempt <= outbox[k].attempt
      BY DEF Grows
    <3>1. outbox[k] \in Row BY DEF NotifyInv, TypeOK
    <3> QED BY <3>1 DEF Row, NotifyAssumption
  <2> QED BY <2>1, OthersFit DEF NotifyInv, TypeOK
<1>3. RowsFit' BY DEF NotifyInv, RowsFit
<1>4. KeysSure'
  <2>1. SUFFICES ASSUME NEW k \in Keys \ unsure' PROVE Sure(k, worker', outbox'[k], delivered')
    BY DEF KeysSure
  <2>2. Sure(k, worker, outbox[k], delivered) BY DEF NotifyInv, KeysSure
  <2>3. ~SendsAt(worker'[w], k) BY DEF SendsAt
  <2>4. Sure(k, worker', outbox[k], delivered) BY <2>2, <2>3, StaysSure DEF Moves
  <2> QED BY <2>4
<1> QED BY <1>1, <1>2, <1>3, <1>4 DEF NotifyInv

LEMMA FaultTyped == ASSUME NotifyAssumption, TypeOK, Fault \/ Works PROVE faults' \in 0..MaxFaults
  BY DEF TypeOK, Fault, Works, NotifyAssumption

LEMMA Begun ==
  ASSUME NotifyAssumption, NEW told, NEW box, TypeOK, NEW w \in Workers, NEW r \in RequestType,
         NEW first \in {"select", "send"}, NEW todo \in Seq(Targets),
         NEW stage \in {"read", "lookup", "audit", "send"},
         first = "select" => todo \in Seq(Keys),
         first = "send" => todo \in Seq(Labels \X Channels),
         stage = "read" => first = "select",
         stage = "send" => todo # <<>> /\ first = "send", Begin(w, r, todo, first, stage)
  PROVE  Moves(w) /\ WorkerFits(worker'[w], box, told) /\ ~Sending(worker'[w])
<1> PICK next : next = [stage |-> stage, request |-> r, todo |-> todo, first |-> first,
                        content |-> 0,
                        provider |-> IF todo = <<>> THEN "none" ELSE FirstProvider(todo[1][2]),
                        seen |-> NoRow, attempt |-> 0, results |-> {}]
  OBVIOUS
<1>1. next.provider \in Providers \cup {"none"} /\ (todo # <<>> => next.provider # "none")
  BY DEF FirstProvider, Providers
<1>2. next \in Working BY <1>1 DEF Working, Stages, NotifyAssumption
<1>3. Moves(w) /\ worker'[w] = next BY <1>2 DEF Begin, Moves, TypeOK
<1>4. Prepared(next) BY <1>1 DEF Prepared, TargetStages
<1>5. ~Sending(next) BY DEF Sending, SendStages
<1>6. OwnText(next, box) /\ ClaimIsSound(next, box[next.todo[1]]) /\ Truthful(next, told)
  BY <1>5 DEF OwnText, ClaimIsSound, Truthful
<1>7. WorkerFits(next, box, told) BY <1>4, <1>6 DEF WorkerFits
<1>8. WorkerFits(worker'[w], box, told) BY <1>3, <1>7
<1> QED BY <1>3, <1>5, <1>8

LEMMA AcceptKeeps ==
  ASSUME NotifyAssumption, NotifyInv, NEW w \in Workers, NEW r \in posted, Accept(w, r)
  PROVE  NotifyInv'
<1>1. TypeOK /\ r \in RequestType BY DEF NotifyInv, TypeOK, NotifyAssumption
<1>2. Moves(w) /\ WorkerFits(worker'[w], outbox, delivered) /\ ~Sending(worker'[w])
  <2>1. CASE r.event = "approval_granted"
    <3> PICK todo : todo = TargetsOf(r.app, Reach[r.app]) OBVIOUS
    <3>1. todo \in Seq(Keys) /\ todo \in Seq(Targets)
      BY <1>1, LabelledChannels, KeyIsTarget, SeqMonotonic DEF RequestType, Keys, NotifyAssumption
    <3>2. Begin(w, r, todo, "select", "read")
      BY <2>1 DEF Accept, TargetsOf
    <3> QED BY <1>1, <3>1, <3>2, Begun
  <2>2. CASE r.event # "approval_granted"
    <3>1. Begin(w, r, <<>>, "send", "lookup") BY <2>2 DEF Accept
    <3> QED BY <1>1, <3>1, Begun, EmptySeq
  <2> QED BY <2>1, <2>2
<1>3. ~Sending(worker[w]) BY DEF Accept, At, Sending, SendStages
<1>4. faults' \in 0..MaxFaults BY <1>1, FaultTyped DEF Accept
<1> QED BY <1>1, <1>2, <1>3, <1>4, QuietStep DEF Accept, Outside, SendsAt, TypeOK

LEMMA LookUpKeeps ==
  ASSUME NotifyAssumption, NotifyInv, NEW w \in Workers, LookUp(w) PROVE NotifyInv'
<1>1. TypeOK /\ WorkersFit BY DEF NotifyInv
<1>2. worker[w].stage = "lookup" BY DEF LookUp, At
<1>3. worker[w].request \in RequestType
  <2>1. worker[w] \in Working BY <1>1, <1>2, Busy
  <2> QED BY <2>1 DEF Working
<1>4. Moves(w) /\ WorkerFits(worker'[w], outbox, delivered) /\ ~Sending(worker'[w])
      /\ (Works \/ Fault)
  <2> PICK b \in BOOLEAN, c \in BOOLEAN :
        LET todo == Recipients(worker[w].request, b, c)
        IN  /\ IF b /\ c THEN Works ELSE Fault
            /\ Begin(w, worker[w].request, todo, "send", IF todo = <<>> THEN "audit" ELSE "send")
    BY DEF LookUp
  <2> PICK todo : todo = Recipients(worker[w].request, b, c) OBVIOUS
  <2>1. todo \in Seq(Labels \X Channels) /\ todo \in Seq(Targets)
    BY <1>3, RecipientsAreLabelled, KeyIsTarget, SeqMonotonic
  <2>2. Begin(w, worker[w].request, todo, "send", IF todo = <<>> THEN "audit" ELSE "send")
        /\ (Works \/ Fault)
    OBVIOUS
  <2>3. CASE todo = <<>>
    <3>1. Begin(w, worker[w].request, todo, "send", "audit") BY <2>2, <2>3
    <3> QED BY <1>1, <1>3, <2>1, <2>2, <2>3, <3>1, Begun
  <2>4. CASE todo # <<>>
    <3>1. Begin(w, worker[w].request, todo, "send", "send") BY <2>2, <2>4
    <3> QED BY <1>1, <1>3, <2>1, <2>2, <2>4, <3>1, Begun
  <2> QED BY <2>3, <2>4
<1>5. ~Sending(worker[w]) BY <1>2 DEF Sending, SendStages
<1>6. faults' \in 0..MaxFaults BY <1>1, <1>4, FaultTyped
<1> QED BY <1>1, <1>4, <1>5, <1>6, QuietStep DEF LookUp, Outside, SendsAt, TypeOK

LEMMA Gone ==
  ASSUME TypeOK, NEW w \in Workers, NEW s \in Stages, worker[w] \in Working, Goto(w, s)
  PROVE  /\ Moves(w) /\ worker'[w] \in Working /\ worker'[w].stage = s
         /\ worker'[w] = [worker[w] EXCEPT !.stage = s]
<1> PICK next : next = [worker[w] EXCEPT !.stage = s] OBVIOUS
<1>1. next \in Working /\ next.stage = s BY DEF Working
<1>2. worker' = [worker EXCEPT ![w] = next] BY DEF Goto, TypeOK
<1>3. Moves(w) /\ worker'[w] = next BY <1>1, <1>2 DEF Moves, TypeOK
<1> QED BY <1>1, <1>3

LEMMA AuditKeeps ==
  ASSUME NotifyAssumption, NotifyInv, NEW w \in Workers, Audit(w) PROVE NotifyInv'
<1>1. TypeOK BY DEF NotifyInv
<1>2. Moves(w) /\ worker'[w] = Idle BY <1>1, Ended DEF Audit
<1>3. WorkerFits(worker'[w], outbox, delivered) /\ ~Sending(worker'[w]) BY <1>2, IdleFits
<1>4. ~Sending(worker[w]) BY DEF Audit, At, Sending, SendStages
<1>5. faults' \in 0..MaxFaults BY <1>1, FaultTyped DEF Audit
<1> QED BY <1>1, <1>2, <1>3, <1>4, <1>5, QuietStep DEF Audit, Outside, SendsAt, TypeOK

LEMMA CrashKeeps ==
  ASSUME NotifyAssumption, NotifyInv, NEW w \in Workers, Crash(w) PROVE NotifyInv'
<1>1. TypeOK /\ WorkersFit BY DEF NotifyInv
<1>2. Moves(w) /\ worker'[w] = Idle BY <1>1, Ended DEF Crash
<1>3. WorkerFits(worker'[w], outbox, delivered) /\ ~Sending(worker'[w]) BY <1>2, IdleFits
<1>4. Sent(w) <=> Sending(worker[w]) BY DEF Sent, Sending, SendStages
<1>5. Sending(worker[w]) => Target(w) \in Keys
  <2>1. worker[w] \in Working /\ Prepared(worker[w]) BY <1>1, Busy DEF Crash, At
  <2> QED BY <2>1, TargetTyped DEF Sending, SendStages, TargetStages, Target
<1>6. unsure \subseteq unsure' /\ unsure' \subseteq Keys
  BY <1>1, <1>4, <1>5 DEF Crash, TypeOK
<1>7. \A k \in Keys \ unsure' : ~SendsAt(worker[w], k)
  BY <1>4 DEF Crash, SendsAt, Target
<1>8. faults' \in 0..MaxFaults BY <1>1, FaultTyped DEF Crash
<1> QED BY <1>2, <1>3, <1>6, <1>7, <1>8, QuietStep DEF Crash

LEMMA ReadApplicationKeeps ==
  ASSUME NotifyAssumption, NotifyInv, NEW w \in Workers, ReadApplication(w) PROVE NotifyInv'
<1>1. TypeOK /\ WorkersFit BY DEF NotifyInv
<1>2. worker[w].stage = "read" BY DEF ReadApplication, At
<1>3. worker[w] \in Working /\ Prepared(worker[w]) /\ Truthful(worker[w], delivered)
  BY <1>1, <1>2, Busy
<1>4. ~Sending(worker[w]) BY <1>2 DEF Sending, SendStages
<1>5. faults' \in 0..MaxFaults BY <1>1, FaultTyped DEF ReadApplication
<1>6. Moves(w) /\ WorkerFits(worker'[w], outbox, delivered) /\ ~Sending(worker'[w])
  <2> PICK a : a = worker[w].request.app OBVIOUS
  <2>0. a \in Applications BY <1>3 DEF Working, RequestType
  <2>1. CASE End(w) BY <1>1, <2>1, Ended, IdleFits
  <2>2. ASSUME worker[w].todo # <<>>,
               worker' = [worker EXCEPT ![w].stage = "select", ![w].content = application[a].content]
        PROVE  Moves(w) /\ WorkerFits(worker'[w], outbox, delivered) /\ ~Sending(worker'[w])
    <3> PICK h : h = worker[w] OBVIOUS
    <3> PICK next : next = [h EXCEPT !.stage = "select", !.content = application[a].content]
      OBVIOUS
    <3>1. application[a].content \in Contents /\ application[a].content \in 0..2
      BY <1>1, <2>0 DEF TypeOK, Contents
    <3>2. next \in Working
      BY <1>3, <3>1 DEF Working, Stages
    <3>3. Moves(w) /\ worker'[w] = next
      BY <1>1, <2>2, <3>2 DEF Moves, TypeOK
    <3>4. next.stage = "select" /\ next.todo = h.todo /\ next.first = h.first
          /\ next.content \in Contents /\ next.results = h.results /\ next.provider = h.provider
      BY <1>3, <3>1 DEF Working
    <3>5. Prepared(next) BY <1>2, <1>3, <2>2, <3>4 DEF Prepared, TargetStages
    <3>6. ~Sending(next) BY <3>4 DEF Sending, SendStages
    <3>7. OwnText(next, outbox) /\ ClaimIsSound(next, outbox[next.todo[1]])
      BY <3>4, <3>6 DEF OwnText, ClaimIsSound
    <3>8. Truthful(next, delivered) BY <1>3, <3>4 DEF Truthful
    <3>9. WorkerFits(next, outbox, delivered) BY <3>5, <3>7, <3>8 DEF WorkerFits
    <3> QED BY <3>3, <3>6, <3>9
  <2> QED BY <2>1, <2>2 DEF ReadApplication
<1> QED BY <1>1, <1>4, <1>5, <1>6, QuietStep DEF ReadApplication, Outside, SendsAt, TypeOK

LEMMA SelectRowKeeps ==
  ASSUME NotifyAssumption, NotifyInv, NEW w \in Workers, SelectRow(w) PROVE NotifyInv'
<1>1. TypeOK /\ WorkersFit /\ RowsFit BY DEF NotifyInv
<1>2. worker[w].stage = "select" BY DEF SelectRow, At
<1>3. worker[w] \in Working /\ Prepared(worker[w]) /\ Truthful(worker[w], delivered)
  BY <1>1, <1>2, Busy
<1>4. ~Sending(worker[w]) BY <1>2 DEF Sending, SendStages
<1>5. faults' \in 0..MaxFaults BY <1>1, FaultTyped DEF SelectRow
<1>6. Moves(w) /\ WorkerFits(worker'[w], outbox, delivered) /\ ~Sending(worker'[w])
  <2>1. Target(w) \in Keys
    BY <1>2, <1>3, TargetTyped DEF Prepared, TargetStages, Target
  <2>2. ASSUME outbox[Target(w)] # NoRow, Judge(w, outbox[Target(w)])
        PROVE  Moves(w) /\ WorkerFits(worker'[w], outbox, delivered) /\ ~Sending(worker'[w])
    <3>1. outbox[Target(w)] \in Row BY <1>1, <2>1, <2>2 DEF TypeOK
    <3>2. RowFits(Target(w), outbox[Target(w)], delivered, deadLetters)
      BY <1>1, <2>1 DEF RowsFit
    <3> QED BY <1>1, <1>2, <1>3, <2>2, <3>1, <3>2, Judged DEF Truthful
  <2>3. ASSUME Goto(w, "insert")
        PROVE  Moves(w) /\ WorkerFits(worker'[w], outbox, delivered) /\ ~Sending(worker'[w])
    <3> PICK h : h = worker[w] OBVIOUS
    <3> PICK next : next = [h EXCEPT !.stage = "insert"] OBVIOUS
    <3>1. Moves(w) /\ worker'[w] = next BY <1>1, <1>3, <2>3, Gone DEF Stages
    <3>2. next.stage = "insert" /\ next.todo = h.todo /\ next.first = h.first
          /\ next.content = h.content /\ next.results = h.results /\ next.provider = h.provider
      BY <1>3 DEF Working
    <3>3. Prepared(next) BY <1>2, <1>3, <3>2 DEF Prepared, TargetStages
    <3>4. ~Sending(next) BY <3>2 DEF Sending, SendStages
    <3>5. OwnText(next, outbox) /\ ClaimIsSound(next, outbox[next.todo[1]])
          /\ Truthful(next, delivered)
      BY <1>3, <3>2, <3>4 DEF OwnText, ClaimIsSound, Truthful
    <3>6. WorkerFits(next, outbox, delivered) BY <3>3, <3>5 DEF WorkerFits
    <3> QED BY <3>1, <3>4, <3>6
  <2> QED BY <2>2, <2>3 DEF SelectRow
<1> QED BY <1>1, <1>4, <1>5, <1>6, QuietStep DEF SelectRow, Outside, SendsAt, TypeOK
-----------------------------------------------------------------------------
(* Steps that change one row.                                                *)

LEMMA SureFresh ==
  ASSUME NEW k, NEW work, NEW row, NEW told,
         \A v \in Workers : ~SendsAt(work[v], k), ~Reported(told, k)
  PROVE  Sure(k, work, row, told)
  BY DEF Sure, SenderHolds, SendIsTracked, Once, Reported

\* Whoever sends is the row's owner, and alone.
LEMMA SoleSender ==
  ASSUME NEW k, NEW work, NEW row, NEW told, Sure(k, work, row, told),
         NEW w \in Workers, SendsAt(work[w], k),
         work[w].stage # "quarantine" \/ row.status = "processing"
  PROVE  /\ row.status = "processing" /\ row.owner = w /\ ~row.stale
         /\ \A v \in Workers \ {w} : ~SendsAt(work[v], k)
         /\ work[w].stage \in {"send", "fail"} => ~Reported(told, k)
<1>1. row.status = "processing" /\ row.owner = w /\ ~row.stale
  BY DEF Sure, SenderHolds
<1>2. \A v \in Workers \ {w} : ~SendsAt(work[v], k)
  BY <1>1 DEF Sure, SenderHolds
<1>3. work[w].stage \in {"send", "fail"} => ~Reported(told, k)
  BY <1>1 DEF Sure, SendIsTracked
<1> QED BY <1>1, <1>2, <1>3

\* w - an invocation, or nobody - and the row of k move, nothing is sent.
LEMMA RowStep ==
  ASSUME NotifyAssumption, NotifyInv, NEW w, Moves(w), NEW k \in Keys,
         outbox' \in [Keys -> Row \cup {NoRow}],
         \A j \in Keys \ {k} : outbox'[j] = outbox[j],
         (outbox'[k].status = "processing") = (outbox'[k].owner # "nobody")
           \/ outbox'[k] = NoRow,
         outbox[k] # NoRow =>
           /\ outbox'[k] # NoRow /\ outbox'[k].content = outbox[k].content
           /\ outbox[k].attempt <= outbox'[k].attempt
           /\ outbox'[k].status = "processing" /\ outbox'[k].attempt = outbox[k].attempt =>
                /\ outbox[k].status = "processing" /\ outbox'[k].owner = outbox[k].owner
                /\ outbox[k].stale => outbox'[k].stale,
         RowFits(k, outbox'[k], delivered, deadLetters'),
         w \in Workers =>
           /\ WorkerFits(worker'[w], outbox', delivered)
           /\ \A j \in Keys \ {k} : ~SendsAt(worker[w], j) /\ ~SendsAt(worker'[w], j),
         k \notin unsure' => Sure(k, worker', outbox'[k], delivered),
         UNCHANGED <<posted, application, delivered>>,
         deadLetters \subseteq deadLetters', deadLetters' \subseteq Keys,
         unsure \subseteq unsure', unsure' \subseteq Keys, faults' \in 0..MaxFaults
  PROVE  NotifyInv'
<1>1. TypeOK'
  <2>1. \A j \in Keys : outbox'[j] # NoRow =>
          (outbox'[j].status = "processing") = (outbox'[j].owner # "nobody")
    BY DEF NotifyInv, TypeOK
  <2> QED BY <2>1 DEF NotifyInv, TypeOK, Moves
<1>2. WorkersFit'
  <2>1. Grows(outbox, outbox')
    <3> SUFFICES ASSUME NEW j \in Keys \ {k}, outbox[j] # NoRow
                 PROVE  outbox[j].attempt <= outbox[j].attempt
      BY DEF Grows
    <3>1. outbox[j] \in Row BY DEF NotifyInv, TypeOK
    <3> QED BY <3>1 DEF Row, NotifyAssumption
  <2> QED BY <2>1, OthersFit DEF NotifyInv
<1>3. RowsFit'
  <2>1. SUFFICES ASSUME NEW j \in Keys PROVE RowFits(j, outbox'[j], delivered, deadLetters')
    BY DEF RowsFit
  <2>2. CASE j = k BY <2>2
  <2>3. CASE j # k
    <3>1. RowFits(j, outbox[j], delivered, deadLetters) BY DEF NotifyInv, RowsFit
    <3>2. RowFits(j, outbox[j], delivered, deadLetters') BY <3>1 DEF RowFits
    <3> QED BY <2>3, <3>2
  <2> QED BY <2>2, <2>3
<1>4. KeysSure'
  <2>1. SUFFICES ASSUME NEW j \in Keys \ unsure' PROVE Sure(j, worker', outbox'[j], delivered)
    BY DEF KeysSure
  <2>2. CASE j = k BY <2>2
  <2>3. CASE j # k
    <3>1. Sure(j, worker, outbox[j], delivered) BY DEF NotifyInv, KeysSure
    <3>2. Sure(j, worker', outbox[j], delivered) BY <2>3, <3>1, StaysSure, ZenonT(30) DEF Moves
    <3> QED BY <2>3, <3>2
  <2> QED BY <2>2, <2>3
<1> QED BY <1>1, <1>2, <1>3, <1>4 DEF NotifyInv

\* An invocation before its claim: what it knows of the row it is about.
LEMMA OnRow ==
  ASSUME NotifyInv, NEW w \in Workers, worker[w].stage \in TargetStages \ {"send"}
  PROVE  /\ worker[w] \in Working /\ Prepared(worker[w]) /\ worker[w].first = "select"
         /\ Truthful(worker[w], delivered) /\ OwnText(worker[w], outbox)
         /\ ClaimIsSound(worker[w], outbox[Target(w)])
         /\ Target(w) \in Keys /\ RowFits(Target(w), outbox[Target(w)], delivered, deadLetters)
         /\ worker[w].stage \in TargetStages
         /\ \A j \in Keys \ {Target(w)} : ~SendsAt(worker[w], j)
<1>1. worker[w].stage \in TargetStages /\ worker[w].stage # "idle" BY DEF TargetStages
<1>2. /\ worker[w] \in Working /\ Prepared(worker[w]) /\ OwnText(worker[w], outbox)
      /\ Truthful(worker[w], delivered) /\ ClaimIsSound(worker[w], outbox[Target(w)])
  BY <1>1, Busy DEF NotifyInv, Target
<1>3. worker[w].first = "select" BY <1>2 DEF Prepared
<1>4. Target(w) \in Keys BY <1>1, <1>2, <1>3, TargetTyped DEF Target
<1> QED BY <1>1, <1>2, <1>3, <1>4 DEF NotifyInv, RowsFit, SendsAt, Target

LEMMA InsertRowKeeps ==
  ASSUME NotifyAssumption, NotifyInv, NEW w \in Workers, InsertRow(w) PROVE NotifyInv'
<1> PICK k : k = Target(w) OBVIOUS
<1>1. TypeOK /\ WorkersFit /\ RowsFit BY DEF NotifyInv
<1>2. worker[w].stage = "insert" BY DEF InsertRow, At
<1>3. /\ worker[w] \in Working /\ Prepared(worker[w]) /\ Truthful(worker[w], delivered)
      /\ k \in Keys /\ RowFits(k, outbox[k], delivered, deadLetters)
      /\ worker[w].first = "select" /\ \A j \in Keys \ {k} : ~SendsAt(worker[w], j)
  BY <1>2, OnRow DEF TargetStages
<1>4. ~Sending(worker[w]) BY <1>2 DEF Sending, SendStages
<1>5. faults' \in 0..MaxFaults BY <1>1, FaultTyped DEF InsertRow
<1>6. CASE UNCHANGED outbox /\ (End(w) \/ (outbox[k] # NoRow /\ Judge(w, outbox[k])))
  <2>1. Moves(w) /\ WorkerFits(worker'[w], outbox, delivered) /\ ~Sending(worker'[w])
    <3>1. CASE End(w) BY <1>1, <3>1, Ended, IdleFits
    <3>2. CASE outbox[k] # NoRow /\ Judge(w, outbox[k])
      <4>1. outbox[k] \in Row BY <1>1, <1>3, <3>2 DEF TypeOK
      <4> QED BY <1>1, <1>2, <1>3, <3>2, <4>1, Judged DEF Truthful
    <3> QED BY <1>6, <3>1, <3>2
  <2> QED BY <1>1, <1>4, <1>5, <1>6, <2>1, QuietStep DEF InsertRow, Outside, SendsAt, TypeOK
<1> DEFINE Inserts == /\ outbox[k] = NoRow /\ outbox' = [outbox EXCEPT ![k] = NewRow(w)]
                      /\ Judge(w, NewRow(w))
<1>7. CASE Inserts
  <2> PICK row : row = NewRow(w) OBVIOUS
  <2>1. worker[w].content \in Contents BY <1>2, <1>3 DEF Prepared, TargetStages
  <2>2. row \in Row /\ row # NoRow /\ row.status = "pending" /\ row.attempt = 0
        /\ row.owner = "nobody"
    BY <2>1 DEF NewRow, Row, RowStatus, NoRow, NotifyAssumption
  <2>3. /\ outbox' \in [Keys -> Row \cup {NoRow}] /\ outbox'[k] = row
        /\ \A j \in Keys \ {k} : outbox'[j] = outbox[j]
    BY <1>1, <1>3, <1>7, <2>2 DEF TypeOK
  <2>4. ~Reported(delivered, k) BY <1>3, <1>7 DEF RowFits, Reported
  <2>5. RowFits(k, row, delivered, deadLetters)
    BY <2>2, <2>4 DEF RowFits, Reported, NotifyAssumption
  <2>6. Moves(w) /\ WorkerFits(worker'[w], outbox', delivered) /\ ~Sending(worker'[w])
    BY <1>1, <1>2, <1>3, <1>7, <2>2, <2>3, <2>5, Judged, ZenonT(30) DEF Truthful
  <2>7. \A v \in Workers : ~SendsAt(worker'[v], k)
    <3> SUFFICES ASSUME NEW v \in Workers \ {w}, SendsAt(worker[v], k) PROVE FALSE
      BY <2>6 DEF Moves, SendsAt
    <3>1. worker[v].stage \in TargetStages BY DEF SendsAt, Sending, SendStages, TargetStages
    <3>2. OwnText(worker[v], outbox) BY <1>1, <3>1, Busy DEF TargetStages
    <3> QED BY <1>7, <3>2 DEF OwnText, SendsAt
  <2>8. Sure(k, worker', outbox'[k], delivered) BY <2>4, <2>7, SureFresh
  <2>9. \A j \in Keys \ {k} : ~SendsAt(worker[w], j) /\ ~SendsAt(worker'[w], j)
    BY <1>4, <2>6 DEF SendsAt
  <2>10. UNCHANGED <<posted, application, delivered, unsure, deadLetters>>
    BY DEF InsertRow, Outside
  <2>11. deadLetters \subseteq Keys /\ unsure \subseteq Keys BY <1>1 DEF TypeOK
  <2>12. RowFits(k, outbox'[k], delivered, deadLetters') BY <2>3, <2>5, <2>10
  <2>13. (outbox'[k].status = "processing") = (outbox'[k].owner # "nobody") BY <2>2, <2>3
  <2> QED BY <1>3, <1>5, <1>7, <2>3, <2>6, <2>8, <2>9, <2>10, <2>11, <2>12, <2>13, RowStep
<1>8. \/ UNCHANGED outbox /\ (End(w) \/ (outbox[k] # NoRow /\ Judge(w, outbox[k])))
      \/ Inserts
  BY SMT DEF InsertRow
<1> QED
  <2> HIDE DEF Inserts
  <2> QED BY <1>6, <1>7, <1>8

LEMMA ClaimKeeps ==
  ASSUME NotifyAssumption, NotifyInv, NEW w \in Workers, Claim(w) PROVE NotifyInv'
<1> PICK k : k = Target(w) OBVIOUS
<1> PICK seen : seen = worker[w].seen OBVIOUS
<1>1. TypeOK /\ WorkersFit BY DEF NotifyInv
<1>2. worker[w].stage = "claim" BY DEF Claim, At
<1>3. /\ worker[w] \in Working /\ Prepared(worker[w]) /\ Truthful(worker[w], delivered)
      /\ k \in Keys /\ RowFits(k, outbox[k], delivered, deadLetters)
      /\ OwnText(worker[w], outbox) /\ ClaimIsSound(worker[w], outbox[k])
      /\ worker[w].first = "select" /\ \A j \in Keys \ {k} : ~SendsAt(worker[w], j)
  BY <1>2, OnRow DEF TargetStages
<1>4. ~Sending(worker[w]) BY <1>2 DEF Sending, SendStages
<1>5. faults' \in 0..MaxFaults BY <1>1, FaultTyped DEF Claim
<1>6. CASE UNCHANGED outbox /\ (End(w) \/ NextTurn(w, FALSE))
  <2>1. Moves(w) /\ WorkerFits(worker'[w], outbox, delivered) /\ ~Sending(worker'[w])
    <3>1. CASE End(w) BY <1>1, <3>1, Ended, IdleFits
    <3>2. CASE NextTurn(w, FALSE)
      BY <1>1, <1>2, <1>3, <3>2, TurnTaken DEF Truthful, TargetStages
    <3> QED BY <1>6, <3>1, <3>2
  <2> QED BY <1>1, <1>4, <1>5, <1>6, <2>1, QuietStep DEF Claim, Outside, SendsAt, TypeOK
<1> DEFINE Claims ==
      /\ Unmoved(outbox[Target(w)], worker[w].seen)
      /\ outbox' = [outbox EXCEPT ![Target(w)].status = "processing", ![Target(w)].owner = w,
                                  ![Target(w)].stale = FALSE,
                                  ![Target(w)].attempt = worker[w].seen.attempt + 1]
      /\ worker' = [worker EXCEPT ![w].stage = "send",
                                  ![w].attempt = worker[w].seen.attempt + 1]
<1>7. CASE Claims
  <2> PICK old : old = outbox[k] OBVIOUS
  <2> PICK row : row = [old EXCEPT !.status = "processing", !.owner = w, !.stale = FALSE,
                                   !.attempt = seen.attempt + 1] OBVIOUS
  <2> PICK h : h = worker[w] OBVIOUS
  <2> PICK next : next = [h EXCEPT !.stage = "send", !.attempt = seen.attempt + 1] OBVIOUS
  <2>1. old \in Row /\ old # NoRow /\ old.content = h.content
    BY <1>1, <1>2, <1>3 DEF TypeOK, OwnText, Target
  <2>2. /\ seen \in Row /\ seen.attempt < MaxAttempts /\ Claimable(seen)
        /\ old.attempt = seen.attempt /\ old.status = seen.status
        /\ seen.status = "processing" => old.stale
    BY <1>2, <1>3, <1>7 DEF ClaimIsSound, Unmoved, Attemptable
  <2>3. seen.attempt \in Nat /\ seen.attempt + 1 \in 0..MaxAttempts
    BY <2>2 DEF Row, NotifyAssumption
  <2>4. /\ row \in Row /\ row # NoRow /\ row.status = "processing" /\ row.owner = w /\ ~row.stale
        /\ row.content = old.content /\ row.attempt = old.attempt + 1
    BY <2>1, <2>2, <2>3, ZenonT(30) DEF Row, RowStatus, NoRow
  <2>5. outbox' = [outbox EXCEPT ![k] = row] /\ worker' = [worker EXCEPT ![w] = next]
    BY <1>1, <1>3, <1>7 DEF TypeOK
  <2>6. /\ outbox' \in [Keys -> Row \cup {NoRow}] /\ outbox'[k] = row
        /\ \A j \in Keys \ {k} : outbox'[j] = outbox[j]
    BY <1>1, <1>3, <2>4, <2>5 DEF TypeOK
  <2>7. next \in Working BY <1>3, <2>3 DEF Working, Stages
  <2>8. Moves(w) /\ worker'[w] = next BY <1>1, <2>5, <2>7 DEF Moves, TypeOK
  <2>9. /\ next.stage = "send" /\ next.todo = h.todo /\ next.first = h.first
        /\ next.content = h.content /\ next.results = h.results /\ next.provider = h.provider
    BY <1>3 DEF Working
  <2>10. WorkerFits(next, outbox', delivered)
    <3>1. Prepared(next) BY <1>2, <1>3, <2>9 DEF Prepared, TargetStages
    <3>2. next.todo[1] = k BY <2>9 DEF Target
    <3>3. OwnText(next, outbox')
      <4>1. outbox'[next.todo[1]] = row BY <2>6, <3>2
      <4>2. next.content = row.content BY <2>1, <2>4, <2>9
      <4> QED BY <2>4, <4>1, <4>2, Zenon DEF OwnText
    <3>4. Truthful(next, delivered) /\ ClaimIsSound(next, outbox'[next.todo[1]])
      BY <1>3, <2>9 DEF Truthful, ClaimIsSound
    <3> QED BY <3>1, <3>3, <3>4 DEF WorkerFits
  <2>11. WorkerFits(worker'[w], outbox', delivered) BY <2>8, <2>10
  <2>12. RowFits(k, row, delivered, deadLetters)
    BY <1>3, <2>1, <2>4 DEF RowFits
  <2>13. ASSUME k \notin unsure' PROVE Sure(k, worker', row, delivered)
    <3>1. Sure(k, worker, old, delivered)
      BY <1>3, <2>13 DEF NotifyInv, KeysSure, Claim, Outside
    <3>2. \A v \in Workers : ~SendsAt(worker[v], k)
      BY <2>2, <3>1 DEF Sure, SenderHolds, Claimable
    <3>3. ~Reported(delivered, k)
      BY <2>2, <3>1, <3>2 DEF Sure, SendIsTracked, Claimable
    <3>4. \A v \in Workers \ {w} : ~SendsAt(worker'[v], k)
      BY <2>8, <3>2 DEF Moves
    <3> QED BY <2>4, <3>3, <3>4 DEF Sure, SenderHolds, SendIsTracked, Once, Reported
  <2>14. \A j \in Keys \ {k} : ~SendsAt(worker[w], j) /\ ~SendsAt(worker'[w], j)
    BY <1>3, <2>8, <2>9 DEF SendsAt, Target
  <2>15. UNCHANGED <<posted, application, delivered, unsure, deadLetters>>
    BY DEF Claim, Outside
  <2>16. deadLetters \subseteq Keys /\ unsure \subseteq Keys BY <1>1 DEF TypeOK
  <2>17. old.attempt \in Nat BY <2>1 DEF Row, NotifyAssumption
  <2>18. (outbox'[k].status = "processing") = (outbox'[k].owner # "nobody")
    BY <2>4, <2>6 DEF NotifyAssumption
  <2>19. /\ outbox'[k] # NoRow /\ outbox'[k].content = outbox[k].content
         /\ outbox[k].attempt <= outbox'[k].attempt /\ outbox'[k].attempt # outbox[k].attempt
    BY <2>4, <2>6, <2>17
  <2>20. RowFits(k, outbox'[k], delivered, deadLetters')
         /\ (k \notin unsure' => Sure(k, worker', outbox'[k], delivered))
    BY <2>6, <2>12, <2>13, <2>15
  <2> HIDE DEF Claims
  <2> QED BY <1>3, <1>5, <2>6, <2>8, <2>11, <2>14, <2>15, <2>16, <2>18, <2>19, <2>20, RowStep
<1>8. \/ UNCHANGED outbox /\ (End(w) \/ NextTurn(w, FALSE))
      \/ Claims
  BY Zenon DEF Claim
<1> QED
  <2> HIDE DEF Claims
  <2> QED BY <1>6, <1>7, <1>8

\* The row as complete, quarantine or fail leave it.
LEMMA RowSettled ==
  ASSUME NotifyAssumption, TypeOK, NEW k \in Keys, outbox[k] # NoRow,
         NEW status \in {"sent", "quarantined", "failed", "retry"}, Settled(k, status)
  PROVE  /\ outbox' \in [Keys -> Row \cup {NoRow}]
         /\ \A j \in Keys \ {k} : outbox'[j] = outbox[j]
         /\ outbox'[k] # NoRow /\ outbox'[k].status = status /\ outbox'[k].owner = "nobody"
         /\ outbox'[k].content = outbox[k].content /\ outbox'[k].attempt = outbox[k].attempt
         /\ outbox[k].attempt \in Nat
<1> PICK old : old = outbox[k] OBVIOUS
<1> PICK row : row = [old EXCEPT !.status = status, !.owner = "nobody", !.stale = FALSE,
                                 !.due = FALSE] OBVIOUS
<1>1. old \in Row BY DEF TypeOK
<1>2. /\ row \in Row /\ row # NoRow /\ row.status = status /\ row.owner = "nobody"
      /\ row.content = old.content /\ row.attempt = old.attempt
  BY <1>1 DEF Row, RowStatus, NoRow
<1>3. outbox' = [outbox EXCEPT ![k] = row] BY DEF TypeOK, Settled
<1>4. outbox' \in [Keys -> Row \cup {NoRow}] /\ outbox'[k] = row
      /\ \A j \in Keys \ {k} : outbox'[j] = outbox[j]
  BY <1>2, <1>3 DEF TypeOK
<1>5. old.attempt \in Nat BY <1>1 DEF Row, NotifyAssumption
<1> QED BY <1>2, <1>4, <1>5

\* An invocation whose message is out, and what it holds.
LEMMA InFlight ==
  ASSUME NotifyInv, NEW w \in Workers, worker[w].stage \in {"complete", "quarantine", "fail"}
  PROVE  /\ worker[w] \in Working /\ Prepared(worker[w]) /\ Truthful(worker[w], delivered)
         /\ OwnText(worker[w], outbox) /\ Target(w) \in Keys /\ SendsAt(worker[w], Target(w))
         /\ RowFits(Target(w), outbox[Target(w)], delivered, deadLetters)
         /\ outbox[Target(w)] # NoRow /\ outbox[Target(w)].content = worker[w].content
         /\ \A j \in Keys \ {Target(w)} : ~SendsAt(worker[w], j)
         /\ worker[w].stage \in TargetStages
         /\ Target(w) \notin unsure => Sure(Target(w), worker, outbox[Target(w)], delivered)
         /\ deadLetters \subseteq Keys /\ unsure \subseteq Keys
<1>1. worker[w].stage \in TargetStages \ {"send"} BY DEF TargetStages
<1>2. SendsAt(worker[w], Target(w))
  BY <1>1, OnRow DEF SendsAt, Sending, SendStages, Target
<1>3. outbox[Target(w)] # NoRow /\ outbox[Target(w)].content = worker[w].content
  BY <1>1, <1>2, OnRow DEF OwnText, SendsAt, Target
<1> QED BY <1>1, <1>2, <1>3, OnRow DEF NotifyInv, KeysSure, TypeOK

\* Nothing moves on to the quarantine but the stage.
LEMMA QuarantineNext ==
  ASSUME NotifyInv, NEW w \in Workers, worker[w].stage = "complete",
         AfterLostCompletion(w),
         outbox' \in [Keys -> Row \cup {NoRow}], Grows(outbox, outbox')
  PROVE  /\ Moves(w) /\ worker'[w].stage = "quarantine"
         /\ WorkerFits(worker'[w], outbox', delivered) /\ SendsAt(worker'[w], Target(w))
         /\ \A j \in Keys \ {Target(w)} : ~SendsAt(worker'[w], j)
<1> PICK h : h = worker[w] OBVIOUS
<1> PICK next : next = [h EXCEPT !.stage = "quarantine"] OBVIOUS
<1>1. /\ h \in Working /\ Prepared(h) /\ Truthful(h, delivered) /\ OwnText(h, outbox)
      /\ SendsAt(h, Target(w)) /\ Target(w) \in Keys /\ outbox[Target(w)] # NoRow
      /\ outbox[Target(w)].content = h.content
  BY InFlight
<1>2. Moves(w) /\ worker'[w] = next BY <1>1, Gone DEF AfterLostCompletion, NotifyInv, Stages
<1>3. /\ next.stage = "quarantine" /\ next.todo = h.todo /\ next.first = h.first
      /\ next.content = h.content /\ next.results = h.results /\ next.provider = h.provider
  BY <1>1 DEF Working
<1>4. next.todo[1] = Target(w) BY <1>3 DEF Target
<1>5. Prepared(next) BY <1>1, <1>3 DEF Prepared, TargetStages
<1>6. OwnText(next, outbox')
  <2>1. outbox'[next.todo[1]] # NoRow /\ outbox'[next.todo[1]].content = h.content
    BY <1>1, <1>4 DEF Grows
  <2> QED BY <1>3, <2>1, Zenon DEF OwnText
<1>7. Truthful(next, delivered) /\ ClaimIsSound(next, outbox'[next.todo[1]])
  BY <1>1, <1>3 DEF Truthful, ClaimIsSound
<1>8. WorkerFits(next, outbox', delivered) BY <1>5, <1>6, <1>7 DEF WorkerFits
<1>9. SendsAt(next, Target(w)) BY <1>1, <1>3, <1>4 DEF SendsAt, Sending, SendStages
<1>10. \A j \in Keys \ {Target(w)} : ~SendsAt(next, j) BY <1>4 DEF SendsAt
<1>11. WorkerFits(worker'[w], outbox', delivered) /\ SendsAt(worker'[w], Target(w))
       /\ worker'[w].stage = "quarantine"
  BY <1>2, <1>3, <1>8, <1>9
<1> QED BY <1>2, <1>10, <1>11

LEMMA SameRows == ASSUME NotifyAssumption, TypeOK PROVE Grows(outbox, outbox)
<1> SUFFICES ASSUME NEW k \in Keys, outbox[k] # NoRow PROVE outbox[k].attempt <= outbox[k].attempt
  BY DEF Grows
<1>1. outbox[k] \in Row BY DEF TypeOK
<1> QED BY <1>1 DEF Row, NotifyAssumption

LEMMA SettledGrows ==
  ASSUME NotifyAssumption, TypeOK, NEW k \in Keys, outbox[k] # NoRow,
         NEW status \in {"sent", "quarantined", "failed", "retry"}, Settled(k, status)
  PROVE  Grows(outbox, outbox')
<1> SUFFICES ASSUME NEW j \in Keys, outbox[j] # NoRow
    PROVE /\ outbox'[j] # NoRow /\ outbox'[j].content = outbox[j].content
          /\ outbox[j].attempt <= outbox'[j].attempt
          /\ outbox'[j].status = "processing" /\ outbox'[j].attempt = outbox[j].attempt =>
               /\ outbox[j].status = "processing" /\ outbox'[j].owner = outbox[j].owner
               /\ outbox[j].stale => outbox'[j].stale
  BY DEF Grows
<1>1. CASE j = k BY <1>1, RowSettled
<1>2. CASE j # k
  <2>1. outbox'[j] = outbox[j] BY <1>2, RowSettled
  <2>2. Grows(outbox, outbox) BY SameRows
  <2> QED BY <2>1, <2>2 DEF Grows
<1> QED BY <1>1, <1>2

\* The holder's turn ends with the row it settles.
LEMMA SettleStep ==
  ASSUME NotifyAssumption, NotifyInv, NEW w \in Workers, NEW k, k = Target(w),
         worker[w].stage \in {"complete", "quarantine", "fail"}, Holds(w),
         NEW status \in {"sent", "quarantined", "failed", "retry"}, Settled(k, status),
         NEW ok \in BOOLEAN, NextTurn(w, ok), ok => Reported(delivered, k),
         RowFits(k, outbox'[k], delivered, deadLetters'),
         worker[w].stage = "fail" \/ status \in {"sent", "quarantined"},
         UNCHANGED <<posted, application, delivered, unsure>>,
         deadLetters \subseteq deadLetters', deadLetters' \subseteq Keys, faults' \in 0..MaxFaults
  PROVE  NotifyInv'
<1>1. TypeOK /\ WorkersFit BY DEF NotifyInv
<1>2. /\ worker[w] \in Working /\ Prepared(worker[w]) /\ Truthful(worker[w], delivered)
      /\ k \in Keys /\ SendsAt(worker[w], k) /\ outbox[k] # NoRow
      /\ \A j \in Keys \ {k} : ~SendsAt(worker[w], j)
      /\ worker[w].stage \in TargetStages /\ unsure \subseteq Keys
      /\ k \notin unsure => Sure(k, worker, outbox[k], delivered)
  BY InFlight
<1>3. Moves(w) /\ WorkerFits(worker'[w], outbox', delivered) /\ ~Sending(worker'[w])
  BY <1>1, <1>2, TurnTaken DEF Truthful
<1>4. /\ outbox' \in [Keys -> Row \cup {NoRow}]
      /\ \A j \in Keys \ {k} : outbox'[j] = outbox[j]
      /\ outbox'[k] # NoRow /\ outbox'[k].status = status /\ outbox'[k].owner = "nobody"
      /\ outbox'[k].content = outbox[k].content /\ outbox'[k].attempt = outbox[k].attempt
      /\ outbox[k].attempt \in Nat
  BY <1>1, <1>2, RowSettled
<1>5. ASSUME k \notin unsure PROVE Sure(k, worker', outbox'[k], delivered)
  <2>1. Sure(k, worker, outbox[k], delivered) BY <1>2, <1>5
  <2>2. outbox[k].status = "processing" BY DEF Holds
  <2>3. /\ \A v \in Workers \ {w} : ~SendsAt(worker[v], k)
        /\ worker[w].stage \in {"send", "fail"} => ~Reported(delivered, k)
    BY <1>2, <2>1, <2>2, SoleSender
  <2>4. \A v \in Workers : ~SendsAt(worker'[v], k)
    BY <1>3, <2>3 DEF Moves, SendsAt
  <2>5. CASE worker[w].stage = "fail" BY <2>3, <2>4, <2>5, SureFresh
  <2>6. CASE status \in {"sent", "quarantined"}
    <3>1. SenderHolds(k, worker', outbox'[k]) BY <2>4 DEF SenderHolds
    <3>2. SendIsTracked(k, worker', outbox'[k], delivered) BY <1>4, <2>6 DEF SendIsTracked
    <3>3. Once(k, delivered) BY <2>1 DEF Sure
    <3> QED BY <3>1, <3>2, <3>3 DEF Sure
  <2> QED BY <2>5, <2>6
<1>6. \A j \in Keys \ {k} : ~SendsAt(worker[w], j) /\ ~SendsAt(worker'[w], j)
  BY <1>2, <1>3 DEF SendsAt
<1>7. (outbox'[k].status = "processing") = (outbox'[k].owner # "nobody")
      /\ outbox'[k].status # "processing" /\ outbox[k].attempt <= outbox'[k].attempt
  BY <1>4
<1> QED BY <1>2, <1>3, <1>4, <1>5, <1>6, <1>7, RowStep

LEMMA CompleteKeeps ==
  ASSUME NotifyAssumption, NotifyInv, NEW w \in Workers, Complete(w) PROVE NotifyInv'
<1> PICK k : k = Target(w) OBVIOUS
<1>1. TypeOK /\ WorkersFit BY DEF NotifyInv
<1>2. worker[w].stage = "complete" BY DEF Complete, At
<1>3. /\ Truthful(worker[w], delivered) /\ k \in Keys /\ SendsAt(worker[w], k)
      /\ RowFits(k, outbox[k], delivered, deadLetters) /\ outbox[k] # NoRow
      /\ \A j \in Keys \ {k} : ~SendsAt(worker[w], j)
      /\ k \notin unsure => Sure(k, worker, outbox[k], delivered)
      /\ deadLetters \subseteq Keys /\ unsure \subseteq Keys
  BY <1>2, InFlight
<1>4. faults' \in 0..MaxFaults BY <1>1, FaultTyped DEF Complete
<1>5. UNCHANGED <<posted, application, delivered, unsure, deadLetters>>
  BY DEF Complete, Outside
<1>6. Reported(delivered, k) BY <1>2 , <1>3 DEF Truthful, Target
<1>7. ASSUME Settled(k, "sent")
      PROVE /\ RowFits(k, outbox'[k], delivered, deadLetters')
            /\ outbox' \in [Keys -> Row \cup {NoRow}] /\ outbox'[k].status = "sent"
            /\ \A j \in Keys \ {k} : outbox'[j] = outbox[j]
            /\ outbox'[k] # NoRow /\ outbox'[k].content = outbox[k].content
            /\ outbox[k].attempt <= outbox'[k].attempt
            /\ (outbox'[k].status = "processing") = (outbox'[k].owner # "nobody")
            /\ Grows(outbox, outbox')
  <2>1. /\ outbox' \in [Keys -> Row \cup {NoRow}]
        /\ \A j \in Keys \ {k} : outbox'[j] = outbox[j]
        /\ outbox'[k] # NoRow /\ outbox'[k].status = "sent" /\ outbox'[k].owner = "nobody"
        /\ outbox'[k].content = outbox[k].content /\ outbox'[k].attempt = outbox[k].attempt
        /\ outbox[k].attempt \in Nat
    BY <1>1, <1>3, <1>7, RowSettled
  <2>2. Grows(outbox, outbox') BY <1>1, <1>3, <1>7, SettledGrows
  <2>3. RowFits(k, outbox'[k], delivered, deadLetters')
    BY <1>3, <1>6, <2>1 DEF RowFits
  <2> QED BY <2>1, <2>2, <2>3
<1>8. ASSUME Holds(w), Settled(k, "sent"), NextTurn(w, TRUE) PROVE NotifyInv'
  BY <1>2, <1>3, <1>4, <1>5, <1>6, <1>7, <1>8, SettleStep
<1>9. ASSUME AfterLostCompletion(w), UNCHANGED outbox PROVE NotifyInv'
  <2>1. Grows(outbox, outbox') /\ outbox' \in [Keys -> Row \cup {NoRow}]
    BY <1>1, <1>9, SameRows DEF TypeOK
  <2>2. /\ Moves(w) /\ worker'[w].stage = "quarantine"
        /\ WorkerFits(worker'[w], outbox', delivered) /\ SendsAt(worker'[w], k)
        /\ \A j \in Keys \ {k} : ~SendsAt(worker'[w], j)
    BY <1>2, <1>9, <2>1, QuarantineNext
  <2>3. ASSUME k \notin unsure PROVE Sure(k, worker', outbox[k], delivered)
    <3>1. Sure(k, worker, outbox[k], delivered) BY <1>3, <2>3
    <3>2. /\ outbox[k].status = "processing" /\ outbox[k].owner = w /\ ~outbox[k].stale
          /\ \A v \in Workers \ {w} : ~SendsAt(worker[v], k)
      BY <1>2, <1>3, <3>1, SoleSender
    <3>3. \A v \in Workers \ {w} : ~SendsAt(worker'[v], k)
      BY <2>2, <3>2 DEF Moves
    <3>4. SenderHolds(k, worker', outbox[k]) BY <3>2, <3>3 DEF SenderHolds
    <3>5. SendIsTracked(k, worker', outbox[k], delivered) BY <2>2, <3>2 DEF SendIsTracked
    <3>6. Once(k, delivered) BY <3>1 DEF Sure
    <3> QED BY <3>4, <3>5, <3>6 DEF Sure
  <2>4. outbox[k] \in Row /\ outbox[k].attempt \in Nat
        /\ (outbox[k].status = "processing") = (outbox[k].owner # "nobody")
    BY <1>1, <1>3 DEF TypeOK, Row, NotifyAssumption
  <2>5. outbox'[k] = outbox[k] /\ \A j \in Keys \ {k} : outbox'[j] = outbox[j] BY <1>9
  <2>6. outbox[k].attempt <= outbox'[k].attempt BY <2>4, <2>5
  <2> QED BY <1>3, <1>4, <1>5, <2>1, <2>2, <2>3, <2>4, <2>5, <2>6, RowStep
<1>10. ASSUME Holds(w), Settled(k, "sent"), AfterLostCompletion(w) PROVE NotifyInv'
  <2>1. /\ Moves(w) /\ worker'[w].stage = "quarantine"
        /\ WorkerFits(worker'[w], outbox', delivered) /\ SendsAt(worker'[w], k)
        /\ \A j \in Keys \ {k} : ~SendsAt(worker'[w], j)
    BY <1>2, <1>7, <1>10, QuarantineNext
  <2>2. ASSUME k \notin unsure PROVE Sure(k, worker', outbox'[k], delivered)
    <3>1. Sure(k, worker, outbox[k], delivered) BY <1>3, <2>2
    <3>2. \A v \in Workers \ {w} : ~SendsAt(worker[v], k)
      BY <1>2, <1>3, <3>1, SoleSender
    <3>3. \A v \in Workers \ {w} : ~SendsAt(worker'[v], k)
      BY <2>1, <3>2 DEF Moves
    <3>4. outbox'[k].status = "sent" BY <1>7, <1>10
    <3>5. SenderHolds(k, worker', outbox'[k]) BY <2>1, <3>3, <3>4 DEF SenderHolds
    <3>6. SendIsTracked(k, worker', outbox'[k], delivered) BY <3>4 DEF SendIsTracked
    <3>7. Once(k, delivered) BY <3>1 DEF Sure
    <3> QED BY <3>5, <3>6, <3>7 DEF Sure
  <2> QED BY <1>3, <1>4, <1>5, <1>7, <1>10, <2>1, <2>2, RowStep
<1> QED BY <1>8, <1>9, <1>10 DEF Complete

LEMMA QuarantineRowKeeps ==
  ASSUME NotifyAssumption, NotifyInv, NEW w \in Workers, QuarantineRow(w) PROVE NotifyInv'
<1> PICK k : k = Target(w) OBVIOUS
<1>1. TypeOK /\ WorkersFit BY DEF NotifyInv
<1>2. worker[w].stage = "quarantine" /\ NextTurn(w, FALSE) BY DEF QuarantineRow, At
<1>3. /\ worker[w] \in Working /\ Prepared(worker[w]) /\ Truthful(worker[w], delivered)
      /\ k \in Keys /\ SendsAt(worker[w], k)
      /\ RowFits(k, outbox[k], delivered, deadLetters) /\ outbox[k] # NoRow
      /\ \A j \in Keys \ {k} : ~SendsAt(worker[w], j)
      /\ worker[w].stage \in TargetStages
      /\ k \notin unsure => Sure(k, worker, outbox[k], delivered)
      /\ deadLetters \subseteq Keys /\ unsure \subseteq Keys
  BY <1>2, InFlight
<1>4. faults' \in 0..MaxFaults BY <1>1, FaultTyped DEF QuarantineRow
<1>5. UNCHANGED <<posted, application, delivered, deadLetters>> BY DEF QuarantineRow
<1>6. ASSUME Holds(w), Settled(k, "quarantined"), UNCHANGED unsure PROVE NotifyInv'
  <2>1. /\ outbox'[k] # NoRow /\ outbox'[k].status = "quarantined"
        /\ outbox'[k].content = outbox[k].content
    BY <1>1, <1>3, <1>6, RowSettled
  <2>2. RowFits(k, outbox'[k], delivered, deadLetters') BY <1>3, <1>5, <2>1 DEF RowFits
  <2> QED BY <1>2, <1>3, <1>4, <1>5, <1>6, <2>2, SettleStep
<1>7. ASSUME ~Holds(w), UNCHANGED <<outbox, unsure>> PROVE NotifyInv'
  <2>1. Moves(w) /\ WorkerFits(worker'[w], outbox, delivered) /\ ~Sending(worker'[w])
    BY <1>1, <1>2, <1>3, TurnTaken DEF Truthful
  <2>2. ASSUME k \notin unsure PROVE Sure(k, worker', outbox[k], delivered)
    <3>1. Sure(k, worker, outbox[k], delivered) BY <1>3, <2>2
    <3>2. outbox[k].status = "sent"
      BY <1>3, <1>7, <3>1 DEF Sure, SenderHolds, Holds
    <3>3. SenderHolds(k, worker', outbox[k])
      <4> SUFFICES ASSUME NEW v \in Workers, SendsAt(worker'[v], k)
                   PROVE  worker'[v].stage = "quarantine"
        BY <3>2 DEF SenderHolds
      <4>1. v # w /\ worker'[v] = worker[v] BY <2>1 DEF Moves, SendsAt
      <4> QED BY <3>1, <3>2, <4>1 DEF Sure, SenderHolds
    <3>4. SendIsTracked(k, worker', outbox[k], delivered) BY <3>2 DEF SendIsTracked
    <3>5. Once(k, delivered) BY <3>1 DEF Sure
    <3> QED BY <3>3, <3>4, <3>5 DEF Sure
  <2>3. /\ outbox[k] \in Row /\ outbox[k].attempt \in Nat
        /\ (outbox[k].status = "processing") = (outbox[k].owner # "nobody")
        /\ outbox' \in [Keys -> Row \cup {NoRow}]
    BY <1>1, <1>3, <1>7 DEF TypeOK, Row, NotifyAssumption
  <2>4. outbox'[k] = outbox[k] /\ \A j \in Keys \ {k} : outbox'[j] = outbox[j] BY <1>7
  <2>5. outbox[k].attempt <= outbox'[k].attempt BY <2>3, <2>4
  <2>6. \A j \in Keys \ {k} : ~SendsAt(worker[w], j) /\ ~SendsAt(worker'[w], j)
    BY <1>3, <2>1 DEF SendsAt
  <2>7. outbox' = outbox /\ unsure' = unsure BY <1>7
  <2> QED BY <1>3, <1>4, <1>5, <2>1, <2>2, <2>3, <2>4, <2>5, <2>6, <2>7, RowStep
<1>8. ASSUME UNCHANGED outbox, unsure' = unsure \cup {k} PROVE NotifyInv'
  <2>1. Moves(w) /\ WorkerFits(worker'[w], outbox, delivered) /\ ~Sending(worker'[w])
    BY <1>1, <1>2, <1>3, TurnTaken DEF Truthful
  <2> QED BY <1>3, <1>4, <1>5, <1>8, <2>1, QuietStep
<1>9. \/ Holds(w) /\ Settled(Target(w), "quarantined") /\ UNCHANGED unsure
      \/ ~Holds(w) /\ UNCHANGED <<outbox, unsure>>
      \/ UNCHANGED outbox /\ unsure' = unsure \cup {Target(w)}
  BY DEF QuarantineRow
<1> QED BY <1>6, <1>7, <1>8, <1>9

LEMMA FailKeeps ==
  ASSUME NotifyAssumption, NotifyInv, NEW w \in Workers, Fail(w) PROVE NotifyInv'
<1> PICK k : k = Target(w) OBVIOUS
<1>1. TypeOK /\ WorkersFit BY DEF NotifyInv
<1>2. worker[w].stage = "fail" /\ NextTurn(w, FALSE) BY DEF Fail, At
<1>3. /\ worker[w] \in Working /\ Prepared(worker[w]) /\ Truthful(worker[w], delivered)
      /\ k \in Keys /\ RowFits(k, outbox[k], delivered, deadLetters) /\ outbox[k] # NoRow
      /\ \A j \in Keys \ {k} : ~SendsAt(worker[w], j)
      /\ worker[w].stage \in TargetStages
      /\ deadLetters \subseteq Keys /\ unsure \subseteq Keys
  BY <1>2, InFlight
<1>4. faults' \in 0..MaxFaults BY <1>1, FaultTyped DEF Fail
<1>5. UNCHANGED <<posted, application, delivered, unsure>> BY DEF Fail
<1>6. ASSUME Holds(w), Settled(k, IF Exhausted(outbox[k]) THEN "failed" ELSE "retry"),
             deadLetters' = deadLetters \cup {x \in {k} : Exhausted(outbox[x])}
      PROVE NotifyInv'
  <2> PICK status : status = IF Exhausted(outbox[k]) THEN "failed" ELSE "retry" OBVIOUS
  <2>1. status \in {"failed", "retry"} /\ Settled(k, status) BY <1>6
  <2>2. /\ outbox'[k] # NoRow /\ outbox'[k].status = status
        /\ outbox'[k].content = outbox[k].content /\ outbox'[k].attempt = outbox[k].attempt
        /\ outbox[k].attempt \in Nat
    BY <1>1, <1>3, <2>1, RowSettled
  <2>3. deadLetters \subseteq deadLetters' /\ deadLetters' \subseteq Keys
        /\ (Exhausted(outbox[k]) => k \in deadLetters')
    BY <1>3, <1>6
  <2>4. RowFits(k, outbox'[k], delivered, deadLetters')
    <3>1. status = "retry" => outbox[k].attempt < MaxAttempts
      BY <2>2 DEF Exhausted, NotifyAssumption
    <3>2. status = "failed" => k \in deadLetters' BY <2>3
    <3> QED BY <1>3, <1>5, <2>1, <2>2, <3>1, <3>2 DEF RowFits
  <2> QED BY <1>2, <1>3, <1>4, <1>5, <1>6, <2>1, <2>3, <2>4, SettleStep
<1>7. ASSUME UNCHANGED <<outbox, deadLetters>> PROVE NotifyInv'
  <2>1. Moves(w) /\ WorkerFits(worker'[w], outbox, delivered) /\ ~Sending(worker'[w])
    BY <1>1, <1>2, <1>3, TurnTaken DEF Truthful
  <2> QED BY <1>2, <1>3, <1>4, <1>5, <1>7, <2>1, QuietStep
<1>8. \/ /\ Holds(w)
         /\ Settled(Target(w), IF Exhausted(outbox[Target(w)]) THEN "failed" ELSE "retry")
         /\ deadLetters' = deadLetters \cup {x \in {Target(w)} : Exhausted(outbox[x])}
      \/ UNCHANGED <<outbox, deadLetters>>
  BY Zenon DEF Fail
<1> QED BY <1>6, <1>7, <1>8
-----------------------------------------------------------------------------
(* The provider's word.                                                      *)

LEMMA AfterSendMoves ==
  ASSUME TypeOK, WorkersFit, NEW w \in Workers, worker[w].stage = "send",
         NEW told, delivered \subseteq told, NEW ok \in BOOLEAN,
         ok => Reported(told, Target(w)), AfterSend(w, ok)
  PROVE  /\ Moves(w) /\ WorkerFits(worker'[w], outbox, told)
         /\ worker[w].first = "send" => ~Sending(worker'[w])
         /\ worker[w].first = "select" =>
              /\ SendsAt(worker'[w], Target(w))
              /\ \A j \in Keys \ {Target(w)} : ~SendsAt(worker'[w], j)
              /\ ok => worker'[w].stage = "complete"
              /\ ~ok => worker'[w].stage \in {"send", "fail"}
<1> PICK h : h = worker[w] OBVIOUS
<1>1. /\ h \in Working /\ Prepared(h) /\ OwnText(h, outbox) /\ Truthful(h, delivered)
      /\ h.stage \in TargetStages /\ h.first \in {"select", "send"} /\ h.stage = "send"
  BY Busy DEF TargetStages, Working
<1>2. Truthful(h, told) BY <1>1 DEF Truthful, Reported
<1>3. CASE ~ok /\ h.provider = "click2api"
  <2> PICK next : next = [h EXCEPT !.provider = "msg91"] OBVIOUS
  <2>1. next \in Working BY <1>1 DEF Working, Providers
  <2>2. worker' = [worker EXCEPT ![w] = next] BY <1>3 DEF AfterSend, TypeOK
  <2>3. Moves(w) /\ worker'[w] = next BY <2>1, <2>2 DEF Moves, TypeOK
  <2>4. /\ next.stage = "send" /\ next.todo = h.todo /\ next.first = h.first
        /\ next.content = h.content /\ next.results = h.results /\ next.provider = "msg91"
    BY <1>1 DEF Working
  <2>5. next.todo[1] = Target(w) /\ h.todo[1] = Target(w) BY <2>4 DEF Target
  <2>6. Prepared(next) BY <1>1, <2>4 DEF Prepared
  <2>7. OwnText(next, outbox)
    BY <1>1, <2>4, <2>5, Zenon DEF OwnText, Sending
  <2>8. Truthful(next, told) /\ ClaimIsSound(next, outbox[next.todo[1]])
    BY <1>2, <2>4 DEF Truthful, ClaimIsSound
  <2>9. WorkerFits(next, outbox, told) BY <2>6, <2>7, <2>8 DEF WorkerFits
  <2>10. next.first = "send" => ~Sending(next) BY DEF Sending
  <2>11. next.first = "select" => /\ SendsAt(next, Target(w))
                                  /\ \A j \in Keys \ {Target(w)} : ~SendsAt(next, j)
    BY <2>4, <2>5 DEF SendsAt, Sending, SendStages
  <2>12. WorkerFits(worker'[w], outbox, told) BY <2>3, <2>9
  <2>13. h.first = "send" => ~Sending(worker'[w]) BY <2>3, <2>4, <2>10
  <2>14. h.first = "select" => /\ SendsAt(worker'[w], Target(w))
                               /\ \A j \in Keys \ {Target(w)} : ~SendsAt(worker'[w], j)
                               /\ worker'[w].stage = "send"
    BY <2>3, <2>4, <2>11
  <2> QED BY <1>3, <2>3, <2>12, <2>13, <2>14
<1>4. CASE h.first = "send" /\ NextTurn(w, ok)
  <2>1. Moves(w) /\ WorkerFits(worker'[w], outbox, told) /\ ~Sending(worker'[w])
    BY <1>1, <1>2, <1>4, TurnTaken DEF Truthful
  <2> QED BY <1>4, <2>1
<1>5. CASE h.first = "select" /\ Goto(w, IF ok THEN "complete" ELSE "fail")
  <2> PICK s : s = IF ok THEN "complete" ELSE "fail" OBVIOUS
  <2> PICK next : next = [h EXCEPT !.stage = s] OBVIOUS
  <2>0. s \in {"complete", "fail"} /\ s \in Stages BY DEF Stages
  <2>1. Moves(w) /\ worker'[w] = next BY <1>1, <1>5, <2>0, Gone
  <2>2. /\ next.stage = s /\ next.todo = h.todo /\ next.first = h.first
        /\ next.content = h.content /\ next.results = h.results /\ next.provider = h.provider
    BY <1>1 DEF Working
  <2>3. next.todo[1] = Target(w) /\ h.todo[1] = Target(w) BY <2>2 DEF Target
  <2>4. Prepared(next) BY <1>1, <1>5, <2>0, <2>2 DEF Prepared, TargetStages
  <2>5. Sending(h) /\ Sending(next) BY <1>1, <1>5, <2>0, <2>2 DEF Sending, SendStages
  <2>6. OwnText(next, outbox)
    BY <1>1, <2>2, <2>3, <2>5, Zenon DEF OwnText
  <2>7. Truthful(next, told)
    BY <1>2, <2>2, <2>3 DEF Truthful
  <2>8. ClaimIsSound(next, outbox[next.todo[1]]) BY <2>0, <2>2 DEF ClaimIsSound
  <2>9. WorkerFits(next, outbox, told) BY <2>4, <2>6, <2>7, <2>8 DEF WorkerFits
  <2>10. SendsAt(next, Target(w)) /\ \A j \in Keys \ {Target(w)} : ~SendsAt(next, j)
    BY <2>3, <2>5 DEF SendsAt
  <2>11. /\ WorkerFits(worker'[w], outbox, told) /\ SendsAt(worker'[w], Target(w))
         /\ \A j \in Keys \ {Target(w)} : ~SendsAt(worker'[w], j)
         /\ worker'[w].stage = s
    BY <2>1, <2>2, <2>9, <2>10
  <2> QED BY <1>5, <2>1, <2>11
<1> QED BY <1>1, <1>3, <1>4, <1>5 DEF AfterSend

\* w moves and what was sent is about t.
LEMMA SendStep ==
  ASSUME NotifyAssumption, NotifyInv, NEW w \in Workers, Moves(w), NEW t,
         WorkerFits(worker'[w], outbox, delivered'),
         delivered \subseteq delivered', delivered' \subseteq Delivery,
         \A d \in delivered' \ delivered : d.target = t,
         \A j \in Keys \ {t} : ~SendsAt(worker[w], j) /\ ~SendsAt(worker'[w], j),
         t \in Keys => RowFits(t, outbox[t], delivered', deadLetters),
         t \in Keys \ unsure' => Sure(t, worker', outbox[t], delivered'),
         UNCHANGED <<posted, application, outbox, deadLetters>>,
         unsure \subseteq unsure', unsure' \subseteq Keys, faults' \in 0..MaxFaults
  PROVE  NotifyInv'
<1>1. TypeOK' BY DEF NotifyInv, TypeOK, Moves
<1>2. WorkersFit'
  <2>1. Grows(outbox, outbox) BY SameRows DEF NotifyInv
  <2> QED BY <2>1, OthersFit DEF NotifyInv, TypeOK
<1>3. \A j \in Keys \ {t} : Reported(delivered', j) => Reported(delivered, j)
  BY DEF Reported
<1>4. RowsFit'
  <2>1. SUFFICES ASSUME NEW j \in Keys \ {t} PROVE RowFits(j, outbox[j], delivered', deadLetters)
    BY DEF RowsFit
  <2>2. RowFits(j, outbox[j], delivered, deadLetters) BY DEF NotifyInv, RowsFit
  <2> QED BY <2>2 DEF RowFits, Reported
<1>5. KeysSure'
  <2>1. SUFFICES ASSUME NEW j \in Keys \ unsure', j # t
                 PROVE Sure(j, worker', outbox[j], delivered')
    BY DEF KeysSure
  <2>2. Sure(j, worker, outbox[j], delivered) BY DEF NotifyInv, KeysSure
  <2>3. Sure(j, worker', outbox[j], delivered) BY <2>1, <2>2, StaysSure DEF Moves
  <2>4. SendIsTracked(j, worker', outbox[j], delivered')
    BY <1>3, <2>1, <2>3 DEF Sure, SendIsTracked
  <2>5. Once(j, delivered') BY <2>1, <2>3 DEF Sure, Once
  <2> QED BY <2>3, <2>4, <2>5 DEF Sure
<1> QED BY <1>1, <1>2, <1>4, <1>5 DEF NotifyInv

LEMMA SendKeeps ==
  ASSUME NotifyAssumption, NotifyInv, NEW w \in Workers, Send(w) PROVE NotifyInv'
<1> PICK t : t = Target(w) OBVIOUS
<1> PICK h : h = worker[w] OBVIOUS
<1> PICK sent : sent = Accepted(w) OBVIOUS
<1>1. TypeOK /\ WorkersFit /\ h.stage = "send" BY DEF NotifyInv, Send, At
<1>2. /\ h \in Working /\ Prepared(h) /\ OwnText(h, outbox) /\ h.stage \in TargetStages
      /\ h.first \in {"select", "send"} /\ h.todo[1] = t
  BY <1>1, Busy DEF TargetStages, Working, Target
<1>3. /\ t \in Targets
      /\ h.first = "select" => t \in Keys
      /\ h.first = "send" => t \notin Keys
  BY <1>2, TargetTyped, NoLabelIsKey
<1>4. sent \in Delivery /\ sent.target = t /\ sent.content = h.content
  BY <1>2, <1>3, TargetTyped DEF Accepted, Delivery, Working, Prepared, Target
<1>5. faults' \in 0..MaxFaults BY <1>1, FaultTyped DEF Send
<1>6. PICK ok \in BOOLEAN :
        /\ AfterSend(w, ok)
        /\ \/ ok /\ delivered' = delivered \cup {sent} /\ unsure' = unsure
           \/ ~ok /\ delivered' = delivered /\ unsure' = unsure
           \/ ~ok /\ delivered' = delivered \cup {sent} /\ unsure' = unsure \cup ({t} \cap Keys)
  BY DEF Send
<1>7. /\ delivered \subseteq delivered' /\ delivered' \subseteq Delivery
      /\ \A d \in delivered' \ delivered : d = sent
      /\ unsure \subseteq unsure' /\ unsure' \subseteq Keys
  BY <1>1, <1>4, <1>6 DEF TypeOK
<1>8. ok => Reported(delivered', t) BY <1>4, <1>6 DEF Reported
<1>9. /\ Moves(w) /\ WorkerFits(worker'[w], outbox, delivered')
      /\ h.first = "send" => ~Sending(worker'[w])
      /\ h.first = "select" =>
           /\ SendsAt(worker'[w], t) /\ \A j \in Keys \ {t} : ~SendsAt(worker'[w], j)
           /\ ok => worker'[w].stage = "complete"
           /\ ~ok => worker'[w].stage \in {"send", "fail"}
  BY <1>1, <1>6, <1>7, <1>8, AfterSendMoves
<1>10. \A j \in Keys \ {t} : ~SendsAt(worker[w], j) /\ ~SendsAt(worker'[w], j)
  BY <1>2, <1>9 DEF SendsAt
<1>11. ASSUME t \in Keys PROVE RowFits(t, outbox[t], delivered', deadLetters)
  <2>1. RowFits(t, outbox[t], delivered, deadLetters) BY <1>11 DEF NotifyInv, RowsFit
  <2>2. outbox[t] # NoRow /\ outbox[t].content = h.content
    BY <1>1, <1>2, <1>3, <1>11 DEF OwnText, Sending, SendStages
  <2>3. \A d \in delivered' : d.target = t => outbox[t] # NoRow /\ d.content = outbox[t].content
    BY <1>4, <1>7, <2>1, <2>2 DEF RowFits
  <2> QED BY <1>7, <2>1, <2>3 DEF RowFits, Reported
<1>12. ASSUME t \in Keys \ unsure' PROVE Sure(t, worker', outbox[t], delivered')
  <2>1. h.first = "select" /\ SendsAt(worker[w], t)
    BY <1>1, <1>2, <1>3, <1>12 DEF SendsAt, Sending, SendStages
  <2>2. Sure(t, worker, outbox[t], delivered) BY <1>7, <1>12 DEF NotifyInv, KeysSure
  <2>3. /\ outbox[t].status = "processing" /\ outbox[t].owner = w /\ ~outbox[t].stale
        /\ \A v \in Workers \ {w} : ~SendsAt(worker[v], t)
        /\ ~Reported(delivered, t)
    BY <1>1, <2>1, <2>2, SoleSender
  <2>4. SenderHolds(t, worker', outbox[t])
    <3>1. \A v \in Workers \ {w} : ~SendsAt(worker'[v], t) BY <1>9, <2>3 DEF Moves
    <3> QED BY <2>3, <3>1 DEF SenderHolds
  <2>5. SendIsTracked(t, worker', outbox[t], delivered')
    <3>1. CASE ok BY <1>9, <2>1, <2>3, <3>1 DEF SendIsTracked
    <3>2. CASE ~ok
      <4>1. delivered' = delivered BY <1>6, <1>12, <3>2
      <4> QED BY <2>3, <4>1 DEF SendIsTracked
    <3> QED BY <3>1, <3>2
  <2>6. Once(t, delivered') BY <1>7, <2>3 DEF Once, Reported
  <2> QED BY <2>4, <2>5, <2>6 DEF Sure
<1>13. UNCHANGED <<posted, application, outbox, deadLetters>> BY DEF Send
<1>14. \A d \in delivered' \ delivered : d.target = t BY <1>4, <1>7
<1> QED BY <1>5, <1>7, <1>9, <1>10, <1>11, <1>12, <1>13, <1>14, SendStep
-----------------------------------------------------------------------------
(* Time, and the application's own life.                                     *)

\* One row ages: nobody moves.
LEMMA RowAges ==
  ASSUME NotifyAssumption, NotifyInv, NEW k \in Keys, NEW row \in Row, outbox[k] # NoRow,
         row.status = outbox[k].status, row.content = outbox[k].content,
         row.attempt = outbox[k].attempt, row.owner = outbox[k].owner,
         outbox[k].stale => row.stale,
         outbox' = [outbox EXCEPT ![k] = row],
         outbox[k].status \in {"processing", "retry"},
         k \notin unsure' => \A v \in Workers : ~SendsAt(worker[v], k),
         UNCHANGED <<posted, application, worker, delivered, deadLetters>>,
         unsure \subseteq unsure', unsure' \subseteq Keys, faults' \in 0..MaxFaults
  PROVE  NotifyInv'
<1>1. TypeOK /\ "nobody" \notin Workers BY DEF NotifyInv, NotifyAssumption
<1>2. Moves("nobody") BY <1>1 DEF Moves, TypeOK
<1>3. /\ outbox' \in [Keys -> Row \cup {NoRow}] /\ outbox'[k] = row
      /\ \A j \in Keys \ {k} : outbox'[j] = outbox[j]
  BY <1>1 DEF TypeOK
<1>4. row # NoRow /\ row.attempt \in Nat BY DEF Row, NoRow, RowStatus, NotifyAssumption
<1>5. (row.status = "processing") = (row.owner # "nobody") BY <1>1 DEF TypeOK
<1>6. RowFits(k, row, delivered, deadLetters')
  <2>1. RowFits(k, outbox[k], delivered, deadLetters) BY DEF NotifyInv, RowsFit
  <2>2. row.status \notin {"sent", "failed"} OBVIOUS
  <2>3. row.status \in {"pending", "retry"} => row.attempt < MaxAttempts
    BY <2>1 DEF RowFits
  <2>4. \A d \in delivered : d.target = k => row # NoRow /\ d.content = row.content
    BY <1>4, <2>1 DEF RowFits
  <2> QED BY <2>2, <2>3, <2>4 DEF RowFits
<1>7. ASSUME k \notin unsure' PROVE Sure(k, worker', row, delivered)
  <2>1. Sure(k, worker, outbox[k], delivered) BY <1>7 DEF NotifyInv, KeysSure
  <2>2. ~Reported(delivered, k) BY <1>7, <2>1 DEF Sure, SendIsTracked
  <2> QED BY <1>7, <2>2, SureFresh
<1>8. deadLetters \subseteq deadLetters' /\ deadLetters' \subseteq Keys BY <1>1 DEF TypeOK
<1>9. /\ outbox'[k] # NoRow /\ outbox'[k].content = outbox[k].content
      /\ outbox[k].attempt <= outbox'[k].attempt
      /\ outbox'[k].status = "processing" => outbox[k].status = "processing"
      /\ outbox'[k].owner = outbox[k].owner
      /\ outbox[k].stale => outbox'[k].stale
      /\ (outbox'[k].status = "processing") = (outbox'[k].owner # "nobody")
  BY <1>3, <1>4, <1>5
<1>10. RowFits(k, outbox'[k], delivered, deadLetters')
       /\ (k \notin unsure' => Sure(k, worker', outbox'[k], delivered))
  BY <1>3, <1>6, <1>7
<1> QED BY <1>1, <1>2, <1>3, <1>8, <1>9, <1>10, RowStep

LEMMA LeaseExpiresKeeps ==
  ASSUME NotifyAssumption, NotifyInv, NEW k \in Keys, LeaseExpires(k) PROVE NotifyInv'
<1> PICK old : old = outbox[k] OBVIOUS
<1> PICK row : row = [old EXCEPT !.stale = TRUE] OBVIOUS
<1>1. TypeOK BY DEF NotifyInv
<1>2. old.status = "processing" /\ ~old.stale BY DEF LeaseExpires
<1>3. old # NoRow /\ old \in Row
  BY <1>1, <1>2 DEF TypeOK, NoRow
<1>4. /\ row \in Row /\ row.status = old.status /\ row.content = old.content
      /\ row.attempt = old.attempt /\ row.owner = old.owner /\ row.stale
  BY <1>3 DEF Row
<1>5. outbox' = [outbox EXCEPT ![k] = row] BY <1>1 DEF TypeOK, LeaseExpires
<1>6. unsure \subseteq unsure' /\ unsure' \subseteq Keys BY <1>1 DEF TypeOK, LeaseExpires
<1>7. faults' \in 0..MaxFaults BY <1>1, FaultTyped DEF LeaseExpires
<1>8. ASSUME k \notin unsure', NEW v \in Workers, SendsAt(worker[v], k) PROVE FALSE
  <2>1. Sure(k, worker, old, delivered) BY <1>6, <1>8 DEF NotifyInv, KeysSure
  <2>2. Target(v) = k /\ Sending(worker[v]) BY <1>8 DEF SendsAt, Target
  <2>3. Holds(v) BY <1>2, <1>8, <2>1, <2>2 DEF Sure, SenderHolds, Holds
  <2>4. worker[v] # Idle /\ Sent(v) BY <2>2, IdleFits DEF Sending, SendStages, Sent
  <2> QED BY <1>8, <2>2, <2>3, <2>4 DEF LeaseExpires
<1>9. UNCHANGED <<posted, application, worker, delivered, deadLetters>> BY DEF LeaseExpires
<1> QED BY <1>2, <1>3, <1>4, <1>5, <1>6, <1>7, <1>8, <1>9, RowAges

LEMMA RetryFallsDueKeeps ==
  ASSUME NotifyAssumption, NotifyInv, NEW k \in Keys, RetryFallsDue(k) PROVE NotifyInv'
<1> PICK old : old = outbox[k] OBVIOUS
<1> PICK row : row = [old EXCEPT !.due = TRUE] OBVIOUS
<1>1. TypeOK BY DEF NotifyInv
<1>2. old.status = "retry" BY DEF RetryFallsDue
<1>3. old # NoRow /\ old \in Row
  BY <1>1, <1>2 DEF TypeOK, NoRow
<1>4. /\ row \in Row /\ row.status = old.status /\ row.content = old.content
      /\ row.attempt = old.attempt /\ row.owner = old.owner /\ row.stale = old.stale
  BY <1>3 DEF Row
<1>5. outbox' = [outbox EXCEPT ![k] = row] BY <1>1 DEF TypeOK, RetryFallsDue
<1>6. faults' \in 0..MaxFaults BY <1>1, FaultTyped DEF RetryFallsDue
<1>7. UNCHANGED <<posted, application, worker, delivered, unsure, deadLetters>>
  BY DEF RetryFallsDue
<1>8. ASSUME k \notin unsure', NEW v \in Workers, SendsAt(worker[v], k) PROVE FALSE
  <2>1. Sure(k, worker, old, delivered) BY <1>7, <1>8 DEF NotifyInv, KeysSure
  <2> QED BY <1>2, <1>8, <2>1 DEF Sure, SenderHolds
<1>9. unsure \subseteq unsure' /\ unsure' \subseteq Keys BY <1>1, <1>7 DEF TypeOK
<1> QED BY <1>2, <1>3, <1>4, <1>5, <1>6, <1>7, <1>8, <1>9, RowAges

LEMMA ApplicationMoves ==
  ASSUME NotifyAssumption, NotifyInv, NEW a \in Applications, Approve(a) \/ Edit(a) PROVE NotifyInv'
<1>1. TypeOK BY DEF NotifyInv
<1>2. faults' \in 0..MaxFaults BY <1>1, FaultTyped DEF Approve, Edit
<1>3. UNCHANGED <<posted, outbox, worker, delivered, unsure, deadLetters>>
  BY DEF Approve, Edit
<1>4. application' \in [Applications -> [status: {"pending", "approved"}, content: Contents]]
  BY <1>1 DEF TypeOK, Approve, Edit, Contents
<1>5. TypeOK' BY <1>1, <1>2, <1>3, <1>4 DEF TypeOK
<1>6. WorkersFit' /\ RowsFit' /\ KeysSure'
  BY <1>3 DEF NotifyInv, WorkersFit, RowsFit, KeysSure
<1> QED BY <1>5, <1>6 DEF NotifyInv
-----------------------------------------------------------------------------
(* Theorems.                                                                 *)

LEMMA NotifyInitially == ASSUME NotifyAssumption PROVE Init => NotifyInv
<1> SUFFICES ASSUME Init PROVE NotifyInv OBVIOUS
<1>1. TypeOK BY DEF Init, TypeOK, Contents, NotifyAssumption
<1>2. WorkersFit BY IdleFits DEF Init, WorkersFit
<1>3. RowsFit BY DEF Init, RowsFit, RowFits, NoRow
<1>4. KeysSure
  <2>1. SUFFICES ASSUME NEW k \in Keys PROVE Sure(k, worker, outbox[k], delivered)
    BY DEF KeysSure
  <2>2. \A v \in Workers : ~SendsAt(worker[v], k) BY IdleFits DEF Init, SendsAt
  <2> QED BY <2>2, SureFresh DEF Init, Reported
<1> QED BY <1>1, <1>2, <1>3, <1>4 DEF NotifyInv

LEMMA NotifyStep == ASSUME NotifyAssumption PROVE NotifyInv /\ [Next]_vars => NotifyInv'
<1> SUFFICES ASSUME NotifyInv, [Next]_vars PROVE NotifyInv' OBVIOUS
<1>1. ASSUME NEW w \in Workers,
             \/ \E r \in posted : Accept(w, r)
             \/ ReadApplication(w) \/ SelectRow(w) \/ InsertRow(w) \/ Claim(w) \/ Send(w)
             \/ Complete(w) \/ QuarantineRow(w) \/ Fail(w) \/ LookUp(w) \/ Audit(w) \/ Crash(w)
      PROVE  NotifyInv'
  BY <1>1, AcceptKeeps, ReadApplicationKeeps, SelectRowKeeps, InsertRowKeeps, ClaimKeeps,
     SendKeeps, CompleteKeeps, QuarantineRowKeeps, FailKeeps, LookUpKeeps, AuditKeeps, CrashKeeps
<1>2. ASSUME NEW k \in Keys, LeaseExpires(k) \/ RetryFallsDue(k) PROVE NotifyInv'
  BY <1>2, LeaseExpiresKeeps, RetryFallsDueKeeps
<1>3. ASSUME NEW a \in Applications, Approve(a) \/ Edit(a) PROVE NotifyInv'
  BY <1>3, ApplicationMoves
<1>4. CASE UNCHANGED vars
  BY <1>4 DEF NotifyInv, TypeOK, WorkersFit, RowsFit, KeysSure, vars
<1> QED BY <1>1, <1>2, <1>3, <1>4 DEF Next

LEMMA NotifyInvariant == ASSUME NotifyAssumption PROVE Spec => []NotifyInv
  BY NotifyInitially, NotifyStep, PTL DEF Spec

\* Every row, invocation, delivery and dead letter has its type throughout: attempts
\* stay within max_attempts, and a lease has an owner exactly while it is processing.
THEOREM NotifyTypeCorrect == ASSUME NotifyAssumption PROVE Spec => []TypeOK
  BY NotifyInvariant, PTL DEF NotifyInv

\* A customer is told once per channel, with the one text on record, however many
\* invocations run at once and however the application is edited; only a row whose
\* provider answer, invocation or lease was lost may tell twice.
THEOREM CustomersToldOnce == ASSUME NotifyAssumption PROVE Spec => []ToldOnce
<1>1. NotifyInv => ToldOnce
  BY DEF NotifyInv, RowsFit, RowFits, KeysSure, Sure, Once, ToldOnce
<1> QED BY <1>1, NotifyInvariant, PTL

\* Whatever is reported or recorded as sent was accepted by a provider, and what will
\* not be tried again is sent, quarantined, still leased or in the dead letters.
THEOREM OutcomesStayTrue == ASSUME NotifyAssumption PROVE Spec => []OutcomesAreTrue
<1>1. NotifyInv => ReportedWasSent
  BY DEF NotifyInv, WorkersFit, WorkerFits, Truthful, Reported, RowsFit, RowFits, ReportedWasSent
<1>2. NotifyInv => GivenUpIsVisible
  <2> SUFFICES ASSUME NotifyInv, NEW k \in Keys, outbox[k] # NoRow, ~Attemptable(outbox[k])
               PROVE  outbox[k].status \in {"sent", "quarantined", "processing"} \/ k \in deadLetters
    BY DEF GivenUpIsVisible
  <2>1. outbox[k].status \in RowStatus BY DEF NotifyInv, TypeOK, Row
  <2>2. RowFits(k, outbox[k], delivered, deadLetters) BY DEF NotifyInv, RowsFit
  <2> QED BY <2>1, <2>2 DEF RowStatus, RowFits, Attemptable
<1> QED BY <1>1, <1>2, NotifyInvariant, PTL DEF OutcomesAreTrue
=============================================================================

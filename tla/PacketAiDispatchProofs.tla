------------------------- MODULE PacketAiDispatchProofs -------------------------
(***************************************************************************)
(* Proofs about PacketAiDispatch for any number of packets, workers,       *)
(* messages, contexts and operator keys, and for any retry budgets.        *)
(***************************************************************************)
EXTENDS PacketAiDispatchRefinement, FiniteSetTheorems, TLAPS

(* What TypeOK says of one row.                                             *)
GoodRow(row) ==
    /\ row \in Row
    /\ (row.state = "LEASED") <=> (row.token # 0)
    /\ (row.state = "DEAD_LETTERED") <=> (row.class # "NONE")

-----------------------------------------------------------------------------
(* The row operators, field by field.                                       *)

(* The row of a new job.                                                    *)
LEMMA NewRowFields ==
  ASSUME NEW rev \in Nat
  PROVE  LET r == NewRow(rev) IN
         /\ GoodRow(r)
         /\ r.state = "QUEUED" /\ r.rev = rev /\ r.bounded = TRUE
         /\ r.used = 0 /\ r.claims = 0 /\ r.blocks = 0
<1>1. NewRow(rev) \in Row
  BY DEF NewRow, NoRow, Row, States, Waiting, Terminal, Classes
<1>2. LET r == NewRow(rev) IN
         /\ r.state = "QUEUED" /\ r.rev = rev /\ r.bounded = TRUE
         /\ r.used = 0 /\ r.claims = 0 /\ r.blocks = 0 /\ r.token = 0 /\ r.class = "NONE"
  BY DEF NewRow, NoRow
<1> QED BY <1>1, <1>2 DEF GoodRow

(* The row of a job that was never enqueued.                                *)
LEMMA NoRowFields ==
  /\ GoodRow(NoRow)
  /\ NoRow.state = "ABSENT" /\ NoRow.bounded = FALSE /\ NoRow.attempt = 0
  BY DEF NoRow, GoodRow, Row, States, Waiting, Terminal, Classes

(* A row that gives up its lease.                                           *)
LEMMA UnleasedFields ==
  ASSUME NEW row \in Row, NEW state \in States
  PROVE  LET r == Unleased(row, state) IN
         /\ r \in Row
         /\ r.state = state /\ r.token = 0
         /\ r.rev = row.rev /\ r.attempt = row.attempt /\ r.bounded = row.bounded
         /\ r.used = row.used /\ r.class = row.class
         /\ r.claims = row.claims /\ r.blocks = row.blocks
  BY DEF Unleased, Row

(* A row that is dead-lettered: only state, lease, budget and class change. *)
LEMMA DeadLetterRowFields ==
  ASSUME NEW row \in Row, NEW class \in Classes
  PROVE  LET r == DeadLetterRow(row, class) IN
         /\ GoodRow(r)
         /\ r.state = "DEAD_LETTERED" /\ r.class = class
         /\ r.rev = row.rev /\ r.attempt = row.attempt /\ r.bounded = row.bounded
         /\ r.used = row.used + 1 /\ r.claims = row.claims /\ r.blocks = row.blocks
<1> DEFINE u == Unleased(row, "DEAD_LETTERED")
<1>1. "DEAD_LETTERED" \in States
  BY DEF States, Terminal
<1>2. /\ u \in Row /\ u.state = "DEAD_LETTERED" /\ u.token = 0
      /\ u.rev = row.rev /\ u.attempt = row.attempt /\ u.bounded = row.bounded
      /\ u.used = row.used /\ u.claims = row.claims /\ u.blocks = row.blocks
  BY <1>1, UnleasedFields
<1>3. DeadLetterRow(row, class) = [u EXCEPT !.used = u.used + 1, !.class = class]
  BY DEF DeadLetterRow
<1>4. u.used + 1 \in Nat
  BY <1>2 DEF Row
<1>5. class # "NONE" /\ class \in Classes \union {"NONE"}
  BY DEF Classes
<1> HIDE DEF u
<1> DEFINE r == [u EXCEPT !.used = u.used + 1, !.class = class]
<1>6. /\ r \in Row /\ r.used = u.used + 1 /\ r.class = class /\ r.state = u.state
      /\ r.token = u.token /\ r.rev = u.rev /\ r.attempt = u.attempt
      /\ r.bounded = u.bounded /\ r.claims = u.claims /\ r.blocks = u.blocks
  BY <1>2, <1>4, <1>5 DEF Row
<1> HIDE DEF r
<1>7. GoodRow(r) BY <1>2, <1>5, <1>6 DEF GoodRow
<1>8. DeadLetterRow(row, class) = r BY <1>3 DEF r
<1> QED BY <1>2, <1>6, <1>7, <1>8

(* A claimed row: a fresh token; a reclaim of a bounded job pays one unit.  *)
LEMMA ClaimRowFields ==
  ASSUME NEW row \in Row
  PROVE  LET r == ClaimRow(row) IN
         /\ r \in Row
         /\ r.state = "LEASED" /\ r.attempt = row.attempt + 1 /\ r.token = row.attempt + 1
         /\ r.rev = row.rev /\ r.bounded = row.bounded /\ r.class = row.class
         /\ r.used = (IF row.state = "LEASED" /\ row.bounded THEN row.used + 1 ELSE row.used)
         /\ r.claims = row.claims + 1 /\ r.blocks = row.blocks
<1> DEFINE u == IF row.state = "LEASED" /\ row.bounded THEN row.used + 1 ELSE row.used
<1>1. u \in Nat /\ row.attempt + 1 \in Nat /\ row.claims + 1 \in Nat
  BY DEF Row
<1>2. ClaimRow(row) = [row EXCEPT !.state = "LEASED", !.live = TRUE,
                !.attempt = row.attempt + 1, !.token = row.attempt + 1,
                !.used = u, !.claims = row.claims + 1]
  BY DEF ClaimRow
<1>3. "LEASED" \in States
  BY DEF States
<1> HIDE DEF u
<1>4. ClaimRow(row) \in Row
  BY <1>1, <1>2, <1>3 DEF Row
<1>5. LET r == ClaimRow(row) IN
         /\ r.state = "LEASED" /\ r.attempt = row.attempt + 1 /\ r.token = row.attempt + 1
         /\ r.rev = row.rev /\ r.bounded = row.bounded /\ r.class = row.class
         /\ r.used = u
         /\ r.claims = row.claims + 1 /\ r.blocks = row.blocks
  BY <1>2 DEF Row
<1> QED BY <1>4, <1>5 DEF u

(* A write to a live row that changes its revision renews its budget.       *)
LEMMA ReviveFields ==
  ASSUME NEW old \in Row, NEW new \in Row, new.state # "DEAD_LETTERED",
         old.state = "DEAD_LETTERED" \/ old.rev # new.rev
  PROVE  LET r == Revive(old, new) IN
         /\ r \in Row
         /\ r.state = new.state /\ r.rev = new.rev /\ r.attempt = new.attempt
         /\ r.token = new.token /\ r.bounded = TRUE /\ r.used = 0
         /\ r.claims = Unpaid(new) /\ r.blocks = 0
         /\ r.class = (IF old.state = "DEAD_LETTERED" THEN "NONE" ELSE new.class)
<1> DEFINE n == Unpaid(new)
           fresh == [new EXCEPT !.bounded = TRUE, !.used = 0, !.claims = n, !.blocks = 0]
<1>1. n \in Nat
  BY DEF Unpaid
<1> HIDE DEF n
<1>2. /\ fresh \in Row
      /\ fresh.state = new.state /\ fresh.rev = new.rev /\ fresh.attempt = new.attempt
      /\ fresh.token = new.token /\ fresh.bounded = TRUE /\ fresh.used = 0
      /\ fresh.claims = n /\ fresh.blocks = 0 /\ fresh.class = new.class
  BY <1>1 DEF Row
<1>3. Revive(old, new) = IF old.state = "DEAD_LETTERED" THEN [fresh EXCEPT !.class = "NONE"] ELSE fresh
  BY DEF Revive, n
<1> HIDE DEF fresh
<1>4. LET r == [fresh EXCEPT !.class = "NONE"] IN
      /\ r \in Row
      /\ r.state = new.state /\ r.rev = new.rev /\ r.attempt = new.attempt
      /\ r.token = new.token /\ r.bounded = TRUE /\ r.used = 0
      /\ r.claims = n /\ r.blocks = 0 /\ r.class = "NONE"
  BY <1>2 DEF Row
<1> QED BY <1>2, <1>3, <1>4 DEF n

(* The retry budget of one row: what is claimed is paid from the budget,    *)
(* the claim under way excepted, or was a knowledge outage.                 *)
Solvent(row) ==
    row.bounded =>
      /\ row.state \in Waiting =>
           row.claims <= row.used + row.blocks /\ row.used + 1 <= Budget
      /\ row.state = "LEASED" =>
           row.claims <= row.used + 1 + row.blocks /\ row.used + 1 <= Budget
      /\ row.claims <= Budget + row.blocks

(* The two retry budgets are positive and ordered (the seeded policies).    *)
LEMMA BudgetNat == Budget \in Nat /\ 1 <= Budget /\ ModelBudget \in Nat /\ ModelBudget <= Budget
  BY DispatchAssumption

(* What a message that joins the packet makes of its row: a leased row      *)
(* stays leased under its token, any other waits, the budget is whole again. *)
Enqueued(r, row, rev) ==
    /\ GoodRow(r) /\ Solvent(r)
    /\ r.state = (IF row.state = "LEASED" THEN "LEASED" ELSE "QUEUED")
    /\ r.rev = rev /\ r.bounded = TRUE
    /\ row.state # "ABSENT" => r.attempt = row.attempt /\ r.token = row.token

(* A row a new message reaches: leased rows stay leased, all others queue.  *)
LEMMA EnqueueRowFields ==
  ASSUME NEW row, GoodRow(row), NEW rev \in Nat, row.state = "ABSENT" \/ row.rev # rev
  PROVE  Enqueued(EnqueueRow(row, rev), row, rev)
<1> DEFINE r == EnqueueRow(row, rev)
<1>1. CASE row.state = "ABSENT"
  <2>1. r = NewRow(rev)
    BY <1>1 DEF EnqueueRow
  <2> HIDE DEF r
  <2>2. /\ GoodRow(r) /\ r.state = "QUEUED" /\ r.rev = rev /\ r.bounded = TRUE
        /\ r.used = 0 /\ r.claims = 0 /\ r.blocks = 0
    BY <2>1, NewRowFields
  <2>3. Solvent(r)
    BY <2>2, BudgetNat DEF Solvent, Waiting
  <2> QED BY <1>1, <2>2, <2>3 DEF r, Enqueued
<1>2. CASE row.state # "ABSENT"
  <2> DEFINE s == IF row.state = "LEASED" THEN "LEASED" ELSE "QUEUED"
             new == [row EXCEPT !.rev = rev, !.state = s]
  <2>1. r = Revive(row, new)
    BY <1>2 DEF EnqueueRow
  <2> HIDE DEF r
  <2>2. s \in States /\ s # "DEAD_LETTERED" /\ s # "ABSENT" /\ (s = "LEASED" <=> row.state = "LEASED")
    BY DEF States, Waiting
  <2> HIDE DEF s
  <2>3. row \in Row
    BY DEF GoodRow
  <2>4. new \in Row
    BY <2>2, <2>3 DEF Row
  <2>5. /\ new.state = s /\ new.rev = rev /\ new.attempt = row.attempt
        /\ new.token = row.token /\ new.class = row.class
    BY <2>3 DEF Row
  <2> HIDE DEF new
  <2>6. /\ r \in Row
        /\ r.state = s /\ r.rev = rev /\ r.attempt = row.attempt
        /\ r.token = row.token /\ r.bounded = TRUE /\ r.used = 0
        /\ r.claims = Unpaid(new) /\ r.blocks = 0
        /\ r.class = (IF row.state = "DEAD_LETTERED" THEN "NONE" ELSE row.class)
    <3>1. row.state = "DEAD_LETTERED" \/ row.rev # new.rev
      BY <1>2, <2>5
    <3>2. new.state # "DEAD_LETTERED"
      BY <2>2, <2>5
    <3> QED BY <3>1, <3>2, <2>1, <2>3, <2>4, <2>5, ReviveFields
  <2>7. GoodRow(r)
    BY <2>2, <2>6 DEF GoodRow
  <2>8. Unpaid(new) = IF s = "LEASED" THEN 1 ELSE 0
    BY <2>5 DEF Unpaid
  <2>9. Solvent(r)
    BY <2>2, <2>6, <2>8, BudgetNat DEF Solvent, Waiting
  <2> QED BY <1>2, <2>6, <2>7, <2>9 DEF r, s, Enqueued
<1> QED BY <1>1, <1>2

(* An operator's requeue changes the state alone and goes through Revive.   *)
LEMMA RequeueRowFields ==
  ASSUME NEW row, GoodRow(row), row.state = "DEAD_LETTERED"
  PROVE  LET r == Revive(row, [row EXCEPT !.state = "QUEUED"]) IN
         /\ GoodRow(r) /\ Solvent(r)
         /\ r.state = "QUEUED" /\ r.rev = row.rev /\ r.attempt = row.attempt
<1> DEFINE new == [row EXCEPT !.state = "QUEUED"]
           r == Revive(row, new)
<1>1. row \in Row /\ row.token = 0
  BY DEF GoodRow
<1>2. new \in Row
  BY <1>1 DEF Row, States, Waiting
<1>3. new.state = "QUEUED" /\ new.rev = row.rev /\ new.attempt = row.attempt /\ new.token = 0
  BY <1>1 DEF Row
<1> HIDE DEF new
<1>4. /\ r \in Row
      /\ r.state = "QUEUED" /\ r.rev = row.rev /\ r.attempt = row.attempt
      /\ r.token = 0 /\ r.bounded = TRUE /\ r.used = 0
      /\ r.claims = Unpaid(new) /\ r.blocks = 0 /\ r.class = "NONE"
  BY <1>1, <1>2, <1>3, ReviveFields
<1> HIDE DEF r
<1>5. Unpaid(new) = 0
  BY <1>3 DEF Unpaid
<1>6. GoodRow(r) /\ Solvent(r)
  BY <1>4, <1>5, BudgetNat DEF GoodRow, Solvent, Waiting
<1> QED BY <1>4, <1>6 DEF r, new

(* A claim of a job the sweep has left claimable.                           *)
LEMMA ClaimRowGood ==
  ASSUME NEW row, GoodRow(row), Solvent(row), Claimable(row), ~Exhausted(row)
  PROVE  GoodRow(ClaimRow(row)) /\ Solvent(ClaimRow(row))
<1> DEFINE r == ClaimRow(row)
<1>1. row \in Row /\ row.class = "NONE" /\ row.attempt \in Nat /\ row.used \in Nat
      /\ row.claims \in Nat /\ row.blocks \in Nat
  BY DEF GoodRow, Claimable, Expired, Waiting, Row
<1>2. /\ r \in Row
      /\ r.state = "LEASED" /\ r.token = row.attempt + 1
      /\ r.bounded = row.bounded /\ r.class = row.class
      /\ r.used = (IF row.state = "LEASED" /\ row.bounded THEN row.used + 1 ELSE row.used)
      /\ r.claims = row.claims + 1 /\ r.blocks = row.blocks
  BY <1>1, ClaimRowFields
<1> HIDE DEF r
<1>3. GoodRow(r)
  BY <1>1, <1>2 DEF GoodRow
<1>4. Solvent(r)
  <2>1. SUFFICES ASSUME row.bounded PROVE Solvent(r)
    BY <1>2 DEF Solvent
  <2>2. CASE row.state = "LEASED"
    <3>1. row.claims <= row.used + 1 + row.blocks /\ row.used + 1 <= Budget /\ ~(row.used + 1 >= Budget)
      BY <2>1, <2>2, <1>1 DEF Solvent, Claimable, Exhausted, Expired, Waiting
    <3> QED BY <2>1, <2>2, <3>1, <1>1, <1>2, BudgetNat DEF Solvent, Waiting
  <2>3. CASE row.state # "LEASED"
    <3>1. row.claims <= row.used + row.blocks /\ row.used + 1 <= Budget
      BY <2>1, <2>3, <1>1 DEF Solvent, Claimable, Expired
    <3> QED BY <2>1, <2>3, <3>1, <1>1, <1>2, BudgetNat DEF Solvent, Waiting
  <2> QED BY <2>2, <2>3
<1> QED BY <1>3, <1>4 DEF r

(* A job that stops keeps its bound, whoever stops it.                      *)
LEMMA DeadLetterRowGood ==
  ASSUME NEW row, GoodRow(row), Solvent(row), NEW class \in Classes
  PROVE  GoodRow(DeadLetterRow(row, class)) /\ Solvent(DeadLetterRow(row, class))
  BY DeadLetterRowFields DEF GoodRow, Solvent, Waiting

(* A reported failure: back to the queue, blocked, or stopped.              *)
LEMMA RetryRowGood ==
  ASSUME NEW row, GoodRow(row), Solvent(row), row.state = "LEASED", NEW e \in Errors
  PROVE  LET r == RetryRow(row, e) IN
         /\ GoodRow(r) /\ Solvent(r)
         /\ r.state \in Waiting \union {"DEAD_LETTERED"}
         /\ r.rev = row.rev /\ r.attempt = row.attempt
<1> DEFINE r == RetryRow(row, e)
<1>1. row \in Row /\ row.class = "NONE" /\ row.attempt \in Nat /\ row.used \in Nat
      /\ row.claims \in Nat /\ row.blocks \in Nat
  BY DEF GoodRow, Row
<1>2. row.bounded => row.claims <= row.used + 1 + row.blocks /\ row.used + 1 <= Budget
  BY DEF Solvent
<1>3. CASE Unbudgeted(row, e)
  <2> DEFINE st == IF Knowledge(e) THEN "BLOCKED_KNOWLEDGE_AUTHORITY" ELSE "RETRY"
             b == IF Knowledge(e) THEN row.blocks + 1 ELSE row.blocks
             u == Unleased(row, st)
  <2>1. st \in States /\ st \in Waiting /\ b \in Nat
    BY <1>1 DEF States, Waiting
  <2>2. r = [u EXCEPT !.blocks = IF Knowledge(e) THEN u.blocks + 1 ELSE u.blocks]
    BY <1>3 DEF RetryRow
  <2>3. row.bounded => b = row.blocks + 1
    BY <1>3 DEF Unbudgeted
  <2> HIDE DEF st
  <2>4. /\ u \in Row /\ u.state = st /\ u.token = 0 /\ u.rev = row.rev
        /\ u.attempt = row.attempt /\ u.bounded = row.bounded /\ u.used = row.used
        /\ u.class = row.class /\ u.claims = row.claims /\ u.blocks = row.blocks
    BY <1>1, <2>1, UnleasedFields
  <2>5. r = [u EXCEPT !.blocks = b]
    BY <2>2, <2>4
  <2> HIDE DEF u, b
  <2>6. r \in Row
    BY <2>1, <2>4, <2>5 DEF Row
  <2>7. /\ r.state = st /\ r.token = 0 /\ r.rev = row.rev
        /\ r.attempt = row.attempt /\ r.bounded = row.bounded /\ r.used = row.used
        /\ r.class = row.class /\ r.claims = row.claims /\ r.blocks = b
    BY <2>4, <2>5 DEF Row
  <2> HIDE DEF r
  <2>8. GoodRow(r)
    BY <1>1, <2>1, <2>6, <2>7 DEF GoodRow, Waiting
  <2>9. Solvent(r)
    BY <1>1, <1>2, <2>1, <2>3, <2>7, BudgetNat DEF Solvent, Waiting
  <2> QED BY <2>1, <2>7, <2>8, <2>9 DEF r
<1>4. CASE ~Unbudgeted(row, e) /\ Verdict(row, e) = "NONE"
  <2> DEFINE u == Unleased(row, "RETRY")
  <2>1. "RETRY" \in States /\ "RETRY" \in Waiting
    BY DEF States, Waiting
  <2>2. r = [u EXCEPT !.used = u.used + 1]
    BY <1>4 DEF RetryRow
  <2>3. /\ u \in Row /\ u.state = "RETRY" /\ u.token = 0 /\ u.rev = row.rev
        /\ u.attempt = row.attempt /\ u.bounded = row.bounded /\ u.used = row.used
        /\ u.class = row.class /\ u.claims = row.claims /\ u.blocks = row.blocks
    BY <1>1, <2>1, UnleasedFields
  <2> HIDE DEF u
  <2>4. r \in Row
    BY <1>1, <2>2, <2>3 DEF Row
  <2>5. /\ r.state = "RETRY" /\ r.token = 0 /\ r.rev = row.rev
        /\ r.attempt = row.attempt /\ r.bounded = row.bounded /\ r.used = row.used + 1
        /\ r.class = row.class /\ r.claims = row.claims /\ r.blocks = row.blocks
    BY <2>2, <2>3 DEF Row
  <2>6. row.bounded /\ row.used + 1 < Budget
    <3>1. row.bounded /\ e \in {"TRANSIENT", "MODEL_OUTPUT"}
      BY <1>4 DEF Unbudgeted, Verdict, Knowledge, Errors
    <3>2. ~(row.used + 1 >= BudgetFor(e))
      BY <1>4, <3>1 DEF Verdict
    <3> QED BY <3>1, <3>2, <1>1, BudgetNat DEF BudgetFor
  <2> HIDE DEF r
  <2>7. GoodRow(r)
    BY <1>1, <2>4, <2>5 DEF GoodRow
  <2>8. Solvent(r)
    BY <1>1, <1>2, <2>5, <2>6, BudgetNat DEF Solvent, Waiting
  <2> QED BY <2>1, <2>5, <2>7, <2>8 DEF r
<1>5. CASE ~Unbudgeted(row, e) /\ Verdict(row, e) # "NONE"
  <2>1. Verdict(row, e) \in Classes
    BY <1>5 DEF Verdict, Classes
  <2>2. r = DeadLetterRow(row, Verdict(row, e))
    BY <1>5 DEF RetryRow
  <2> QED BY <1>1, <2>1, <2>2, DeadLetterRowFields, DeadLetterRowGood
<1> QED BY <1>3, <1>4, <1>5

-----------------------------------------------------------------------------
(* The table of jobs.                                                       *)

RevisionOfPacket ==
    \A p \in Packets : jobs[<<p, 0>>].state # "ABSENT" => jobs[<<p, 0>>].rev = revision[p]

ContextsInOrder ==
    \A p \in Packets : \A k \in 1 .. MaxContexts :
        k > context[p] => jobs[<<p, k>>].state = "ABSENT"

(* Every row is good and solvent; a packet's own row carries the packet's   *)
(* revision; rows of context revisions to come do not exist.                *)
Table ==
    /\ jobs \in [JobIds -> Row]
    /\ revision \in [Packets -> Nat]
    /\ context \in [Packets -> 0 .. MaxContexts]
    /\ \A j \in JobIds : GoodRow(jobs[j]) /\ Solvent(jobs[j])
    /\ RevisionOfPacket
    /\ ContextsInOrder

(* A job is a packet with a context number; 0 is the packet's own job.      *)
LEMMA JobIdsShape ==
  /\ \A p \in Packets : <<p, 0>> \in JobIds
  /\ \A p \in Packets : \A k \in 0 .. MaxContexts : <<p, k>> \in JobIds
  /\ \A j \in JobIds : j[1] \in Packets /\ j[2] \in 0 .. MaxContexts /\ j = <<j[1], j[2]>>
  BY DispatchAssumption DEF JobIds

(* The table starts in shape.                                               *)
LEMMA TableInit == Init => Table
<1> SUFFICES ASSUME Init PROVE Table
  OBVIOUS
<1>1. jobs \in [JobIds -> Row] /\ \A j \in JobIds : GoodRow(jobs[j]) /\ Solvent(jobs[j])
  <2> SUFFICES ASSUME NEW j \in JobIds
               PROVE  jobs[j] \in Row /\ GoodRow(jobs[j]) /\ Solvent(jobs[j])
    BY DEF Init
  <2>1. CASE jobs[j] = NoRow
    BY <2>1, NoRowFields DEF GoodRow, Solvent
  <2>2. CASE jobs[j] = [NewRow(1) EXCEPT !.bounded = FALSE]
    <3> DEFINE n == NewRow(1)
    <3>1. GoodRow(n)
      BY NewRowFields
    <3>2. jobs[j] = [n EXCEPT !.bounded = FALSE]
      BY <2>2
    <3> HIDE DEF n
    <3>3. jobs[j] \in Row
      BY <3>1, <3>2 DEF GoodRow, Row
    <3>4. /\ jobs[j].state = n.state /\ jobs[j].token = n.token /\ jobs[j].class = n.class
          /\ jobs[j].bounded = FALSE
      BY <3>1, <3>2 DEF GoodRow, Row
    <3> QED BY <3>1, <3>3, <3>4 DEF GoodRow, Solvent
  <2> QED BY <2>1, <2>2 DEF Init
<1>2. RevisionOfPacket
  <2> SUFFICES ASSUME NEW p \in Packets, jobs[<<p, 0>>].state # "ABSENT"
               PROVE  jobs[<<p, 0>>].rev = revision[p]
    BY DEF RevisionOfPacket
  <2>1. p \in LegacyPackets
    BY JobIdsShape, NoRowFields DEF Init
  <2>2. jobs[<<p, 0>>] = [NewRow(1) EXCEPT !.bounded = FALSE]
    BY <2>1, JobIdsShape DEF Init
  <2>3. jobs[<<p, 0>>].rev = 1
    BY <2>2 DEF NewRow, NoRow
  <2> QED BY <2>1, <2>3 DEF Init
<1>3. ContextsInOrder
  BY JobIdsShape, NoRowFields DEF Init, ContextsInOrder
<1>4. revision \in [Packets -> Nat] /\ context \in [Packets -> 0 .. MaxContexts]
  BY DispatchAssumption DEF Init
<1> QED BY <1>1, <1>2, <1>3, <1>4 DEF Table

(* A step that rewrites one existing row and leaves its revision.           *)
LEMMA TableRewrite ==
  ASSUME Table, NEW j \in JobIds, jobs[j].state # "ABSENT",
         NEW r, GoodRow(r), Solvent(r), r.rev = jobs[j].rev, r.state # "ABSENT",
         jobs' = [jobs EXCEPT ![j] = r], UNCHANGED <<revision, context>>
  PROVE  Table'
<1>1. jobs' \in [JobIds -> Row] /\ \A i \in JobIds : GoodRow(jobs'[i]) /\ Solvent(jobs'[i])
  BY DEF Table, GoodRow
<1>2. RevisionOfPacket'
  BY JobIdsShape DEF Table, RevisionOfPacket
<1>3. ContextsInOrder'
  BY JobIdsShape DEF Table, ContextsInOrder
<1>4. \A i \in JobIds : GoodRow(jobs[i])' /\ Solvent(jobs[i])'
  BY <1>1 DEF GoodRow, Solvent, Row
<1> QED BY <1>1, <1>2, <1>3, <1>4 DEF Table

(* A step that rewrites existing rows and leaves their revisions.           *)
LEMMA TableKeptByRows ==
  ASSUME Table, jobs' \in [JobIds -> Row], UNCHANGED <<revision, context>>,
         \A i \in JobIds : /\ GoodRow(jobs'[i]) /\ Solvent(jobs'[i])
                           /\ jobs'[i].rev = jobs[i].rev
                           /\ jobs[i].state = "ABSENT" => jobs'[i].state = "ABSENT"
  PROVE  Table'
<1>1. \A i \in JobIds : GoodRow(jobs[i])' /\ Solvent(jobs[i])'
  <2> SUFFICES ASSUME NEW i \in JobIds PROVE GoodRow(jobs[i])' /\ Solvent(jobs[i])'
    OBVIOUS
  <2>1. GoodRow(jobs'[i]) /\ Solvent(jobs'[i])
    OBVIOUS
  <2> QED BY <2>1 DEF GoodRow, Solvent
<1>2. RevisionOfPacket'
  <2> SUFFICES ASSUME NEW p \in Packets, jobs'[<<p, 0>>].state # "ABSENT"
               PROVE  jobs'[<<p, 0>>].rev = revision[p]
    BY DEF RevisionOfPacket
  <2> DEFINE j == <<p, 0>>
  <2>1. j \in JobIds
    BY JobIdsShape
  <2>2. jobs[j].state # "ABSENT" => jobs[j].rev = revision[p]
    BY DEF Table, RevisionOfPacket
  <2> HIDE DEF j
  <2>3. jobs'[j].rev = jobs[j].rev /\ (jobs[j].state = "ABSENT" => jobs'[j].state = "ABSENT")
    BY <2>1
  <2> QED BY <2>2, <2>3 DEF j
<1>3. ContextsInOrder'
  <2> SUFFICES ASSUME NEW p \in Packets, NEW k \in 1 .. MaxContexts, k > context[p]
               PROVE  jobs'[<<p, k>>].state = "ABSENT"
    BY DEF ContextsInOrder
  <2> DEFINE j == <<p, k>>
  <2>1. j \in JobIds
    BY JobIdsShape, DispatchAssumption
  <2>2. jobs[j].state = "ABSENT"
    BY DEF Table, ContextsInOrder
  <2> HIDE DEF j
  <2>3. jobs'[j].state = "ABSENT"
    BY <2>1, <2>2
  <2> QED BY <2>3 DEF j
<1> QED BY <1>1, <1>2, <1>3 DEF Table

(* A step that leaves packets, contexts and rows alone keeps the table.     *)
LEMMA TableSame ==
  ASSUME Table, UNCHANGED <<jobs, revision, context>>
  PROVE  Table'
  BY DEF Table, RevisionOfPacket, ContextsInOrder, GoodRow, Solvent

(* A new message keeps the table: its row takes the packet's revision.      *)
LEMMA TableEnqueue ==
  ASSUME Table, NEW p \in Packets, Enqueue(p)
  PROVE  Table'
<1> DEFINE j == <<p, 0>>
           rev == revision[p] + 1
           row == jobs[j]
           r == EnqueueRow(row, rev)
<1>1. j \in JobIds /\ rev \in Nat /\ rev # revision[p]
  BY JobIdsShape DEF Table
<1>2. row.state = "ABSENT" \/ row.rev # rev
  BY <1>1 DEF Table, RevisionOfPacket
<1>3. GoodRow(row)
  BY <1>1 DEF Table
<1>4. jobs' = [jobs EXCEPT ![j] = r] /\ revision' = [revision EXCEPT ![p] = rev] /\ context' = context
  BY DEF Enqueue
<1> HIDE DEF rev, row
<1> HIDE DEF r
<1>5. GoodRow(r) /\ Solvent(r) /\ r.rev = rev
  <2>1. rev \in Nat /\ GoodRow(row) /\ (row.state = "ABSENT" \/ row.rev # rev)
    BY <1>1, <1>2, <1>3
  <2>2. Enqueued(r, row, rev)
    BY <2>1, EnqueueRowFields DEF r
  <2> QED BY <2>2 DEF Enqueued
<1>6. jobs' \in [JobIds -> Row] /\ \A i \in JobIds : GoodRow(jobs'[i]) /\ Solvent(jobs'[i])
  BY <1>1, <1>4, <1>5 DEF Table, GoodRow
<1>7. \A i \in JobIds : GoodRow(jobs[i])' /\ Solvent(jobs[i])'
  BY <1>6 DEF GoodRow, Solvent, Row
<1>8. RevisionOfPacket'
  BY <1>1, <1>4, <1>5, JobIdsShape DEF Table, RevisionOfPacket
<1>9. ContextsInOrder'
  <2> SUFFICES ASSUME NEW q \in Packets, NEW k \in 1 .. MaxContexts, k > context'[q]
               PROVE  jobs'[<<q, k>>].state = "ABSENT"
    BY DEF ContextsInOrder
  <2>1. <<q, k>> # j /\ <<q, k>> \in JobIds
    BY JobIdsShape, DispatchAssumption
  <2> QED BY <2>1, <1>4 DEF Table, ContextsInOrder
<1>10. revision' \in [Packets -> Nat]
  BY <1>1, <1>4 DEF Table
<1> QED BY <1>4, <1>6, <1>7, <1>8, <1>9, <1>10 DEF Table

(* A new case context keeps the table: contexts stay without gaps.          *)
LEMMA TableEnqueueContext ==
  ASSUME Table, NEW p \in Packets, NEW evidence, NEW cloned, EnqueueContext(p, evidence, cloned)
  PROVE  Table'
<1> DEFINE k == context[p] + 1
           j == <<p, k>>
           r == NewRow(k)
<1>1. k \in 1 .. MaxContexts /\ j \in JobIds /\ k \in Nat
  BY JobIdsShape, DispatchAssumption DEF Table, EnqueueContext
<1>2. jobs' = [jobs EXCEPT ![j] = r] /\ revision' = revision /\ context' = [context EXCEPT ![p] = k]
  BY DEF EnqueueContext
<1>3. GoodRow(r) /\ r.state = "QUEUED" /\ r.used = 0 /\ r.claims = 0 /\ r.blocks = 0
  BY <1>1, NewRowFields
<1>k. k > context[p]
  BY DEF Table
<1> HIDE DEF k, r
<1>4. Solvent(r)
  BY <1>3, BudgetNat DEF Solvent, Waiting
<1>5. jobs' \in [JobIds -> Row] /\ \A i \in JobIds : GoodRow(jobs'[i]) /\ Solvent(jobs'[i])
  BY <1>1, <1>2, <1>3, <1>4 DEF Table, GoodRow
<1>6. \A i \in JobIds : GoodRow(jobs[i])' /\ Solvent(jobs[i])'
  BY <1>5 DEF GoodRow, Solvent, Row
<1>7. RevisionOfPacket'
  <2> SUFFICES ASSUME NEW q \in Packets PROVE jobs'[<<q, 0>>] = jobs[<<q, 0>>]
    BY <1>2 DEF Table, RevisionOfPacket
  <2>1. <<q, 0>> # j /\ <<q, 0>> \in JobIds
    BY <1>1, JobIdsShape
  <2> QED BY <2>1, <1>2 DEF Table
<1>8. ContextsInOrder'
  <2> SUFFICES ASSUME NEW q \in Packets, NEW i \in 1 .. MaxContexts, i > context'[q]
               PROVE  jobs'[<<q, i>>].state = "ABSENT"
    BY DEF ContextsInOrder
  <2>1. <<q, i>> \in JobIds /\ i \in Nat
    BY JobIdsShape, DispatchAssumption
  <2>2. i > context[q] /\ <<q, i>> # j
    BY <1>1, <1>2, <1>k, <2>1, DispatchAssumption DEF Table
  <2> QED BY <2>1, <2>2, <1>2 DEF Table, ContextsInOrder
<1>9. context' \in [Packets -> 0 .. MaxContexts]
  BY <1>1, <1>2, DispatchAssumption DEF Table
<1> QED BY <1>2, <1>5, <1>6, <1>7, <1>8, <1>9 DEF Table

(* The sweep stops what it exhausts and leaves the rest, so nothing that is *)
(* exhausted is left to claim.                                              *)
Swept(r, row) ==
    /\ GoodRow(r) /\ Solvent(r) /\ ~Exhausted(r)
    /\ r.rev = row.rev /\ r.attempt = row.attempt
    /\ \/ r = row
       \/ row.state = "LEASED" /\ row.bounded /\ r.state = "DEAD_LETTERED"

(* The sweep of a claim dead-letters exhausted rows and keeps the others.   *)
LEMMA SweepFields ==
  ASSUME Table
  PROVE  /\ Sweep \in [JobIds -> Row]
         /\ \A j \in JobIds : Swept(Sweep[j], jobs[j])
<1>1. SUFFICES ASSUME NEW j \in JobIds
               PROVE  Sweep[j] \in Row /\ Swept(Sweep[j], jobs[j])
  BY DEF Sweep
<1>2. GoodRow(jobs[j]) /\ Solvent(jobs[j]) /\ jobs[j] \in Row
  BY DEF Table
<1>3. CASE Exhausted(jobs[j])
  <2> DEFINE row == jobs[j]
             r == DeadLetterRow(row, "RETRY_EXHAUSTED")
  <2>1. Sweep[j] = r
    BY <1>3 DEF Sweep
  <2>2. row.state = "LEASED" /\ row.bounded
    BY <1>3 DEF Exhausted, Expired
  <2>3. "RETRY_EXHAUSTED" \in Classes
    BY DEF Classes
  <2> HIDE DEF row
  <2>4. GoodRow(row) /\ Solvent(row) /\ row \in Row
    BY <1>2 DEF row
  <2>5. GoodRow(r) /\ Solvent(r)
    BY <2>3, <2>4, DeadLetterRowGood
  <2>6. r.state = "DEAD_LETTERED" /\ r.rev = row.rev /\ r.attempt = row.attempt
    BY <2>3, <2>4, DeadLetterRowFields
  <2> HIDE DEF r
  <2>7. Swept(r, row)
    BY <2>2, <2>5, <2>6 DEF Swept, Exhausted, Expired
  <2> QED BY <2>1, <2>5, <2>7 DEF row, GoodRow
<1>4. CASE ~Exhausted(jobs[j])
  <2>1. Sweep[j] = jobs[j]
    BY <1>4 DEF Sweep
  <2> QED BY <1>2, <1>4, <2>1 DEF Swept
<1> QED BY <1>3, <1>4

(* Claiming keeps the table: the sweep leaves only rows that can pay.       *)
LEMMA TableClaim ==
  ASSUME Table, NEW w \in Workers, NEW j \in JobIds, Claim(w, j)
  PROVE  Table'
<1> DEFINE r == ClaimRow(Sweep[j])
<1>1. jobs' = [Sweep EXCEPT ![j] = r] /\ revision' = revision /\ context' = context
  BY DEF Claim, packetVars
<1>2. Sweep \in [JobIds -> Row] /\ \A i \in JobIds : Swept(Sweep[i], jobs[i])
  BY SweepFields
<1>3. Claimable(Sweep[j])
  BY DEF Claim
<1>4. GoodRow(Sweep[j]) /\ Solvent(Sweep[j]) /\ ~Exhausted(Sweep[j]) /\ Sweep[j] \in Row
  BY <1>2 DEF Swept
<1>5. GoodRow(r) /\ Solvent(r)
  BY <1>3, <1>4, ClaimRowGood
<1>6. r.rev = Sweep[j].rev
  BY <1>4, ClaimRowFields
<1>7. Sweep[j].state # "ABSENT" /\ jobs[j].state # "ABSENT"
  BY <1>2, <1>3 DEF Swept, Claimable, Waiting, Expired
<1> HIDE DEF r
<1>8. \A i \in JobIds : /\ GoodRow(jobs'[i]) /\ Solvent(jobs'[i])
                        /\ jobs'[i].rev = jobs[i].rev
                        /\ jobs[i].state = "ABSENT" => jobs'[i].state = "ABSENT"
  <2> SUFFICES ASSUME NEW i \in JobIds
               PROVE  /\ GoodRow(jobs'[i]) /\ Solvent(jobs'[i])
                      /\ jobs'[i].rev = jobs[i].rev
                      /\ jobs[i].state = "ABSENT" => jobs'[i].state = "ABSENT"
    OBVIOUS
  <2>1. Swept(Sweep[i], jobs[i])
    BY <1>2
  <2>2. CASE i = j
    BY <2>1, <2>2, <1>1, <1>2, <1>5, <1>6, <1>7 DEF Swept
  <2>3. CASE i # j
    <3>1. jobs'[i] = Sweep[i]
      BY <2>3, <1>1, <1>2
    <3> QED BY <2>1, <3>1 DEF Swept
  <2> QED BY <2>2, <2>3
<1>9. jobs' \in [JobIds -> Row]
  BY <1>1, <1>2, <1>5 DEF GoodRow
<1> QED BY <1>1, <1>8, <1>9, TableKeptByRows

(* A claim that finds nothing but swept jobs keeps the table.               *)
LEMMA TableClaimNothing ==
  ASSUME Table, NEW w \in Workers, ClaimNothing(w)
  PROVE  Table'
<1>1. jobs' = Sweep /\ revision' = revision /\ context' = context
  BY DEF ClaimNothing, packetVars
<1>2. Sweep \in [JobIds -> Row] /\ \A i \in JobIds : Swept(Sweep[i], jobs[i])
  BY SweepFields
<1>3. jobs' \in [JobIds -> Row]
  BY <1>1, <1>2
<1>4. \A i \in JobIds : /\ GoodRow(jobs'[i]) /\ Solvent(jobs'[i])
                        /\ jobs'[i].rev = jobs[i].rev
                        /\ jobs[i].state = "ABSENT" => jobs'[i].state = "ABSENT"
  BY <1>1, <1>2 DEF Swept
<1> QED BY <1>1, <1>3, <1>4, TableKeptByRows

(* A worker that is busy holds a job.                                       *)
WorkersHoldJobs ==
    /\ workers \in [Workers -> Worker]
    /\ \A w \in Workers : workers[w].stage # "idle" => workers[w].job \in JobIds

(* The expiry of a lease keeps the table.                                   *)
LEMMA TableLeaseExpires ==
  ASSUME Table, NEW j \in JobIds, LeaseExpires(j)
  PROVE  Table'
<1> DEFINE row == jobs[j]
           r == [row EXCEPT !.live = FALSE]
<1>1. row.state = "LEASED" /\ jobs' = [jobs EXCEPT ![j] = r] /\ revision' = revision /\ context' = context
  BY DEF LeaseExpires, packetVars
<1>2. GoodRow(row) /\ Solvent(row)
  BY DEF Table
<1>u. row.state # "ABSENT"
  BY <1>1
<1> HIDE DEF row
<1>3. r \in Row
  BY <1>2 DEF GoodRow, Row
<1>4. /\ r.state = row.state /\ r.rev = row.rev /\ r.token = row.token /\ r.class = row.class
      /\ r.bounded = row.bounded /\ r.used = row.used
      /\ r.claims = row.claims /\ r.blocks = row.blocks
  BY <1>2 DEF GoodRow, Row
<1> HIDE DEF r
<1>5. GoodRow(r) /\ Solvent(r)
  BY <1>2, <1>3, <1>4 DEF GoodRow, Solvent
<1>6. r.rev = row.rev /\ r.state # "ABSENT"
  BY <1>u, <1>4
<1> QED BY <1>1, <1>u, <1>5, <1>6, TableRewrite DEF row

(* The completion of a job keeps the table.                                 *)
LEMMA TableComplete ==
  ASSUME Table, WorkersHoldJobs, NEW w \in Workers, Complete(w)
  PROVE  Table'
<1> DEFINE j == workers[w].job
           row == jobs[j]
           r == Unleased(row, "COMPLETED")
<1>1. j \in JobIds /\ row.state = "LEASED"
  BY DEF Complete, WorkersHoldJobs, LeaseValid, LeaseHeld
<1>2. jobs' = [jobs EXCEPT ![j] = r] /\ revision' = revision /\ context' = context
  BY DEF Complete, packetVars
<1>3. GoodRow(row) /\ Solvent(row)
  BY <1>1 DEF Table
<1>4. "COMPLETED" \in States
  BY DEF States, Terminal
<1> HIDE DEF row
<1>5. /\ r \in Row /\ r.state = "COMPLETED" /\ r.token = 0
      /\ r.rev = row.rev /\ r.bounded = row.bounded /\ r.class = row.class
      /\ r.used = row.used /\ r.claims = row.claims /\ r.blocks = row.blocks
  BY <1>3, <1>4, UnleasedFields DEF GoodRow
<1> HIDE DEF r
<1>6. GoodRow(r) /\ Solvent(r)
  BY <1>1, <1>3, <1>5 DEF GoodRow, Solvent, Waiting
<1>7. jobs[j].state # "ABSENT" /\ r.rev = jobs[j].rev /\ r.state # "ABSENT"
  BY <1>1, <1>5 DEF row
<1> HIDE DEF j
<1> QED BY <1>1, <1>2, <1>6, <1>7, TableRewrite

(* The retry RPC keeps the table, whatever it decides.                      *)
LEMMA TableReportFailure ==
  ASSUME Table, WorkersHoldJobs, NEW w \in Workers, NEW e \in Errors, ReportFailure(w, e)
  PROVE  Table'
<1>1. CASE LeaseHeld(w) /\ jobs' = [jobs EXCEPT ![workers[w].job] = RetryRow(jobs[workers[w].job], e)]
  <2> DEFINE j == workers[w].job
             row == jobs[j]
             r == RetryRow(row, e)
  <2>1. j \in JobIds /\ row.state = "LEASED"
    BY <1>1 DEF WorkersHoldJobs, LeaseHeld
  <2>2. jobs' = [jobs EXCEPT ![j] = r] /\ revision' = revision /\ context' = context
    BY <1>1 DEF ReportFailure, packetVars
  <2>3. GoodRow(row) /\ Solvent(row)
    BY <2>1 DEF Table
  <2>4. jobs[j].state # "ABSENT"
    BY <2>1
  <2> HIDE DEF row
  <2>5. /\ GoodRow(r) /\ Solvent(r) /\ r.rev = row.rev
        /\ r.state \in Waiting \union {"DEAD_LETTERED"}
    BY <2>1, <2>3, RetryRowGood
  <2> HIDE DEF r
  <2>6. r.rev = jobs[j].rev /\ r.state # "ABSENT"
    BY <2>5 DEF Waiting, row
  <2> HIDE DEF j
  <2> QED BY <2>1, <2>2, <2>4, <2>5, <2>6, TableRewrite
<1>2. CASE UNCHANGED <<jobs, deadLetterVars>>
  BY <1>2, TableSame DEF ReportFailure, packetVars
<1> QED BY <1>1, <1>2 DEF ReportFailure

(* An operator who parks a job keeps the table.                             *)
LEMMA TableOperatorDeadLetter ==
  ASSUME Table, NEW j \in JobIds, NEW key, OperatorDeadLetter(j, key)
  PROVE  Table'
<1> DEFINE row == jobs[j]
           u == Unleased(row, "DEAD_LETTERED")
           r == [u EXCEPT !.class = "OPERATOR_QUARANTINE"]
<1>1. /\ Claimable(row) /\ revision' = revision /\ context' = context
      /\ jobs' = [jobs EXCEPT ![j] = r]
  BY DEF OperatorDeadLetter, packetVars
<1>2. GoodRow(row) /\ Solvent(row)
  BY DEF Table
<1>3. "DEAD_LETTERED" \in States /\ "OPERATOR_QUARANTINE" \in Classes
  BY DEF States, Terminal, Classes
<1>4. row.state # "ABSENT"
  BY <1>1 DEF Claimable, Expired, Waiting
<1> HIDE DEF row
<1>5. /\ u \in Row /\ u.state = "DEAD_LETTERED" /\ u.token = 0
      /\ u.rev = row.rev /\ u.bounded = row.bounded
      /\ u.used = row.used /\ u.claims = row.claims /\ u.blocks = row.blocks
  BY <1>2, <1>3, UnleasedFields DEF GoodRow
<1> HIDE DEF u
<1>6. r \in Row
  BY <1>3, <1>5 DEF Row
<1>7. /\ r.state = "DEAD_LETTERED" /\ r.token = 0 /\ r.class = "OPERATOR_QUARANTINE"
      /\ r.rev = row.rev /\ r.bounded = row.bounded
      /\ r.used = row.used /\ r.claims = row.claims /\ r.blocks = row.blocks
  BY <1>5 DEF Row
<1> HIDE DEF r
<1>8. GoodRow(r) /\ Solvent(r)
  BY <1>2, <1>6, <1>7 DEF GoodRow, Solvent, Waiting
<1>9. jobs[j].state # "ABSENT" /\ r.rev = jobs[j].rev /\ r.state # "ABSENT"
  BY <1>4, <1>7 DEF row
<1> QED BY <1>1, <1>8, <1>9, TableRewrite

(* An operator who requeues a job keeps the table: the budget is reset.     *)
LEMMA TableOperatorRequeue ==
  ASSUME Table, NEW j \in JobIds, NEW key, OperatorRequeue(j, key)
  PROVE  Table'
<1> DEFINE row == jobs[j]
           r == Revive(row, [row EXCEPT !.state = "QUEUED"])
<1>1. /\ row.state = "DEAD_LETTERED" /\ revision' = revision /\ context' = context
      /\ jobs' = [jobs EXCEPT ![j] = r]
  BY DEF OperatorRequeue, packetVars
<1>2. GoodRow(row)
  BY DEF Table
<1> HIDE DEF row
<1>3. GoodRow(r) /\ Solvent(r) /\ r.state = "QUEUED" /\ r.rev = row.rev
  BY <1>1, <1>2, RequeueRowFields
<1> HIDE DEF r
<1>4. jobs[j].state # "ABSENT" /\ r.rev = jobs[j].rev /\ r.state # "ABSENT"
  BY <1>1, <1>3 DEF row
<1> QED BY <1>1, <1>3, <1>4, TableRewrite

(* No step breaks the table.                                               *)
LEMMA TableStep ==
  ASSUME Table, WorkersHoldJobs, [Next]_vars
  PROVE  Table'
<1>0. ASSUME UNCHANGED vars PROVE Table'
  BY <1>0, TableSame DEF vars, packetVars
<1>1. ASSUME NEW p \in Packets, Enqueue(p) PROVE Table'
  BY <1>1, TableEnqueue
<1>2. ASSUME NEW p \in Packets, AdmitAnswer(p) PROVE Table'
  BY <1>2, TableEnqueueContext DEF AdmitAnswer
<1>3. ASSUME NEW p \in Packets, ConfirmIdentity(p) PROVE Table'
  BY <1>3, TableEnqueueContext DEF ConfirmIdentity
<1>4. ASSUME NEW p \in Packets, CloseCase(p) PROVE Table'
  BY <1>4, TableSame DEF CloseCase, packetVars
<1>5. ASSUME NEW p \in Packets, Failover(p) PROVE Table'
  BY <1>5, TableSame DEF Failover, packetVars
<1>6. ASSUME NEW w \in Workers, LoadEvidence(w) PROVE Table'
  BY <1>6, TableSame DEF LoadEvidence, packetVars
<1>7. ASSUME NEW w \in Workers, TakeClone(w) PROVE Table'
  BY <1>7, TableSame DEF TakeClone, packetVars
<1>8. ASSUME NEW w \in Workers, Interpret(w) PROVE Table'
  BY <1>8, TableSame DEF Interpret, packetVars
<1>9. ASSUME NEW w \in Workers, BeginPersist(w) PROVE Table'
  BY <1>9, TableSame DEF BeginPersist, packetVars
<1>10. ASSUME NEW w \in Workers, Persist(w) PROVE Table'
  BY <1>10, TableSame DEF Persist, packetVars
<1>11. ASSUME NEW w \in Workers, BeginMaterialise(w) PROVE Table'
  BY <1>11, TableSame DEF BeginMaterialise, packetVars
<1>12. ASSUME NEW w \in Workers, Materialise(w) PROVE Table'
  BY <1>12, TableSame DEF Materialise, packetVars
<1>13. ASSUME NEW w \in Workers, Govern(w) PROVE Table'
  BY <1>13, TableSame DEF Govern, packetVars
<1>14. ASSUME NEW w \in Workers, Complete(w) PROVE Table'
  BY <1>14, TableComplete
<1>15. ASSUME NEW w \in Workers, Crash(w) PROVE Table'
  BY <1>15, TableSame DEF Crash, packetVars
<1>16. ASSUME NEW w \in Workers, NEW e \in Errors, ReportFailure(w, e) PROVE Table'
  BY <1>16, TableReportFailure
<1>17. ASSUME NEW w \in Workers, ClaimNothing(w) PROVE Table'
  BY <1>17, TableClaimNothing
<1>18. ASSUME NEW w \in Workers, NEW j \in JobIds, Claim(w, j) PROVE Table'
  BY <1>18, TableClaim
<1>19. ASSUME NEW j \in JobIds, LeaseExpires(j) PROVE Table'
  BY <1>19, TableLeaseExpires
<1>20. ASSUME NEW j \in JobIds, NEW key, OperatorDeadLetter(j, key) PROVE Table'
  BY <1>20, TableOperatorDeadLetter
<1>21. ASSUME NEW j \in JobIds, NEW key, OperatorRequeue(j, key) PROVE Table'
  BY <1>21, TableOperatorRequeue
<1>22. ASSUME NEW j \in JobIds, ResolveDeadLetter(j) PROVE Table'
  BY <1>22, TableSame DEF ResolveDeadLetter, packetVars
<1>23. ASSUME NEW j \in JobIds, CompleteReviewTask(j) PROVE Table'
  BY <1>23, TableSame DEF CompleteReviewTask, packetVars
<1> QED BY <1>0, <1>1, <1>2, <1>3, <1>4, <1>5, <1>6, <1>7, <1>8, <1>9, <1>10,
           <1>11, <1>12, <1>13, <1>14, <1>15, <1>16, <1>17, <1>18, <1>19,
           <1>20, <1>21, <1>22, <1>23 DEF Next, Produce, Work, Operate

-----------------------------------------------------------------------------
(* The other variables.                                                     *)

(* The rest of TypeOK.                                                      *)
Ledgers ==
    /\ case \in [Packets -> {"NONE", "ACTIVE", "CLOSED"}]
    /\ answers \in [Packets -> Nat]
    /\ cause \in [JobIds -> Evidence]
    /\ clone \in [JobIds -> BOOLEAN]
    /\ interps \in [Packets -> Seq(Evidence)]
    /\ applied \in [Packets -> SUBSET Evidence]
    /\ tasks \in [JobIds -> {"NONE", "OPEN", "COMPLETED"}]
    /\ console \in [JobIds -> {"NONE", "OPEN", "CLOSED"}]

(* The memory of an idle worker is well formed.                             *)
LEMMA IdleIsWorker == Idle \in Worker /\ Idle.stage = "idle"
  BY DispatchAssumption DEF Idle, Worker, Stages, Evidence

(* What a worker reads for a job is evidence.                               *)
LEMMA EvidenceOfJob ==
  ASSUME Table, Ledgers, NEW j \in JobIds
  PROVE  EvidenceOf(j) \in Evidence
  BY JobIdsShape DEF Table, Ledgers, EvidenceOf, Evidence

(* A step of a worker that moves it on and leaves what it holds.            *)
LEMMA AdvanceKeeps ==
  ASSUME WorkersHoldJobs, NEW w \in Workers, NEW from, NEW to \in Stages, Advance(w, from, to),
         from # "idle"
  PROVE  WorkersHoldJobs'
<1>1. workers[w] \in Worker /\ workers[w].job \in JobIds
  BY DEF WorkersHoldJobs, Advance
<1>2. workers'[w] = [workers[w] EXCEPT !.stage = to] /\ \A v \in Workers : v # w => workers'[v] = workers[v]
  BY DEF WorkersHoldJobs, Advance
<1>3. workers'[w] \in Worker /\ workers'[w].job = workers[w].job
  BY <1>1, <1>2 DEF Worker
<1>4. workers' \in [Workers -> Worker]
  BY <1>2, <1>3 DEF WorkersHoldJobs, Advance
<1> QED BY <1>1, <1>2, <1>3, <1>4 DEF WorkersHoldJobs

(* A worker that gives up.                                                  *)
LEMMA IdleKeeps ==
  ASSUME WorkersHoldJobs, NEW w \in Workers, workers' = [workers EXCEPT ![w] = Idle]
  PROVE  WorkersHoldJobs'
  BY IdleIsWorker DEF WorkersHoldJobs

(* A worker that has read its evidence.                                     *)
LEMMA ReadKeeps ==
  ASSUME WorkersHoldJobs, NEW w \in Workers, workers[w].stage # "idle",
         NEW to \in Stages, NEW e \in Evidence,
         workers' = [workers EXCEPT ![w].stage = to, ![w].seen = e]
  PROVE  WorkersHoldJobs'
<1>1. workers[w] \in Worker /\ workers[w].job \in JobIds
  BY DEF WorkersHoldJobs
<1>2. /\ workers'[w] = [workers[w] EXCEPT !.stage = to, !.seen = e]
      /\ \A v \in Workers : v # w => workers'[v] = workers[v]
  BY DEF WorkersHoldJobs
<1> DEFINE me == workers[w]
<1> HIDE DEF me
<1>3. workers'[w] \in Worker /\ workers'[w].job = me.job
  <2>1. me \in Worker /\ workers'[w] = [me EXCEPT !.stage = to, !.seen = e]
    BY <1>1, <1>2 DEF me
  <2>2. [me EXCEPT !.stage = to, !.seen = e] \in Worker
    BY <2>1 DEF Worker
  <2>3. [me EXCEPT !.stage = to, !.seen = e].job = me.job
    BY <2>1 DEF Worker
  <2> QED BY <2>1, <2>2, <2>3
<1>4. workers' \in [Workers -> Worker]
  BY <1>2, <1>3 DEF WorkersHoldJobs
<1> QED BY <1>1, <1>2, <1>3, <1>4 DEF WorkersHoldJobs, me

(* What a claim hands to a worker.                                          *)
Holding(j, row) == [Idle EXCEPT !.stage = "claimed", !.job = j,
                                !.token = row.token, !.rev = row.rev]

(* The memory of a worker that has just claimed a job.                      *)
LEMMA HoldingFields ==
  ASSUME NEW j \in JobIds, NEW row \in Row
  PROVE  LET me == Holding(j, row) IN
         /\ me \in Worker
         /\ me.stage = "claimed" /\ me.job = j /\ me.token = row.token /\ me.rev = row.rev
  BY DEF Holding, Idle, Worker, Stages, Row, Evidence

(* A claim gives the worker the token and the revision of the leased row.   *)
LEMMA ClaimHands ==
  ASSUME Table, WorkersHoldJobs, NEW w \in Workers, NEW j \in JobIds, Claim(w, j)
  PROVE  LET row == ClaimRow(Sweep[j]) IN
         /\ workers' = [workers EXCEPT ![w] = Holding(j, row)]
         /\ Holding(j, row) \in Worker
         /\ Holding(j, row).stage = "claimed" /\ Holding(j, row).job = j
         /\ Holding(j, row).token = jobs[j].attempt + 1
         /\ Holding(j, row).rev = jobs[j].rev
<1> DEFINE row == ClaimRow(Sweep[j])
<1>1. Swept(Sweep[j], jobs[j])
  BY SweepFields
<1>2. /\ row \in Row /\ row.token = Sweep[j].attempt + 1 /\ row.rev = Sweep[j].rev
  BY <1>1, ClaimRowFields DEF Swept, GoodRow
<1>3. workers' = [workers EXCEPT ![w] = Holding(j, row)]
  BY DEF Claim, Holding
<1> HIDE DEF row
<1>4. /\ Holding(j, row) \in Worker
      /\ Holding(j, row).stage = "claimed" /\ Holding(j, row).job = j
      /\ Holding(j, row).token = row.token /\ Holding(j, row).rev = row.rev
  BY <1>2, HoldingFields
<1> QED BY <1>1, <1>2, <1>3, <1>4 DEF row, Swept

(* No step makes a worker busy without a job.                              *)
LEMMA WorkersStep ==
  ASSUME Table, Ledgers, WorkersHoldJobs, [Next]_vars
  PROVE  WorkersHoldJobs'
<1>0. ASSUME UNCHANGED vars PROVE WorkersHoldJobs'
  BY <1>0 DEF vars, WorkersHoldJobs
<1>1. ASSUME NEW p \in Packets, Enqueue(p) PROVE WorkersHoldJobs'
  BY <1>1 DEF Enqueue, WorkersHoldJobs
<1>2. ASSUME NEW p \in Packets, AdmitAnswer(p) PROVE WorkersHoldJobs'
  BY <1>2 DEF AdmitAnswer, EnqueueContext, WorkersHoldJobs
<1>3. ASSUME NEW p \in Packets, ConfirmIdentity(p) PROVE WorkersHoldJobs'
  BY <1>3 DEF ConfirmIdentity, EnqueueContext, WorkersHoldJobs
<1>4. ASSUME NEW p \in Packets, CloseCase(p) PROVE WorkersHoldJobs'
  BY <1>4 DEF CloseCase, WorkersHoldJobs
<1>5. ASSUME NEW p \in Packets, Failover(p) PROVE WorkersHoldJobs'
  BY <1>5 DEF Failover, WorkersHoldJobs
<1>6. ASSUME NEW w \in Workers, LoadEvidence(w) PROVE WorkersHoldJobs'
  <2>1. workers[w].stage # "idle" /\ workers[w].job \in JobIds
    BY <1>6 DEF LoadEvidence, WorkersHoldJobs
  <2>2. EvidenceOf(workers[w].job) \in Evidence /\ "loaded" \in Stages
    BY <2>1, EvidenceOfJob DEF Stages
  <2> QED BY <1>6, <2>1, <2>2, ReadKeeps DEF LoadEvidence
<1>7. ASSUME NEW w \in Workers, TakeClone(w) PROVE WorkersHoldJobs'
  <2>1. workers[w].stage # "idle" /\ workers[w].job \in JobIds
    BY <1>7 DEF TakeClone, WorkersHoldJobs
  <2>2. cause[workers[w].job] \in Evidence /\ "persisted" \in Stages
    BY <2>1 DEF Stages, Ledgers
  <2> QED BY <1>7, <2>1, <2>2, ReadKeeps DEF TakeClone
<1>8. ASSUME NEW w \in Workers, Interpret(w) PROVE WorkersHoldJobs'
  <2> DEFINE to == IF Interpreted(workers[w].job[1], workers[w].seen) THEN "persisted" ELSE "interpreted"
  <2>1. to \in Stages
    BY DEF Stages
  <2>2. Advance(w, "loaded", to)
    BY <1>8 DEF Interpret
  <2> HIDE DEF to
  <2> QED BY <2>1, <2>2, AdvanceKeeps
<1>9. ASSUME NEW w \in Workers, BeginPersist(w) PROVE WorkersHoldJobs'
  <2>1. "persisting" \in Stages
    BY DEF Stages
  <2> QED BY <1>9, <2>1, AdvanceKeeps DEF BeginPersist
<1>10. ASSUME NEW w \in Workers, Persist(w) PROVE WorkersHoldJobs'
  <2>1. "persisted" \in Stages
    BY DEF Stages
  <2> QED BY <1>10, <2>1, AdvanceKeeps DEF Persist
<1>11. ASSUME NEW w \in Workers, BeginMaterialise(w) PROVE WorkersHoldJobs'
  <2>1. "materialising" \in Stages
    BY DEF Stages
  <2> QED BY <1>11, <2>1, AdvanceKeeps DEF BeginMaterialise
<1>12. ASSUME NEW w \in Workers, Materialise(w) PROVE WorkersHoldJobs'
  <2> DEFINE to == IF clone[workers[w].job] THEN "governed" ELSE "materialised"
  <2>1. to \in Stages
    BY DEF Stages
  <2>2. Advance(w, "materialising", to)
    BY <1>12 DEF Materialise
  <2> HIDE DEF to
  <2> QED BY <2>1, <2>2, AdvanceKeeps
<1>13. ASSUME NEW w \in Workers, Govern(w) PROVE WorkersHoldJobs'
  <2>1. "governed" \in Stages
    BY DEF Stages
  <2> QED BY <1>13, <2>1, AdvanceKeeps DEF Govern
<1>14. ASSUME NEW w \in Workers, Complete(w) PROVE WorkersHoldJobs'
  BY <1>14, IdleKeeps DEF Complete
<1>15. ASSUME NEW w \in Workers, Crash(w) PROVE WorkersHoldJobs'
  BY <1>15, IdleKeeps DEF Crash
<1>16. ASSUME NEW w \in Workers, NEW e \in Errors, ReportFailure(w, e) PROVE WorkersHoldJobs'
  BY <1>16, IdleKeeps DEF ReportFailure
<1>17. ASSUME NEW w \in Workers, ClaimNothing(w) PROVE WorkersHoldJobs'
  BY <1>17 DEF ClaimNothing, WorkersHoldJobs
<1>18. ASSUME NEW w \in Workers, NEW j \in JobIds, Claim(w, j) PROVE WorkersHoldJobs'
  BY <1>18, ClaimHands DEF WorkersHoldJobs
<1>19. ASSUME NEW j \in JobIds, LeaseExpires(j) PROVE WorkersHoldJobs'
  BY <1>19 DEF LeaseExpires, WorkersHoldJobs
<1>20. ASSUME NEW j \in JobIds, NEW key, OperatorDeadLetter(j, key) PROVE WorkersHoldJobs'
  BY <1>20 DEF OperatorDeadLetter, WorkersHoldJobs
<1>21. ASSUME NEW j \in JobIds, NEW key, OperatorRequeue(j, key) PROVE WorkersHoldJobs'
  BY <1>21 DEF OperatorRequeue, WorkersHoldJobs
<1>22. ASSUME NEW j \in JobIds, ResolveDeadLetter(j) PROVE WorkersHoldJobs'
  BY <1>22 DEF ResolveDeadLetter, WorkersHoldJobs
<1>23. ASSUME NEW j \in JobIds, CompleteReviewTask(j) PROVE WorkersHoldJobs'
  BY <1>23 DEF CompleteReviewTask, WorkersHoldJobs
<1> QED BY <1>0, <1>1, <1>2, <1>3, <1>4, <1>5, <1>6, <1>7, <1>8, <1>9, <1>10,
           <1>11, <1>12, <1>13, <1>14, <1>15, <1>16, <1>17, <1>18, <1>19,
           <1>20, <1>21, <1>22, <1>23 DEF Next, Produce, Work, Operate

(* No step puts a wrong kind of value into the other tables.                *)
LEMMA LedgersStep ==
  ASSUME Table, Ledgers, WorkersHoldJobs, [Next]_vars
  PROVE  Ledgers'
<1>0. ASSUME UNCHANGED vars PROVE Ledgers'
  BY <1>0 DEF vars, packetVars, deadLetterVars, Ledgers
<1>1. ASSUME NEW p \in Packets, Enqueue(p) PROVE Ledgers'
  BY <1>1 DEF Enqueue, RecordSweep, packetVars, deadLetterVars, Ledgers
<1>2. ASSUME NEW p \in Packets, AdmitAnswer(p) PROVE Ledgers'
  <2> DEFINE e == [msgs |-> revision[p], answers |-> answers[p] + 1]
  <2>1. e \in Evidence /\ answers' \in [Packets -> Nat]
    BY <1>2 DEF Table, Ledgers, Evidence, AdmitAnswer
  <2>2. EnqueueContext(p, e, FALSE)
    BY <1>2 DEF AdmitAnswer
  <2> HIDE DEF e
  <2> QED BY <2>1, <2>2 DEF EnqueueContext, Ledgers, deadLetterVars
<1>3. ASSUME NEW p \in Packets, ConfirmIdentity(p) PROVE Ledgers'
  <2> DEFINE e == interps[p][Len(interps[p])]
  <2>1. interps[p] \in Seq(Evidence) /\ interps[p] # << >>
    BY <1>3 DEF Ledgers, ConfirmIdentity
  <2>2. e \in Evidence
    BY <2>1
  <2>3. EnqueueContext(p, e, TRUE) /\ answers' = answers
    BY <1>3 DEF ConfirmIdentity
  <2> HIDE DEF e
  <2> QED BY <2>2, <2>3 DEF EnqueueContext, Ledgers, deadLetterVars
<1>4. ASSUME NEW p \in Packets, CloseCase(p) PROVE Ledgers'
  BY <1>4 DEF CloseCase, RecordSweep, packetVars, deadLetterVars, Ledgers
<1>5. ASSUME NEW p \in Packets, Failover(p) PROVE Ledgers'
  BY <1>5 DEF Failover, RecordSweep, packetVars, deadLetterVars, Ledgers
<1>6. ASSUME NEW w \in Workers, LoadEvidence(w) PROVE Ledgers'
  BY <1>6 DEF LoadEvidence, RecordSweep, packetVars, deadLetterVars, Ledgers
<1>7. ASSUME NEW w \in Workers, TakeClone(w) PROVE Ledgers'
  BY <1>7 DEF TakeClone, RecordSweep, packetVars, deadLetterVars, Ledgers
<1>8. ASSUME NEW w \in Workers, Interpret(w) PROVE Ledgers'
  BY <1>8 DEF Interpret, RecordSweep, packetVars, deadLetterVars, Ledgers
<1>9. ASSUME NEW w \in Workers, BeginPersist(w) PROVE Ledgers'
  BY <1>9 DEF BeginPersist, RecordSweep, packetVars, deadLetterVars, Ledgers
<1>10. ASSUME NEW w \in Workers, Persist(w) PROVE Ledgers'
  <2> DEFINE me == workers[w]
             q == IF Interpreted(me.job[1], me.seen) THEN interps[me.job[1]]
                  ELSE Append(interps[me.job[1]], me.seen)
  <2>1. me \in Worker /\ me.job \in JobIds
    BY <1>10 DEF Persist, Advance, WorkersHoldJobs
  <2>2. me.job[1] \in Packets /\ me.seen \in Evidence
    BY <2>1, JobIdsShape DEF Worker
  <2>3. interps' = [interps EXCEPT ![me.job[1]] = q]
    BY <1>10 DEF Persist
  <2>4. q \in Seq(Evidence)
    BY <2>2 DEF Ledgers
  <2> HIDE DEF me, q
  <2> QED BY <1>10, <2>2, <2>3, <2>4, ZenonT(30) DEF Persist, packetVars, deadLetterVars, Ledgers
<1>11. ASSUME NEW w \in Workers, BeginMaterialise(w) PROVE Ledgers'
  BY <1>11 DEF BeginMaterialise, RecordSweep, packetVars, deadLetterVars, Ledgers
<1>12. ASSUME NEW w \in Workers, Materialise(w) PROVE Ledgers'
  <2> DEFINE p == workers[w].job[1]
             e == workers[w].seen
             c == IF case[p] = "NONE" THEN "ACTIVE" ELSE case[p]
  <2>1. workers[w] \in Worker /\ workers[w].job \in JobIds
    BY <1>12 DEF Materialise, Advance, WorkersHoldJobs
  <2>2. p \in Packets /\ e \in Evidence
    BY <2>1, JobIdsShape DEF Worker
  <2>3. c \in {"NONE", "ACTIVE", "CLOSED"}
    BY <2>2 DEF Ledgers
  <2>4. /\ applied' = [applied EXCEPT ![p] = applied[p] \union {e}]
        /\ case' = [case EXCEPT ![p] = c]
        /\ UNCHANGED <<answers, cause, clone, interps, tasks, console>>
    BY <1>12 DEF Materialise, deadLetterVars
  <2> HIDE DEF p, e, c
  <2>5. applied' \in [Packets -> SUBSET Evidence]
    BY <2>2, <2>4 DEF Ledgers
  <2>6. case' \in [Packets -> {"NONE", "ACTIVE", "CLOSED"}]
    BY <2>2, <2>3, <2>4 DEF Ledgers
  <2> QED BY <2>4, <2>5, <2>6 DEF Ledgers
<1>13. ASSUME NEW w \in Workers, Govern(w) PROVE Ledgers'
  BY <1>13 DEF Govern, RecordSweep, packetVars, deadLetterVars, Ledgers
<1>14. ASSUME NEW w \in Workers, Complete(w) PROVE Ledgers'
  BY <1>14 DEF Complete, RecordSweep, packetVars, deadLetterVars, Ledgers
<1>15. ASSUME NEW w \in Workers, Crash(w) PROVE Ledgers'
  BY <1>15 DEF Crash, RecordSweep, packetVars, deadLetterVars, Ledgers
<1>16. ASSUME NEW w \in Workers, NEW e \in Errors, ReportFailure(w, e) PROVE Ledgers'
  <2>1. CASE UNCHANGED <<jobs, deadLetterVars>>
    BY <1>16, <2>1 DEF ReportFailure, packetVars, deadLetterVars, Ledgers
  <2>2. CASE RecordFailure(workers[w].job, e)
    <3>1. /\ console' \in [JobIds -> {"NONE", "OPEN", "CLOSED"}]
          /\ tasks' \in [JobIds -> {"NONE", "OPEN", "COMPLETED"}]
      BY <2>2 DEF RecordFailure, Ledgers
    <3> QED BY <1>16, <3>1 DEF ReportFailure, packetVars, Ledgers
  <2> QED BY <1>16, <2>1, <2>2 DEF ReportFailure
<1>17. ASSUME NEW w \in Workers, ClaimNothing(w) PROVE Ledgers'
  BY <1>17 DEF ClaimNothing, RecordSweep, packetVars, deadLetterVars, Ledgers
<1>18. ASSUME NEW w \in Workers, NEW j \in JobIds, Claim(w, j) PROVE Ledgers'
  BY <1>18 DEF Claim, RecordSweep, packetVars, deadLetterVars, Ledgers
<1>19. ASSUME NEW j \in JobIds, LeaseExpires(j) PROVE Ledgers'
  BY <1>19 DEF LeaseExpires, RecordSweep, packetVars, deadLetterVars, Ledgers
<1>20. ASSUME NEW j \in JobIds, NEW key, OperatorDeadLetter(j, key) PROVE Ledgers'
  BY <1>20 DEF OperatorDeadLetter, RecordSweep, packetVars, deadLetterVars, Ledgers
<1>21. ASSUME NEW j \in JobIds, NEW key, OperatorRequeue(j, key) PROVE Ledgers'
  BY <1>21 DEF OperatorRequeue, RecordSweep, packetVars, deadLetterVars, Ledgers
<1>22. ASSUME NEW j \in JobIds, ResolveDeadLetter(j) PROVE Ledgers'
  BY <1>22 DEF ResolveDeadLetter, RecordSweep, packetVars, deadLetterVars, Ledgers
<1>23. ASSUME NEW j \in JobIds, CompleteReviewTask(j) PROVE Ledgers'
  BY <1>23 DEF CompleteReviewTask, RecordSweep, packetVars, deadLetterVars, Ledgers
<1> QED BY <1>0, <1>1, <1>2, <1>3, <1>4, <1>5, <1>6, <1>7, <1>8, <1>9, <1>10,
           <1>11, <1>12, <1>13, <1>14, <1>15, <1>16, <1>17, <1>18, <1>19,
           <1>20, <1>21, <1>22, <1>23 DEF Next, Produce, Work, Operate

-----------------------------------------------------------------------------
(* Types, and the bound on attempts.                                        *)

Shape == Table /\ Ledgers /\ WorkersHoldJobs

(* The table, the ledgers and the workers keep their shape.                 *)
LEMMA ShapeInvariant == Spec => []Shape
<1>1. Init => Shape
  <2> SUFFICES ASSUME Init PROVE Shape
    OBVIOUS
  <2>1. Table
    BY TableInit
  <2>2. Ledgers
    BY IdleIsWorker DEF Init, Ledgers, Idle, Evidence
  <2>3. WorkersHoldJobs
    BY IdleIsWorker DEF Init, WorkersHoldJobs
  <2> QED BY <2>1, <2>2, <2>3 DEF Shape
<1>2. Shape /\ [Next]_vars => Shape'
  BY TableStep, LedgersStep, WorkersStep DEF Shape
<1> QED BY <1>1, <1>2, PTL DEF Spec

(* Every column of the dispatch tables, and what every worker holds, is of  *)
(* the kind the code and the table's check constraints say.                 *)
THEOREM TypeCorrect == Spec => []TypeOK
<1>1. Shape => TypeOK
  BY DEF Shape, Table, Ledgers, WorkersHoldJobs, TypeOK, GoodRow
<1> QED BY <1>1, ShapeInvariant, PTL

(* No job is claimed more often than its budget, knowledge outages apart.   *)
THEOREM AttemptsAreBounded == Spec => []AttemptsBounded
<1>1. Shape => AttemptsBounded
  BY DEF Shape, Table, AttemptsBounded, Solvent
<1> QED BY <1>1, ShapeInvariant, PTL

-----------------------------------------------------------------------------
(* Leases.                                                                  *)

(* A busy worker's token was handed out by a claim of its job, and no two   *)
(* workers were handed the same.                                            *)
Tokens ==
    \A w \in Workers : workers[w].stage # "idle" =>
        /\ jobs[workers[w].job].state # "ABSENT"
        /\ workers[w].token <= jobs[workers[w].job].attempt
        /\ \A v \in Workers \ {w} :
             workers[v].stage # "idle" /\ workers[v].job = workers[w].job
               => workers[v].token # workers[w].token

(* What a step does to the rows and the workers, as far as tokens go.       *)
LEMMA TokensKept ==
  ASSUME Tokens, Shape, Shape',
         \A j \in JobIds : jobs[j].state # "ABSENT" =>
             jobs'[j].state # "ABSENT" /\ jobs'[j].attempt >= jobs[j].attempt,
         \A w \in Workers : workers'[w].stage # "idle" =>
             /\ workers[w].stage # "idle"
             /\ workers'[w].job = workers[w].job /\ workers'[w].token = workers[w].token
  PROVE  Tokens'
<1> SUFFICES ASSUME NEW w \in Workers, workers'[w].stage # "idle"
             PROVE  /\ jobs'[workers'[w].job].state # "ABSENT"
                    /\ workers'[w].token <= jobs'[workers'[w].job].attempt
                    /\ \A v \in Workers \ {w} :
                         workers'[v].stage # "idle" /\ workers'[v].job = workers'[w].job
                           => workers'[v].token # workers'[w].token
  BY DEF Tokens
<1> DEFINE j == workers[w].job
<1>1. /\ workers[w].stage # "idle" /\ workers'[w].job = j /\ workers'[w].token = workers[w].token
      /\ j \in JobIds /\ workers[w].token \in Nat
  BY DEF Shape, WorkersHoldJobs, Worker
<1>2. jobs[j].state # "ABSENT" /\ workers[w].token <= jobs[j].attempt
  BY <1>1 DEF Tokens
<1>3. jobs'[j].state # "ABSENT" /\ jobs'[j].attempt >= jobs[j].attempt
  BY <1>1, <1>2
<1>4. jobs[j].attempt \in Nat /\ jobs'[j].attempt \in Nat
  BY <1>1 DEF Shape, Table, Row
<1>5. \A v \in Workers \ {w} :
        workers'[v].stage # "idle" /\ workers'[v].job = workers'[w].job
          => workers'[v].token # workers'[w].token
  BY <1>1 DEF Tokens
<1> HIDE DEF j
<1> QED BY <1>1, <1>2, <1>3, <1>4, <1>5

(* Rows are never deleted and their attempt counters never fall back.       *)
RowsGrow ==
    \A j \in JobIds : jobs[j].state # "ABSENT" =>
        jobs'[j].state # "ABSENT" /\ jobs'[j].attempt >= jobs[j].attempt

(* One row that moved forward, the others untouched.                        *)
LEMMA RowsGrowByOne ==
  ASSUME Shape, NEW j \in JobIds, NEW r, jobs' = [jobs EXCEPT ![j] = r],
         jobs[j].state # "ABSENT" => r.state # "ABSENT" /\ r.attempt >= jobs[j].attempt
  PROVE  RowsGrow
<1> SUFFICES ASSUME NEW i \in JobIds, jobs[i].state # "ABSENT"
             PROVE  jobs'[i].state # "ABSENT" /\ jobs'[i].attempt >= jobs[i].attempt
  BY DEF RowsGrow
<1>1. jobs[i].attempt \in Nat /\ jobs'[i] = IF i = j THEN r ELSE jobs[i]
  BY DEF Shape, Table, Row
<1>2. CASE i = j
  BY <1>1, <1>2
<1>3. CASE i # j
  BY <1>1, <1>3
<1> QED BY <1>2, <1>3

(* Rows left alone have not moved backward.                                 *)
LEMMA RowsGrowUnchanged ==
  ASSUME Shape, jobs' = jobs
  PROVE  RowsGrow
  BY DEF RowsGrow, Shape, Table, Row

(* A row that gives up its lease has not moved backward.                    *)
LEMMA RowsGrowUnleased ==
  ASSUME Shape, NEW j \in JobIds, NEW state \in States \ {"ABSENT"}, NEW class,
         \/ jobs' = [jobs EXCEPT ![j] = Unleased(jobs[j], state)]
         \/ jobs' = [jobs EXCEPT ![j] = [Unleased(jobs[j], state) EXCEPT !.class = class]]
  PROVE  RowsGrow
<1> DEFINE row == jobs[j]
           u == Unleased(row, state)
           c == [u EXCEPT !.class = class]
<1>1. row \in Row /\ row.attempt \in Nat
  BY DEF Shape, Table, Row
<1>2. \/ jobs' = [jobs EXCEPT ![j] = u]
      \/ jobs' = [jobs EXCEPT ![j] = c]
  OBVIOUS
<1> HIDE DEF row
<1>3. u \in Row /\ u.state = state /\ u.attempt = row.attempt
  BY <1>1, UnleasedFields
<1> HIDE DEF u
<1>4. c.state = state /\ c.attempt = row.attempt
  BY <1>3 DEF Row
<1> HIDE DEF c
<1>5. u.state # "ABSENT" /\ u.attempt >= row.attempt /\ c.state # "ABSENT" /\ c.attempt >= row.attempt
  BY <1>1, <1>3, <1>4
<1> QED BY <1>2, <1>5, RowsGrowByOne DEF row

(* No step removes a row or takes its attempt count back.                   *)
LEMMA RowsGrowStep ==
  ASSUME Shape, [Next]_vars
  PROVE  RowsGrow
<1>0. ASSUME UNCHANGED vars PROVE RowsGrow
  BY <1>0, RowsGrowUnchanged DEF vars
<1>1. ASSUME NEW p \in Packets, Enqueue(p) PROVE RowsGrow
  <2> DEFINE j == <<p, 0>>
             rev == revision[p] + 1
             row == jobs[j]
             r == EnqueueRow(row, rev)
  <2>1. j \in JobIds /\ rev \in Nat /\ rev # revision[p]
    BY JobIdsShape DEF Shape, Table
  <2>2. row.state = "ABSENT" \/ row.rev # rev
    BY <2>1 DEF Shape, Table, RevisionOfPacket
  <2>3. GoodRow(row) /\ row.attempt \in Nat
    BY <2>1 DEF Shape, Table, GoodRow, Row
  <2>4. jobs' = [jobs EXCEPT ![j] = r]
    BY <1>1 DEF Enqueue
  <2> HIDE DEF rev, row
  <2>5. Enqueued(r, row, rev)
    BY <2>1, <2>2, <2>3, EnqueueRowFields
  <2> HIDE DEF r
  <2>6. row.state # "ABSENT" => r.state # "ABSENT" /\ r.attempt >= row.attempt
    BY <2>3, <2>5 DEF Enqueued
  <2> QED BY <2>1, <2>4, <2>6, RowsGrowByOne DEF row
<1>2. ASSUME NEW p \in Packets, AdmitAnswer(p) PROVE RowsGrow
  <2>1. PICK evidence, cloned : EnqueueContext(p, evidence, cloned)
    BY <1>2 DEF AdmitAnswer
  <2> DEFINE k == context[p] + 1
             j == <<p, k>>
  <2>2. k \in 1 .. MaxContexts /\ k > context[p] /\ j \in JobIds
    BY <2>1, JobIdsShape, DispatchAssumption DEF EnqueueContext, Shape, Table
  <2>3. jobs[j].state = "ABSENT"
    BY <2>2, JobIdsShape DEF Shape, Table, ContextsInOrder
  <2>4. jobs' = [jobs EXCEPT ![j] = NewRow(k)]
    BY <2>1 DEF EnqueueContext
  <2> HIDE DEF j, k
  <2> QED BY <2>2, <2>3, <2>4, RowsGrowByOne
<1>3. ASSUME NEW p \in Packets, ConfirmIdentity(p) PROVE RowsGrow
  <2>1. PICK evidence, cloned : EnqueueContext(p, evidence, cloned)
    BY <1>3 DEF ConfirmIdentity
  <2> DEFINE k == context[p] + 1
             j == <<p, k>>
  <2>2. k \in 1 .. MaxContexts /\ k > context[p] /\ j \in JobIds
    BY <2>1, JobIdsShape, DispatchAssumption DEF EnqueueContext, Shape, Table
  <2>3. jobs[j].state = "ABSENT"
    BY <2>2, JobIdsShape DEF Shape, Table, ContextsInOrder
  <2>4. jobs' = [jobs EXCEPT ![j] = NewRow(k)]
    BY <2>1 DEF EnqueueContext
  <2> HIDE DEF j, k
  <2> QED BY <2>2, <2>3, <2>4, RowsGrowByOne
<1>4. ASSUME NEW p \in Packets, CloseCase(p) PROVE RowsGrow
  BY <1>4, RowsGrowUnchanged DEF CloseCase
<1>5. ASSUME NEW p \in Packets, Failover(p) PROVE RowsGrow
  BY <1>5, RowsGrowUnchanged DEF Failover
<1>6. ASSUME NEW w \in Workers, LoadEvidence(w) PROVE RowsGrow
  BY <1>6, RowsGrowUnchanged DEF LoadEvidence
<1>7. ASSUME NEW w \in Workers, TakeClone(w) PROVE RowsGrow
  BY <1>7, RowsGrowUnchanged DEF TakeClone
<1>8. ASSUME NEW w \in Workers, Interpret(w) PROVE RowsGrow
  BY <1>8, RowsGrowUnchanged DEF Interpret
<1>9. ASSUME NEW w \in Workers, BeginPersist(w) PROVE RowsGrow
  BY <1>9, RowsGrowUnchanged DEF BeginPersist
<1>10. ASSUME NEW w \in Workers, Persist(w) PROVE RowsGrow
  BY <1>10, RowsGrowUnchanged DEF Persist
<1>11. ASSUME NEW w \in Workers, BeginMaterialise(w) PROVE RowsGrow
  BY <1>11, RowsGrowUnchanged DEF BeginMaterialise
<1>12. ASSUME NEW w \in Workers, Materialise(w) PROVE RowsGrow
  BY <1>12, RowsGrowUnchanged DEF Materialise
<1>13. ASSUME NEW w \in Workers, Govern(w) PROVE RowsGrow
  BY <1>13, RowsGrowUnchanged DEF Govern
<1>14. ASSUME NEW w \in Workers, Complete(w) PROVE RowsGrow
  <2>1. workers[w].job \in JobIds /\ "COMPLETED" \in States \ {"ABSENT"}
    BY <1>14 DEF Complete, Shape, WorkersHoldJobs, States, Terminal
  <2> QED BY <1>14, <2>1, RowsGrowUnleased DEF Complete
<1>15. ASSUME NEW w \in Workers, Crash(w) PROVE RowsGrow
  BY <1>15, RowsGrowUnchanged DEF Crash
<1>16. ASSUME NEW w \in Workers, NEW e \in Errors, ReportFailure(w, e) PROVE RowsGrow
  <2>1. CASE jobs' = jobs
    BY <2>1, RowsGrowUnchanged
  <2>2. CASE LeaseHeld(w) /\ jobs' = [jobs EXCEPT ![workers[w].job] = RetryRow(jobs[workers[w].job], e)]
    <3> DEFINE j == workers[w].job
               row == jobs[j]
               r == RetryRow(row, e)
    <3>1. j \in JobIds /\ row.state = "LEASED" /\ jobs' = [jobs EXCEPT ![j] = r]
      BY <2>2 DEF Shape, WorkersHoldJobs, LeaseHeld
    <3>2. GoodRow(row) /\ Solvent(row) /\ row.attempt \in Nat
      BY <3>1 DEF Shape, Table, Row
    <3> HIDE DEF row, j
    <3>3. r.attempt = row.attempt /\ r.state \in Waiting \union {"DEAD_LETTERED"}
      BY <3>1, <3>2, RetryRowGood
    <3> HIDE DEF r
    <3>4. r.state # "ABSENT" /\ r.attempt >= row.attempt
      BY <3>2, <3>3 DEF Waiting
    <3> QED BY <3>1, <3>4, RowsGrowByOne DEF row
  <2> QED BY <1>16, <2>1, <2>2 DEF ReportFailure
<1>17. ASSUME NEW w \in Workers, ClaimNothing(w) PROVE RowsGrow
  <2>1. jobs' = Sweep /\ \A j \in JobIds : Swept(Sweep[j], jobs[j]) /\ jobs[j].attempt \in Nat
    BY <1>17, SweepFields DEF ClaimNothing, Shape, Table, Row
  <2> QED BY <2>1 DEF RowsGrow, Swept
<1>18. ASSUME NEW w \in Workers, NEW j \in JobIds, Claim(w, j) PROVE RowsGrow
  <2> DEFINE r == ClaimRow(Sweep[j])
  <2>1. /\ jobs' = [Sweep EXCEPT ![j] = r] /\ Sweep \in [JobIds -> Row]
        /\ \A i \in JobIds : Swept(Sweep[i], jobs[i]) /\ jobs[i].attempt \in Nat
    BY <1>18, SweepFields DEF Claim, Shape, Table, Row
  <2>2. Sweep[j] \in Row /\ Sweep[j].attempt = jobs[j].attempt
    BY <2>1 DEF Swept
  <2>3. r.state = "LEASED" /\ r.attempt = jobs[j].attempt + 1
    BY <2>2, ClaimRowFields
  <2> HIDE DEF r
  <2>4. SUFFICES ASSUME NEW i \in JobIds, jobs[i].state # "ABSENT"
                 PROVE  jobs'[i].state # "ABSENT" /\ jobs'[i].attempt >= jobs[i].attempt
    BY DEF RowsGrow
  <2>5. CASE i = j
    BY <2>1, <2>3, <2>5
  <2>6. CASE i # j
    <3>1. jobs'[i] = Sweep[i]
      BY <2>1, <2>6
    <3> QED BY <2>1, <2>4, <3>1 DEF Swept
  <2> QED BY <2>5, <2>6
<1>19. ASSUME NEW j \in JobIds, LeaseExpires(j) PROVE RowsGrow
  <2> DEFINE row == jobs[j]
             r == [row EXCEPT !.live = FALSE]
  <2>1. row \in Row /\ row.attempt \in Nat /\ jobs' = [jobs EXCEPT ![j] = r]
    BY <1>19 DEF LeaseExpires, Shape, Table, Row
  <2> HIDE DEF row
  <2>2. r.state = row.state /\ r.attempt = row.attempt
    BY <2>1 DEF Row
  <2> HIDE DEF r
  <2>3. row.state # "ABSENT" => r.state # "ABSENT" /\ r.attempt >= row.attempt
    BY <2>1, <2>2
  <2> QED BY <2>1, <2>3, RowsGrowByOne DEF row
<1>20. ASSUME NEW j \in JobIds, NEW key, OperatorDeadLetter(j, key) PROVE RowsGrow
  <2>1. "DEAD_LETTERED" \in States \ {"ABSENT"}
    BY DEF States, Terminal
  <2> QED BY <1>20, <2>1, RowsGrowUnleased DEF OperatorDeadLetter
<1>21. ASSUME NEW j \in JobIds, NEW key, OperatorRequeue(j, key) PROVE RowsGrow
  <2> DEFINE row == jobs[j]
             r == Revive(row, [row EXCEPT !.state = "QUEUED"])
  <2>1. row.state = "DEAD_LETTERED" /\ GoodRow(row) /\ row.attempt \in Nat
        /\ jobs' = [jobs EXCEPT ![j] = r]
    BY <1>21 DEF OperatorRequeue, Shape, Table, Row
  <2> HIDE DEF row
  <2>2. r.state = "QUEUED" /\ r.attempt = row.attempt
    BY <2>1, RequeueRowFields
  <2> HIDE DEF r
  <2>3. r.state # "ABSENT" /\ r.attempt >= row.attempt
    BY <2>1, <2>2
  <2> QED BY <2>1, <2>3, RowsGrowByOne DEF row
<1>22. ASSUME NEW j \in JobIds, ResolveDeadLetter(j) PROVE RowsGrow
  BY <1>22, RowsGrowUnchanged DEF ResolveDeadLetter
<1>23. ASSUME NEW j \in JobIds, CompleteReviewTask(j) PROVE RowsGrow
  BY <1>23, RowsGrowUnchanged DEF CompleteReviewTask
<1> QED BY <1>0, <1>1, <1>2, <1>3, <1>4, <1>5, <1>6, <1>7, <1>8, <1>9, <1>10,
           <1>11, <1>12, <1>13, <1>14, <1>15, <1>16, <1>17, <1>18, <1>19,
           <1>20, <1>21, <1>22, <1>23 DEF Next, Produce, Work, Operate

(* Only a claim gives a worker a job or a token.                            *)
HoldersKept ==
    \A w \in Workers : workers'[w].stage # "idle" =>
        /\ workers[w].stage # "idle"
        /\ workers'[w].job = workers[w].job
        /\ workers'[w].token = workers[w].token
        /\ workers'[w].rev = workers[w].rev

(* Workers left alone hold what they held.                                  *)
LEMMA HoldersKeptUnchanged ==
  ASSUME workers' = workers
  PROVE  HoldersKept
  BY DEF HoldersKept

(* A worker that becomes idle holds nothing; the others are untouched.      *)
LEMMA HoldersKeptIdle ==
  ASSUME Shape, NEW w \in Workers, workers' = [workers EXCEPT ![w] = Idle]
  PROVE  HoldersKept
  BY IdleIsWorker DEF HoldersKept, Shape, WorkersHoldJobs

(* A worker that moves to its next stage keeps job, token and revision.     *)
LEMMA HoldersKeptAdvance ==
  ASSUME Shape, NEW w \in Workers, NEW from, NEW to, Advance(w, from, to), from # "idle"
  PROVE  HoldersKept
<1> SUFFICES ASSUME NEW v \in Workers, workers'[v].stage # "idle"
             PROVE  /\ workers[v].stage # "idle"
                    /\ workers'[v].job = workers[v].job
                    /\ workers'[v].token = workers[v].token
                    /\ workers'[v].rev = workers[v].rev
  BY DEF HoldersKept
<1>1. workers'[v] = IF v = w THEN [workers[w] EXCEPT !.stage = to] ELSE workers[v]
  BY DEF Advance, Shape, WorkersHoldJobs
<1>2. workers[w] \in Worker /\ workers[w].stage = from
  BY DEF Advance, Shape, WorkersHoldJobs
<1> DEFINE me == workers[w]
<1> HIDE DEF me
<1>3. LET n == [me EXCEPT !.stage = to] IN n.job = me.job /\ n.token = me.token /\ n.rev = me.rev
  BY <1>2 DEF Worker, me
<1>4. CASE v = w
  BY <1>1, <1>2, <1>3, <1>4 DEF me
<1>5. CASE v # w
  BY <1>1, <1>5
<1> QED BY <1>4, <1>5

(* A worker that reads its evidence keeps job, token and revision.          *)
LEMMA HoldersKeptRead ==
  ASSUME Shape, NEW w \in Workers, NEW to, NEW e, workers[w].stage # "idle",
         workers' = [workers EXCEPT ![w].stage = to, ![w].seen = e]
  PROVE  HoldersKept
<1> SUFFICES ASSUME NEW v \in Workers, workers'[v].stage # "idle"
             PROVE  /\ workers[v].stage # "idle"
                    /\ workers'[v].job = workers[v].job
                    /\ workers'[v].token = workers[v].token
                    /\ workers'[v].rev = workers[v].rev
  BY DEF HoldersKept
<1>1. workers'[v] = IF v = w THEN [workers[w] EXCEPT !.stage = to, !.seen = e] ELSE workers[v]
  BY DEF Shape, WorkersHoldJobs
<1>2. workers[w] \in Worker
  BY DEF Shape, WorkersHoldJobs
<1> DEFINE me == workers[w]
<1> HIDE DEF me
<1>3. LET n == [me EXCEPT !.stage = to, !.seen = e]
      IN  n.job = me.job /\ n.token = me.token /\ n.rev = me.rev
  BY <1>2 DEF Worker, me
<1>4. CASE v = w
  BY <1>1, <1>2, <1>3, <1>4 DEF me
<1>5. CASE v # w
  BY <1>1, <1>5
<1> QED BY <1>4, <1>5

(* Outside a claim, no worker comes to hold a token it did not hold.        *)
LEMMA HoldersKeptStep ==
  ASSUME Shape, \A v \in Workers, i \in JobIds : ~Claim(v, i), [Next]_vars
  PROVE  HoldersKept
<1>0. ASSUME UNCHANGED vars PROVE HoldersKept
  BY <1>0, HoldersKeptUnchanged DEF vars
<1>1. ASSUME NEW p \in Packets, Enqueue(p) PROVE HoldersKept
  BY <1>1, HoldersKeptUnchanged DEF Enqueue
<1>2. ASSUME NEW p \in Packets, AdmitAnswer(p) PROVE HoldersKept
  BY <1>2, HoldersKeptUnchanged DEF AdmitAnswer, EnqueueContext
<1>3. ASSUME NEW p \in Packets, ConfirmIdentity(p) PROVE HoldersKept
  BY <1>3, HoldersKeptUnchanged DEF ConfirmIdentity, EnqueueContext
<1>4. ASSUME NEW p \in Packets, CloseCase(p) PROVE HoldersKept
  BY <1>4, HoldersKeptUnchanged DEF CloseCase
<1>5. ASSUME NEW p \in Packets, Failover(p) PROVE HoldersKept
  BY <1>5, HoldersKeptUnchanged DEF Failover
<1>6. ASSUME NEW w \in Workers, LoadEvidence(w) PROVE HoldersKept
  BY <1>6, HoldersKeptRead DEF LoadEvidence
<1>7. ASSUME NEW w \in Workers, TakeClone(w) PROVE HoldersKept
  BY <1>7, HoldersKeptRead DEF TakeClone
<1>8. ASSUME NEW w \in Workers, Interpret(w) PROVE HoldersKept
  BY <1>8, HoldersKeptAdvance DEF Interpret
<1>9. ASSUME NEW w \in Workers, BeginPersist(w) PROVE HoldersKept
  BY <1>9, HoldersKeptAdvance DEF BeginPersist
<1>10. ASSUME NEW w \in Workers, Persist(w) PROVE HoldersKept
  BY <1>10, HoldersKeptAdvance DEF Persist
<1>11. ASSUME NEW w \in Workers, BeginMaterialise(w) PROVE HoldersKept
  BY <1>11, HoldersKeptAdvance DEF BeginMaterialise
<1>12. ASSUME NEW w \in Workers, Materialise(w) PROVE HoldersKept
  BY <1>12, HoldersKeptAdvance DEF Materialise
<1>13. ASSUME NEW w \in Workers, Govern(w) PROVE HoldersKept
  BY <1>13, HoldersKeptAdvance DEF Govern
<1>14. ASSUME NEW w \in Workers, Complete(w) PROVE HoldersKept
  BY <1>14, HoldersKeptIdle DEF Complete
<1>15. ASSUME NEW w \in Workers, Crash(w) PROVE HoldersKept
  BY <1>15, HoldersKeptIdle DEF Crash
<1>16. ASSUME NEW w \in Workers, NEW e \in Errors, ReportFailure(w, e) PROVE HoldersKept
  BY <1>16, HoldersKeptIdle DEF ReportFailure
<1>17. ASSUME NEW w \in Workers, ClaimNothing(w) PROVE HoldersKept
  BY <1>17, HoldersKeptUnchanged DEF ClaimNothing
<1>18. ASSUME NEW w \in Workers, NEW j \in JobIds, Claim(w, j) PROVE HoldersKept
  BY <1>18
<1>19. ASSUME NEW j \in JobIds, LeaseExpires(j) PROVE HoldersKept
  BY <1>19, HoldersKeptUnchanged DEF LeaseExpires
<1>20. ASSUME NEW j \in JobIds, NEW key, OperatorDeadLetter(j, key) PROVE HoldersKept
  BY <1>20, HoldersKeptUnchanged DEF OperatorDeadLetter
<1>21. ASSUME NEW j \in JobIds, NEW key, OperatorRequeue(j, key) PROVE HoldersKept
  BY <1>21, HoldersKeptUnchanged DEF OperatorRequeue
<1>22. ASSUME NEW j \in JobIds, ResolveDeadLetter(j) PROVE HoldersKept
  BY <1>22, HoldersKeptUnchanged DEF ResolveDeadLetter
<1>23. ASSUME NEW j \in JobIds, CompleteReviewTask(j) PROVE HoldersKept
  BY <1>23, HoldersKeptUnchanged DEF CompleteReviewTask
<1> QED BY <1>0, <1>1, <1>2, <1>3, <1>4, <1>5, <1>6, <1>7, <1>8, <1>9, <1>10,
           <1>11, <1>12, <1>13, <1>14, <1>15, <1>16, <1>17, <1>18, <1>19,
           <1>20, <1>21, <1>22, <1>23 DEF Next, Produce, Work, Operate

(* A claim hands out a token that no worker holds for that job.             *)
LEMMA TokensClaim ==
  ASSUME Tokens, Shape, NEW w \in Workers, NEW j \in JobIds, Claim(w, j), RowsGrow, Shape'
  PROVE  Tokens'
<1> DEFINE me == Holding(j, ClaimRow(Sweep[j]))
<1>1. workers' = [workers EXCEPT ![w] = me]
  BY ClaimHands DEF Shape
<1>2. me.stage = "claimed" /\ me.job = j /\ me.token = jobs[j].attempt + 1
  BY ClaimHands DEF Shape
<1> HIDE DEF me
<1>3. jobs'[j].attempt = jobs[j].attempt + 1 /\ jobs'[j].state = "LEASED"
  <2> DEFINE r == ClaimRow(Sweep[j])
  <2>1. jobs' = [Sweep EXCEPT ![j] = r] /\ Sweep \in [JobIds -> Row] /\ Swept(Sweep[j], jobs[j])
    BY SweepFields DEF Claim, Shape
  <2>2. Sweep[j] \in Row /\ Sweep[j].attempt = jobs[j].attempt
    BY <2>1 DEF Swept
  <2>3. r.state = "LEASED" /\ r.attempt = jobs[j].attempt + 1
    BY <2>2, ClaimRowFields
  <2> HIDE DEF r
  <2> QED BY <2>1, <2>3
<1>4. \A v \in Workers : v # w /\ workers'[v].stage # "idle" =>
        /\ workers'[v] = workers[v] /\ workers[v].stage # "idle"
        /\ workers[v].job \in JobIds /\ workers[v].token \in Nat
        /\ jobs[workers[v].job].state # "ABSENT"
        /\ workers[v].token <= jobs[workers[v].job].attempt
        /\ jobs'[workers[v].job].state # "ABSENT"
        /\ jobs'[workers[v].job].attempt >= jobs[workers[v].job].attempt
  BY <1>1 DEF Tokens, RowsGrow, Shape, WorkersHoldJobs, Worker
<1>5. workers'[w] = me
  BY <1>1 DEF Shape, WorkersHoldJobs
<1>6. \A i \in JobIds : jobs[i].attempt \in Nat /\ jobs'[i].attempt \in Nat
  BY DEF Shape, Table, Row
<1>7. \A v \in Workers : v # w /\ workers'[v].stage # "idle" /\ workers'[v].job = j
        => workers'[v].token # me.token
  BY <1>2, <1>4, <1>6
<1>8. ASSUME NEW u \in Workers, workers'[u].stage # "idle"
      PROVE  /\ jobs'[workers'[u].job].state # "ABSENT"
             /\ workers'[u].token <= jobs'[workers'[u].job].attempt
  <2>1. CASE u = w
    BY <1>2, <1>3, <1>5, <1>6, <2>1
  <2>2. CASE u # w
    BY <1>4, <1>6, <1>8, <2>2
  <2> QED BY <2>1, <2>2
<1>9. ASSUME NEW u \in Workers, workers'[u].stage # "idle", NEW v \in Workers \ {u},
             workers'[v].stage # "idle", workers'[v].job = workers'[u].job
      PROVE  workers'[v].token # workers'[u].token
  <2>1. CASE u = w
    BY <1>2, <1>5, <1>7, <1>9, <2>1
  <2>2. CASE v = w
    BY <1>2, <1>5, <1>7, <1>9, <2>2
  <2>3. CASE u # w /\ v # w
    BY <1>4, <1>9, <2>3 DEF Tokens
  <2> QED BY <2>1, <2>2, <2>3
<1> QED BY <1>8, <1>9 DEF Tokens

(* Tokens are never ahead of their row and no two workers share one.        *)
LEMMA TokensInvariant == Spec => []Tokens
<1>1. Init => Tokens
  BY IdleIsWorker DEF Init, Tokens
<1>2. Tokens /\ Shape /\ Shape' /\ [Next]_vars => Tokens'
  <2> SUFFICES ASSUME Tokens, Shape, Shape', [Next]_vars PROVE Tokens'
    OBVIOUS
  <2>1. RowsGrow
    BY RowsGrowStep
  <2>2. CASE \E w \in Workers, j \in JobIds : Claim(w, j)
    BY <2>1, <2>2, TokensClaim
  <2>3. CASE \A w \in Workers, j \in JobIds : ~Claim(w, j)
    <3>1. HoldersKept
      BY <2>3, HoldersKeptStep
    <3> QED BY <2>1, <3>1, TokensKept DEF RowsGrow, HoldersKept
  <2> QED BY <2>2, <2>3
<1> QED BY <1>1, <1>2, ShapeInvariant, PTL DEF Spec

(* At most one worker can write for a job, for any number of overlapping    *)
(* consumers, crashes and reclaims: no token is ever handed out twice.      *)
THEOREM LeasesAreExclusive == Spec => []LeaseExclusive
<1>1. Tokens => LeaseExclusive
  BY DEF Tokens, LeaseExclusive, LeaseHeld
<1> QED BY <1>1, TokensInvariant, PTL

-----------------------------------------------------------------------------
(* Evidence.                                                                *)

Now(p) == [msgs |-> revision[p], answers |-> answers[p]]

(* Nothing was interpreted, and no context raised, from evidence that had   *)
(* not arrived yet; and a packet's own job carries no clone.                *)
Past ==
    /\ \A p \in Packets : ~clone[<<p, 0>>]
    /\ \A j \in JobIds : Covers(Now(j[1]), cause[j])
    /\ \A p \in Packets : \A i \in 1 .. Len(interps[p]) : Covers(Now(p), interps[p][i])

Writing == {"materialising", "materialised", "governed"}

(* What a worker has read lies between what its job stands for and what has *)
(* arrived; and once the lease check let it write, it is exactly the        *)
(* revision that was claimed.                                               *)
Reader(w) ==
    LET me == workers[w]
        j == me.job
    IN
    me.stage # "idle" =>
      /\ j[2] = 0 => me.rev <= revision[j[1]]
      /\ me.stage # "claimed" =>
           /\ Covers(Now(j[1]), me.seen)
           /\ j[2] = 0 => me.rev <= me.seen.msgs
           /\ j[2] # 0 => Covers(me.seen, cause[j])
      /\ me.stage \in Writing /\ j[2] = 0 => me.seen.msgs = me.rev
      /\ me.stage \in {"materialised", "governed"} => me.seen \in applied[j[1]]

Readers == \A w \in Workers : Reader(w)

(* Evidence and conclusions only accumulate, and the evidence that raised a *)
(* context is fixed when its job is created.                                *)
Accumulates ==
    /\ \A p \in Packets : /\ revision'[p] >= revision[p] /\ answers'[p] >= answers[p]
                          /\ applied[p] \subseteq applied'[p]
    /\ \A j \in JobIds : jobs[j].state # "ABSENT" => cause'[j] = cause[j]

(* A step that leaves messages, answers, causes and conclusions alone loses none. *)
LEMMA AccumulatesUnchanged ==
  ASSUME Shape, UNCHANGED <<revision, answers, applied, cause>>
  PROVE  Accumulates
  BY DEF Accumulates, Shape, Table, Ledgers

(* A new case context loses no evidence and no conclusion.                  *)
LEMMA AccumulatesContext ==
  ASSUME Shape, NEW p \in Packets, NEW evidence, NEW cloned, EnqueueContext(p, evidence, cloned),
         \A q \in Packets : answers'[q] >= answers[q]
  PROVE  Accumulates
<1>1. \A q \in Packets : revision'[q] >= revision[q] /\ applied[q] \subseteq applied'[q]
  BY DEF EnqueueContext, Shape, Table
<1> DEFINE k == context[p] + 1
<1>2. k \in 1 .. MaxContexts /\ k > context[p] /\ cause' = [cause EXCEPT ![<<p, k>>] = evidence]
  BY DispatchAssumption DEF EnqueueContext, Shape, Table
<1>3. jobs[<<p, k>>].state = "ABSENT"
  BY <1>2 DEF Shape, Table, ContextsInOrder
<1> HIDE DEF k
<1>4. \A j \in JobIds : jobs[j].state # "ABSENT" => cause'[j] = cause[j]
  BY <1>2, <1>3 DEF Shape, Ledgers
<1> QED BY <1>1, <1>4 DEF Accumulates

(* No step loses evidence, what a job was raised for, or a conclusion.      *)
LEMMA AccumulatesStep ==
  ASSUME Shape, [Next]_vars
  PROVE  Accumulates
<1>0. ASSUME UNCHANGED vars PROVE Accumulates
  BY <1>0, AccumulatesUnchanged DEF vars, packetVars
<1>1. ASSUME NEW p \in Packets, Enqueue(p) PROVE Accumulates
  <2>1. revision' = [revision EXCEPT ![p] = revision[p] + 1] /\ UNCHANGED <<answers, applied, cause>>
    BY <1>1 DEF Enqueue
  <2> QED BY <2>1 DEF Accumulates, Shape, Table, Ledgers
<1>2. ASSUME NEW p \in Packets, AdmitAnswer(p) PROVE Accumulates
  <2>1. \A q \in Packets : answers'[q] >= answers[q]
    BY <1>2 DEF AdmitAnswer, Shape, Ledgers
  <2> QED BY <1>2, <2>1, AccumulatesContext DEF AdmitAnswer
<1>3. ASSUME NEW p \in Packets, ConfirmIdentity(p) PROVE Accumulates
  <2>1. \A q \in Packets : answers'[q] >= answers[q]
    BY <1>3 DEF ConfirmIdentity, Shape, Ledgers
  <2> QED BY <1>3, <2>1, AccumulatesContext DEF ConfirmIdentity
<1>4. ASSUME NEW p \in Packets, CloseCase(p) PROVE Accumulates
  BY <1>4, AccumulatesUnchanged DEF CloseCase, packetVars
<1>5. ASSUME NEW p \in Packets, Failover(p) PROVE Accumulates
  BY <1>5, AccumulatesUnchanged DEF Failover, packetVars
<1>6. ASSUME NEW w \in Workers, LoadEvidence(w) PROVE Accumulates
  BY <1>6, AccumulatesUnchanged DEF LoadEvidence, packetVars
<1>7. ASSUME NEW w \in Workers, TakeClone(w) PROVE Accumulates
  BY <1>7, AccumulatesUnchanged DEF TakeClone, packetVars
<1>8. ASSUME NEW w \in Workers, Interpret(w) PROVE Accumulates
  BY <1>8, AccumulatesUnchanged DEF Interpret, packetVars
<1>9. ASSUME NEW w \in Workers, BeginPersist(w) PROVE Accumulates
  BY <1>9, AccumulatesUnchanged DEF BeginPersist, packetVars
<1>10. ASSUME NEW w \in Workers, Persist(w) PROVE Accumulates
  BY <1>10, AccumulatesUnchanged DEF Persist, packetVars
<1>11. ASSUME NEW w \in Workers, BeginMaterialise(w) PROVE Accumulates
  BY <1>11, AccumulatesUnchanged DEF BeginMaterialise, packetVars
<1>12. ASSUME NEW w \in Workers, Materialise(w) PROVE Accumulates
  <2>1. /\ applied' = [applied EXCEPT ![workers[w].job[1]] = applied[workers[w].job[1]] \union {workers[w].seen}]
        /\ UNCHANGED <<revision, answers, cause>>
    BY <1>12 DEF Materialise
  <2> QED BY <2>1 DEF Accumulates, Shape, Table, Ledgers
<1>13. ASSUME NEW w \in Workers, Govern(w) PROVE Accumulates
  BY <1>13, AccumulatesUnchanged DEF Govern, packetVars
<1>14. ASSUME NEW w \in Workers, Complete(w) PROVE Accumulates
  BY <1>14, AccumulatesUnchanged DEF Complete, packetVars
<1>15. ASSUME NEW w \in Workers, Crash(w) PROVE Accumulates
  BY <1>15, AccumulatesUnchanged DEF Crash, packetVars
<1>16. ASSUME NEW w \in Workers, NEW e \in Errors, ReportFailure(w, e) PROVE Accumulates
  BY <1>16, AccumulatesUnchanged DEF ReportFailure, packetVars
<1>17. ASSUME NEW w \in Workers, ClaimNothing(w) PROVE Accumulates
  BY <1>17, AccumulatesUnchanged DEF ClaimNothing, packetVars
<1>18. ASSUME NEW w \in Workers, NEW j \in JobIds, Claim(w, j) PROVE Accumulates
  BY <1>18, AccumulatesUnchanged DEF Claim, packetVars
<1>19. ASSUME NEW j \in JobIds, LeaseExpires(j) PROVE Accumulates
  BY <1>19, AccumulatesUnchanged DEF LeaseExpires, packetVars
<1>20. ASSUME NEW j \in JobIds, NEW key, OperatorDeadLetter(j, key) PROVE Accumulates
  BY <1>20, AccumulatesUnchanged DEF OperatorDeadLetter, packetVars
<1>21. ASSUME NEW j \in JobIds, NEW key, OperatorRequeue(j, key) PROVE Accumulates
  BY <1>21, AccumulatesUnchanged DEF OperatorRequeue, packetVars
<1>22. ASSUME NEW j \in JobIds, ResolveDeadLetter(j) PROVE Accumulates
  BY <1>22, AccumulatesUnchanged DEF ResolveDeadLetter, packetVars
<1>23. ASSUME NEW j \in JobIds, CompleteReviewTask(j) PROVE Accumulates
  BY <1>23, AccumulatesUnchanged DEF CompleteReviewTask, packetVars
<1> QED BY <1>0, <1>1, <1>2, <1>3, <1>4, <1>5, <1>6, <1>7, <1>8, <1>9, <1>10,
           <1>11, <1>12, <1>13, <1>14, <1>15, <1>16, <1>17, <1>18, <1>19,
           <1>20, <1>21, <1>22, <1>23 DEF Next, Produce, Work, Operate

(* Evidence covers itself.                                                  *)
LEMMA CoversRefl == ASSUME NEW e \in Evidence PROVE Covers(e, e)
  BY DEF Covers, Evidence

(* What had arrived is still there after any step.                          *)
LEMMA NowGrows ==
  ASSUME Shape, Shape', Accumulates, NEW p \in Packets, NEW e \in Evidence, Covers(Now(p), e)
  PROVE  Covers(Now(p)', e)
<1>1. /\ revision[p] \in Nat /\ revision'[p] \in Nat /\ revision'[p] >= revision[p]
      /\ answers[p] \in Nat /\ answers'[p] \in Nat /\ answers'[p] >= answers[p]
      /\ e.msgs \in Nat /\ e.answers \in Nat
  BY DEF Accumulates, Shape, Table, Ledgers, Evidence
<1>2. revision[p] >= e.msgs /\ answers[p] >= e.answers
  BY DEF Covers, Now
<1>3. revision'[p] >= e.msgs /\ answers'[p] >= e.answers
  BY <1>1, <1>2
<1> QED BY <1>3 DEF Covers, Now

(* A step that adds no interpretation and raises no context.                *)
LEMMA PastKept ==
  ASSUME Past, Shape, Shape', Accumulates, UNCHANGED <<clone, cause, interps>>
  PROVE  Past'
<1>1. \A p \in Packets : ~clone'[<<p, 0>>]
  BY DEF Past
<1>2. ASSUME NEW j \in JobIds PROVE Covers(Now(j[1])', cause'[j])
  <2> DEFINE e == cause[j]
             p == j[1]
  <2>1. p \in Packets /\ e \in Evidence /\ Covers(Now(p), e) /\ cause'[j] = e
    BY JobIdsShape DEF Past, Shape, Ledgers
  <2> HIDE DEF e
  <2>2. Covers(Now(p)', e)
    BY <2>1, NowGrows
  <2> QED BY <2>1, <2>2
<1>3. ASSUME NEW p \in Packets, NEW i \in 1 .. Len(interps'[p])
      PROVE  Covers(Now(p)', interps'[p][i])
  <2> DEFINE e == interps[p][i]
  <2>1. e \in Evidence /\ Covers(Now(p), e) /\ interps'[p][i] = e
    BY DEF Past, Shape, Ledgers
  <2> HIDE DEF e
  <2>2. Covers(Now(p)', e)
    BY <2>1, NowGrows
  <2> QED BY <2>1, <2>2
<1> QED BY <1>1, <1>2, <1>3 DEF Past

(* A context raised from evidence that has arrived.                         *)
LEMMA PastContext ==
  ASSUME Past, Shape, Shape', Accumulates, NEW p \in Packets, NEW evidence \in Evidence,
         NEW cloned, EnqueueContext(p, evidence, cloned), Covers(Now(p)', evidence)
  PROVE  Past'
<1> DEFINE k == context[p] + 1
           c == <<p, k>>
<1>1. k \in 1 .. MaxContexts /\ c \in JobIds
  BY JobIdsShape, DispatchAssumption DEF EnqueueContext, Shape, Table
<1>2. /\ cause' = [cause EXCEPT ![c] = evidence] /\ clone' = [clone EXCEPT ![c] = cloned]
      /\ interps' = interps
  BY DEF EnqueueContext
<1>3. ASSUME NEW q \in Packets PROVE ~clone'[<<q, 0>>]
  <2>1. <<q, 0>> # c /\ <<q, 0>> \in JobIds /\ ~clone[<<q, 0>>]
    BY <1>1, JobIdsShape DEF Past
  <2> QED BY <1>2, <2>1 DEF Shape, Ledgers
<1> HIDE DEF c
<1>4. ASSUME NEW j \in JobIds PROVE Covers(Now(j[1])', cause'[j])
  <2>1. CASE j = c
    <3>1. j[1] = p /\ cause'[j] = evidence
      BY <1>1, <1>2, <2>1 DEF c, Shape, Ledgers
    <3> QED BY <3>1
  <2>2. CASE j # c
    <3> DEFINE e == cause[j]
               q == j[1]
    <3>1. q \in Packets /\ e \in Evidence /\ Covers(Now(q), e) /\ cause'[j] = e
      BY <1>2, <2>2, JobIdsShape DEF Past, Shape, Ledgers
    <3> HIDE DEF e
    <3>2. Covers(Now(q)', e)
      BY <3>1, NowGrows
    <3> QED BY <3>1, <3>2
  <2> QED BY <2>1, <2>2
<1>5. ASSUME NEW q \in Packets, NEW i \in 1 .. Len(interps'[q])
      PROVE  Covers(Now(q)', interps'[q][i])
  <2> DEFINE e == interps[q][i]
  <2>1. e \in Evidence /\ Covers(Now(q), e) /\ interps'[q][i] = e
    BY <1>2 DEF Past, Shape, Ledgers
  <2> HIDE DEF e
  <2>2. Covers(Now(q)', e)
    BY <2>1, NowGrows
  <2> QED BY <2>1, <2>2
<1> QED BY <1>3, <1>4, <1>5 DEF Past

(* What is owed and known stays within what has arrived, over every step.   *)
LEMMA PastStep ==
  ASSUME Past, Readers, Shape, Shape', Accumulates, [Next]_vars
  PROVE  Past'
<1>0. ASSUME UNCHANGED vars PROVE Past'
  BY <1>0, PastKept DEF vars, packetVars
<1>1. ASSUME NEW p \in Packets, Enqueue(p) PROVE Past'
  BY <1>1, PastKept DEF Enqueue
<1>2. ASSUME NEW p \in Packets, AdmitAnswer(p) PROVE Past'
  <2> DEFINE e == [msgs |-> revision[p], answers |-> answers[p] + 1]
  <2>1. EnqueueContext(p, e, FALSE) /\ revision'[p] = revision[p] /\ answers'[p] = answers[p] + 1
    BY <1>2 DEF AdmitAnswer, EnqueueContext, Shape, Ledgers
  <2>2. e \in Evidence
    BY DEF Shape, Table, Ledgers, Evidence
  <2>3. Covers(Now(p)', e)
    BY <2>1, <2>2 DEF Covers, Now, Evidence
  <2> HIDE DEF e
  <2> QED BY <2>1, <2>2, <2>3, PastContext
<1>3. ASSUME NEW p \in Packets, ConfirmIdentity(p) PROVE Past'
  <2> DEFINE e == interps[p][Len(interps[p])]
  <2>1. EnqueueContext(p, e, TRUE) /\ interps[p] # << >> /\ interps[p] \in Seq(Evidence)
    BY <1>3 DEF ConfirmIdentity, Shape, Ledgers
  <2>2. Len(interps[p]) \in 1 .. Len(interps[p])
    BY <2>1
  <2>3. e \in Evidence /\ Covers(Now(p), e)
    BY <2>1, <2>2 DEF Past
  <2> HIDE DEF e
  <2>4. Covers(Now(p)', e)
    BY <2>3, NowGrows
  <2> QED BY <2>1, <2>3, <2>4, PastContext
<1>4. ASSUME NEW p \in Packets, CloseCase(p) PROVE Past'
  BY <1>4, PastKept DEF CloseCase, packetVars
<1>5. ASSUME NEW p \in Packets, Failover(p) PROVE Past'
  BY <1>5, PastKept DEF Failover, packetVars
<1>6. ASSUME NEW w \in Workers, LoadEvidence(w) PROVE Past'
  BY <1>6, PastKept DEF LoadEvidence, packetVars
<1>7. ASSUME NEW w \in Workers, TakeClone(w) PROVE Past'
  BY <1>7, PastKept DEF TakeClone, packetVars
<1>8. ASSUME NEW w \in Workers, Interpret(w) PROVE Past'
  BY <1>8, PastKept DEF Interpret, packetVars
<1>9. ASSUME NEW w \in Workers, BeginPersist(w) PROVE Past'
  BY <1>9, PastKept DEF BeginPersist, packetVars
<1>10. ASSUME NEW w \in Workers, Persist(w) PROVE Past'
  <2> DEFINE me == workers[w]
             p == me.job[1]
             e == me.seen
  <2>1. me \in Worker /\ me.job \in JobIds /\ me.stage = "persisting"
    BY <1>10 DEF Persist, Advance, Shape, WorkersHoldJobs
  <2>2. p \in Packets /\ e \in Evidence /\ Covers(Now(p), e)
    BY <2>1, JobIdsShape DEF Worker, Readers, Reader
  <2>3. /\ interps' = [interps EXCEPT ![p] = IF Interpreted(p, e) THEN interps[p] ELSE Append(interps[p], e)]
        /\ UNCHANGED <<clone, cause, revision, answers>>
    BY <1>10 DEF Persist, packetVars
  <2> HIDE DEF me, p, e
  <2>4. ASSUME NEW q \in Packets, NEW i \in 1 .. Len(interps'[q])
        PROVE  Covers(Now(q), interps'[q][i])
    <3>1. interps[q] \in Seq(Evidence)
      BY DEF Shape, Ledgers
    <3>2. interps'[q] = interps[q] \/ (q = p /\ interps'[q] = Append(interps[q], e))
      BY <2>3 DEF Shape, Ledgers
    <3>3. CASE interps'[q] = interps[q]
      BY <3>3 DEF Past
    <3>4. CASE q = p /\ interps'[q] = Append(interps[q], e)
      <4>1. i = Len(interps[q]) + 1 \/ i \in 1 .. Len(interps[q])
        BY <2>2, <3>1, <3>4
      <4>2. CASE i = Len(interps[q]) + 1
        BY <2>2, <3>1, <3>4, <4>2
      <4>3. CASE i \in 1 .. Len(interps[q])
        <5>1. interps'[q][i] = interps[q][i]
          BY <2>2, <3>1, <3>4, <4>3
        <5> QED BY <4>3, <5>1 DEF Past
      <4> QED BY <4>1, <4>2, <4>3
    <3> QED BY <3>2, <3>3, <3>4
  <2> QED BY <2>3, <2>4 DEF Past, Now
<1>11. ASSUME NEW w \in Workers, BeginMaterialise(w) PROVE Past'
  BY <1>11, PastKept DEF BeginMaterialise, packetVars
<1>12. ASSUME NEW w \in Workers, Materialise(w) PROVE Past'
  BY <1>12, PastKept DEF Materialise, packetVars
<1>13. ASSUME NEW w \in Workers, Govern(w) PROVE Past'
  BY <1>13, PastKept DEF Govern, packetVars
<1>14. ASSUME NEW w \in Workers, Complete(w) PROVE Past'
  BY <1>14, PastKept DEF Complete, packetVars
<1>15. ASSUME NEW w \in Workers, Crash(w) PROVE Past'
  BY <1>15, PastKept DEF Crash, packetVars
<1>16. ASSUME NEW w \in Workers, NEW e \in Errors, ReportFailure(w, e) PROVE Past'
  BY <1>16, PastKept DEF ReportFailure, packetVars
<1>17. ASSUME NEW w \in Workers, ClaimNothing(w) PROVE Past'
  BY <1>17, PastKept DEF ClaimNothing, packetVars
<1>18. ASSUME NEW w \in Workers, NEW j \in JobIds, Claim(w, j) PROVE Past'
  BY <1>18, PastKept DEF Claim, packetVars
<1>19. ASSUME NEW j \in JobIds, LeaseExpires(j) PROVE Past'
  BY <1>19, PastKept DEF LeaseExpires, packetVars
<1>20. ASSUME NEW j \in JobIds, NEW key, OperatorDeadLetter(j, key) PROVE Past'
  BY <1>20, PastKept DEF OperatorDeadLetter, packetVars
<1>21. ASSUME NEW j \in JobIds, NEW key, OperatorRequeue(j, key) PROVE Past'
  BY <1>21, PastKept DEF OperatorRequeue, packetVars
<1>22. ASSUME NEW j \in JobIds, ResolveDeadLetter(j) PROVE Past'
  BY <1>22, PastKept DEF ResolveDeadLetter, packetVars
<1>23. ASSUME NEW j \in JobIds, CompleteReviewTask(j) PROVE Past'
  BY <1>23, PastKept DEF CompleteReviewTask, packetVars
<1> QED BY <1>0, <1>1, <1>2, <1>3, <1>4, <1>5, <1>6, <1>7, <1>8, <1>9, <1>10,
           <1>11, <1>12, <1>13, <1>14, <1>15, <1>16, <1>17, <1>18, <1>19,
           <1>20, <1>21, <1>22, <1>23 DEF Next, Produce, Work, Operate

(* A worker that does not move.                                             *)
LEMMA ReaderStays ==
  ASSUME Shape, Shape', Accumulates, Tokens, NEW w \in Workers, Reader(w), workers'[w] = workers[w]
  PROVE  Reader(w)'
<1> DEFINE me == workers[w]
           j == me.job
           p == j[1]
<1>1. CASE me.stage = "idle"
  BY <1>1 DEF Reader
<1>2. CASE me.stage # "idle"
  <2>1. /\ me \in Worker /\ j \in JobIds /\ p \in Packets /\ me.seen \in Evidence /\ me.rev \in Nat
        /\ jobs[j].state # "ABSENT" /\ cause'[j] = cause[j]
    BY <1>2, JobIdsShape DEF Shape, WorkersHoldJobs, Worker, Tokens, Accumulates
  <2>2. j[2] = 0 => me.rev <= revision'[p]
    <3>1. revision[p] \in Nat /\ revision'[p] \in Nat /\ revision'[p] >= revision[p]
      BY <2>1 DEF Shape, Table, Accumulates
    <3>2. j[2] = 0 => me.rev <= revision[p]
      BY <1>2 DEF Reader
    <3> QED BY <2>1, <3>1, <3>2
  <2>3. me.stage # "claimed" => Covers(Now(p)', me.seen)
    <3> DEFINE e == me.seen
    <3>1. me.stage # "claimed" => Covers(Now(p), e)
      BY <1>2 DEF Reader
    <3>2. e \in Evidence
      BY <2>1
    <3> HIDE DEF e
    <3>3. Covers(Now(p), e) => Covers(Now(p)', e)
      BY <2>1, <3>2, NowGrows
    <3> QED BY <3>1, <3>3 DEF e
  <2>4. me.stage \in {"materialised", "governed"} => me.seen \in applied'[p]
    BY <1>2, <2>1 DEF Reader, Accumulates
  <2>5. workers'[w] = me
    OBVIOUS
  <2> QED BY <1>2, <2>1, <2>2, <2>3, <2>4, <2>5 DEF Reader
<1> QED BY <1>1, <1>2

(* A worker that moves on with what it holds.                               *)
LEMMA ReaderAdvances ==
  ASSUME Shape, Shape', Accumulates, Tokens, NEW w \in Workers, Reader(w),
         NEW from, NEW to, Advance(w, from, to), from # "idle", from # "claimed",
         to \in Writing /\ workers[w].job[2] = 0 => workers[w].seen.msgs = workers[w].rev,
         to \in {"materialised", "governed"} => workers[w].seen \in applied'[workers[w].job[1]]
  PROVE  Reader(w)'
<1>0. PICK me \in Worker : me = workers[w]
  BY DEF Shape, WorkersHoldJobs
<1> DEFINE j == me.job
           p == j[1]
<1>1. /\ me \in Worker /\ j \in JobIds /\ p \in Packets /\ me.seen \in Evidence /\ me.rev \in Nat
      /\ jobs[j].state # "ABSENT" /\ cause'[j] = cause[j] /\ me.stage = from
  BY <1>0, JobIdsShape DEF Advance, Shape, WorkersHoldJobs, Worker, Tokens, Accumulates
<1>2. /\ workers'[w].stage = to /\ workers'[w].job = j /\ workers'[w].rev = me.rev
      /\ workers'[w].seen = me.seen
  <2>1. workers'[w] = [me EXCEPT !.stage = to]
    BY <1>0 DEF Advance, Shape, WorkersHoldJobs
  <2>2. LET n == [me EXCEPT !.stage = to]
        IN  n.stage = to /\ n.job = me.job /\ n.rev = me.rev /\ n.seen = me.seen
    BY <1>1 DEF Worker
  <2> QED BY <2>1, <2>2
<1>3. j[2] = 0 => me.rev <= revision'[p]
  <2>1. revision[p] \in Nat /\ revision'[p] \in Nat /\ revision'[p] >= revision[p]
    BY <1>1 DEF Shape, Table, Accumulates
  <2>2. j[2] = 0 => me.rev <= revision[p]
    BY <1>0, <1>1 DEF Reader
  <2> QED BY <1>1, <2>1, <2>2
<1>4. Covers(Now(p)', me.seen)
  <2> DEFINE e == me.seen
  <2>1. e \in Evidence /\ Covers(Now(p), e)
    BY <1>0, <1>1 DEF Reader
  <2> HIDE DEF e
  <2>2. Covers(Now(p)', e)
    BY <1>1, <2>1, NowGrows
  <2> QED BY <2>2 DEF e
<1>5. (j[2] = 0 => me.rev <= me.seen.msgs) /\ (j[2] # 0 => Covers(me.seen, cause'[j]))
  BY <1>0, <1>1 DEF Reader
<1>6. to \in Writing /\ j[2] = 0 => me.seen.msgs = me.rev
  BY <1>0
<1>7. to \in {"materialised", "governed"} => me.seen \in applied'[p]
  BY <1>0
<1> HIDE DEF j, p
<1> QED BY <1>2, <1>3, <1>4, <1>5, <1>6, <1>1, <1>7 DEF Reader, p

(* One worker moves.                                                        *)
LEMMA ReadersOfOne ==
  ASSUME Readers, Shape, Shape', Accumulates, Tokens, NEW w \in Workers, NEW me,
         workers' = [workers EXCEPT ![w] = me], me.stage # "idle" => Reader(w)'
  PROVE  Readers'
<1> SUFFICES ASSUME NEW v \in Workers PROVE Reader(v)'
  BY DEF Readers
<1>1. CASE v # w
  <2>1. workers'[v] = workers[v] /\ Reader(v)
    BY <1>1 DEF Shape, WorkersHoldJobs, Readers
  <2> QED BY <2>1, ReaderStays
<1>2. CASE v = w /\ me.stage = "idle"
  BY <1>2 DEF Reader, Shape, WorkersHoldJobs
<1>3. CASE v = w /\ me.stage # "idle"
  BY <1>3
<1> QED BY <1>1, <1>2, <1>3

(* A worker the step leaves alone still has read what its job owes.         *)
LEMMA ReadersUnmoved ==
  ASSUME Readers, Shape, Shape', Accumulates, Tokens, workers' = workers
  PROVE  Readers'
  BY ReaderStays DEF Readers

(* An idle worker has nothing to answer for.                                *)
LEMMA ReadersIdle ==
  ASSUME Readers, Shape, Shape', Accumulates, Tokens, NEW w \in Workers,
         workers' = [workers EXCEPT ![w] = Idle]
  PROVE  Readers'
  BY IdleIsWorker, ReadersOfOne

(* A worker that only moves to its next stage still answers for its reading. *)
LEMMA ReadersAdvance ==
  ASSUME Readers, Shape, Shape', Accumulates, Tokens, NEW w \in Workers,
         NEW from, NEW to, Advance(w, from, to), from # "idle", from # "claimed",
         to \in Writing /\ workers[w].job[2] = 0 => workers[w].seen.msgs = workers[w].rev,
         to \in {"materialised", "governed"} => workers[w].seen \in applied'[workers[w].job[1]]
  PROVE  Readers'
<1>1. Reader(w)'
  BY ReaderAdvances DEF Readers
<1> SUFFICES ASSUME NEW v \in Workers PROVE Reader(v)'
  BY DEF Readers
<1>2. CASE v # w
  <2>1. workers'[v] = workers[v] /\ Reader(v)
    BY <1>2 DEF Shape, WorkersHoldJobs, Readers, Advance
  <2> QED BY <2>1, ReaderStays
<1> QED BY <1>1, <1>2

(* A claim: what the worker remembers is the revision of the row.           *)
LEMMA ReadersClaim ==
  ASSUME Readers, Shape, Shape', Accumulates, Tokens,
         NEW w \in Workers, NEW j \in JobIds, Claim(w, j)
  PROVE  Readers'
<1>1. PICK me \in Worker : /\ workers' = [workers EXCEPT ![w] = me]
                           /\ me.stage = "claimed" /\ me.job = j /\ me.rev = jobs[j].rev
  BY ClaimHands DEF Shape
<1>2. jobs[j].state # "ABSENT"
  <2>1. Claimable(Sweep[j]) /\ Swept(Sweep[j], jobs[j])
    BY SweepFields DEF Claim, Shape
  <2> QED BY <2>1 DEF Swept, Claimable, Waiting, Expired
<1>3. j[2] = 0 => me.rev <= revision'[j[1]]
  <2>1. j[1] \in Packets /\ (j[2] = 0 => j = <<j[1], 0>>)
    BY JobIdsShape
  <2>2. j[2] = 0 => jobs[j].rev = revision[j[1]]
    BY <1>2, <2>1 DEF Shape, Table, RevisionOfPacket
  <2>3. revision' = revision /\ revision[j[1]] \in Nat
    BY <2>1 DEF Claim, packetVars, Shape, Table
  <2> QED BY <1>1, <2>2, <2>3
<1>4. workers'[w] = me
  BY <1>1 DEF Shape, WorkersHoldJobs
<1>5. Reader(w)'
  BY <1>1, <1>3, <1>4 DEF Reader, Writing
<1> QED BY <1>1, <1>5, ReadersOfOne

(* A worker reads: either everything that has arrived, or a clone.          *)
LEMMA ReadersRead ==
  ASSUME Past, Readers, Shape, Shape', Accumulates, Tokens, NEW w \in Workers,
         LoadEvidence(w) \/ TakeClone(w)
  PROVE  Readers'
<1>1. PICK old \in Worker : old = workers[w]
  BY DEF Shape, WorkersHoldJobs
<1> DEFINE j == old.job
           p == j[1]
<1>2. /\ j \in JobIds /\ p \in Packets /\ j = <<p, j[2]>> /\ old.stage = "claimed"
      /\ UNCHANGED <<revision, answers, cause>>
  BY <1>1, JobIdsShape DEF LoadEvidence, TakeClone, packetVars, Shape, WorkersHoldJobs
<1>3. PICK to \in {"loaded", "persisted"}, e \in Evidence :
        /\ workers' = [workers EXCEPT ![w].stage = to, ![w].seen = e]
        /\ Covers(Now(p), e)
        /\ j[2] = 0 => e.msgs = revision[p]
        /\ j[2] # 0 => Covers(e, cause[j])
  <2>1. CASE LoadEvidence(w)
    <3> DEFINE e == EvidenceOf(j)
    <3>1. workers' = [workers EXCEPT ![w].stage = "loaded", ![w].seen = e]
      BY <1>1, <2>1 DEF LoadEvidence
    <3>2. e \in Evidence
      BY <1>2, EvidenceOfJob DEF Shape
    <3>3. revision[p] \in Nat /\ answers[p] \in Nat
      BY <1>2 DEF Shape, Table, Ledgers
    <3>4. Covers(Now(p), e) /\ (j[2] = 0 => e.msgs = revision[p])
      BY <3>3 DEF EvidenceOf, Covers, Now
    <3>5. j[2] # 0 => e = Now(p)
      BY DEF EvidenceOf, Now
    <3>6. Covers(Now(p), cause[j])
      BY <1>2 DEF Past
    <3> HIDE DEF e
    <3> QED BY <3>1, <3>2, <3>4, <3>5, <3>6
  <2>2. CASE TakeClone(w)
    <3> DEFINE e == cause[j]
    <3>1. workers' = [workers EXCEPT ![w].stage = "persisted", ![w].seen = e] /\ clone[j]
      BY <1>1, <2>2 DEF TakeClone
    <3>2. e \in Evidence /\ Covers(Now(p), e)
      BY <1>2 DEF Past, Shape, Ledgers
    <3>3. j[2] # 0
      BY <1>2, <3>1 DEF Past
    <3>4. Covers(e, e)
      BY <3>2, CoversRefl
    <3> HIDE DEF e
    <3>5. Covers(e, cause[j])
      BY <3>4 DEF e
    <3> QED BY <3>1, <3>2, <3>3, <3>5
  <2> QED BY <2>1, <2>2
<1>4. /\ workers'[w].stage = to /\ workers'[w].job = j /\ workers'[w].rev = old.rev
      /\ workers'[w].seen = e
  <2>1. workers'[w] = [old EXCEPT !.stage = to, !.seen = e]
    BY <1>1, <1>3 DEF Shape, WorkersHoldJobs
  <2>2. LET n == [old EXCEPT !.stage = to, !.seen = e]
        IN  n.stage = to /\ n.job = old.job /\ n.rev = old.rev /\ n.seen = e
    BY DEF Worker
  <2> QED BY <2>1, <2>2
<1>5. j[2] = 0 => old.rev <= revision[p]
  BY <1>1, <1>2 DEF Readers, Reader
<1>6. Covers([msgs |-> revision'[p], answers |-> answers'[p]], e)
  BY <1>2, <1>3 DEF Now
<1>7. Reader(w)'
  BY <1>2, <1>3, <1>4, <1>5, <1>6 DEF Reader, Writing, Now
<1>8. \A v \in Workers : v # w => workers'[v] = workers[v]
  BY <1>3 DEF Shape, WorkersHoldJobs
<1>9. ASSUME NEW v \in Workers PROVE Reader(v)'
  <2>1. CASE v = w
    BY <1>7, <2>1
  <2>2. CASE v # w
    BY <1>8, <2>2, ReaderStays DEF Readers
  <2> QED BY <2>1, <2>2
<1> QED BY <1>9 DEF Readers

(* The lease check: the revision has not moved since the claim, so what was *)
(* read in between is the revision that was claimed.                        *)
LEMMA LeasePinsEvidence ==
  ASSUME Readers, Shape, NEW w \in Workers, LeaseHeld(w), workers[w].stage # "claimed"
  PROVE  workers[w].job[2] = 0 => workers[w].seen.msgs = workers[w].rev
<1>1. PICK me \in Worker : me = workers[w]
  BY DEF Shape, WorkersHoldJobs
<1> DEFINE j == me.job
           p == j[1]
<1>2. /\ j \in JobIds /\ p \in Packets /\ (j[2] = 0 => j = <<p, 0>>)
      /\ me.stage # "idle" /\ me.stage # "claimed"
      /\ jobs[j].state = "LEASED" /\ jobs[j].rev = me.rev
  BY <1>1, JobIdsShape DEF LeaseHeld, Shape, WorkersHoldJobs
<1>3. ASSUME j[2] = 0 PROVE me.seen.msgs = me.rev
  <2>1. jobs[j].rev = revision[p]
    BY <1>2, <1>3 DEF Shape, Table, RevisionOfPacket
  <2>2. Covers(Now(p), me.seen) /\ me.rev <= me.seen.msgs
    BY <1>1, <1>2, <1>3 DEF Readers, Reader
  <2>3. revision[p] >= me.seen.msgs
    BY <2>2 DEF Covers, Now
  <2>4. me.rev \in Nat /\ me.seen.msgs \in Nat /\ revision[p] \in Nat
    BY <1>2 DEF Worker, Evidence, Shape, Table
  <2> QED BY <1>2, <2>1, <2>2, <2>3, <2>4
<1> QED BY <1>1, <1>3

(* Every worker answers for its reading after every step.                   *)
LEMMA ReadersStep ==
  ASSUME Past, Readers, Shape, Shape', Accumulates, Tokens, [Next]_vars
  PROVE  Readers'
<1>0. ASSUME UNCHANGED vars PROVE Readers'
  BY <1>0, ReadersUnmoved DEF vars
<1>1. ASSUME NEW p \in Packets, Enqueue(p) PROVE Readers'
  BY <1>1, ReadersUnmoved DEF Enqueue
<1>2. ASSUME NEW p \in Packets, AdmitAnswer(p) PROVE Readers'
  BY <1>2, ReadersUnmoved DEF AdmitAnswer, EnqueueContext
<1>3. ASSUME NEW p \in Packets, ConfirmIdentity(p) PROVE Readers'
  BY <1>3, ReadersUnmoved DEF ConfirmIdentity, EnqueueContext
<1>4. ASSUME NEW p \in Packets, CloseCase(p) PROVE Readers'
  BY <1>4, ReadersUnmoved DEF CloseCase
<1>5. ASSUME NEW p \in Packets, Failover(p) PROVE Readers'
  BY <1>5, ReadersUnmoved DEF Failover
<1>6. ASSUME NEW w \in Workers, LoadEvidence(w) PROVE Readers'
  BY <1>6, ReadersRead
<1>7. ASSUME NEW w \in Workers, TakeClone(w) PROVE Readers'
  BY <1>7, ReadersRead
<1>8. ASSUME NEW w \in Workers, Interpret(w) PROVE Readers'
  <2> DEFINE to == IF Interpreted(workers[w].job[1], workers[w].seen) THEN "persisted" ELSE "interpreted"
  <2>1. Advance(w, "loaded", to)
    BY <1>8 DEF Interpret
  <2>2. to \notin Writing
    BY DEF Writing
  <2> HIDE DEF to
  <2> QED BY <2>1, <2>2, ReadersAdvance DEF Writing
<1>9. ASSUME NEW w \in Workers, BeginPersist(w) PROVE Readers'
  BY <1>9, ReadersAdvance DEF BeginPersist, Writing
<1>10. ASSUME NEW w \in Workers, Persist(w) PROVE Readers'
  BY <1>10, ReadersAdvance DEF Persist, Writing
<1>11. ASSUME NEW w \in Workers, BeginMaterialise(w) PROVE Readers'
  <2>1. workers[w].job[2] = 0 => workers[w].seen.msgs = workers[w].rev
    BY <1>11, LeasePinsEvidence DEF BeginMaterialise, LeaseValid, Advance
  <2> QED BY <1>11, <2>1, ReadersAdvance DEF BeginMaterialise, Writing
<1>12. ASSUME NEW w \in Workers, Materialise(w) PROVE Readers'
  <2> DEFINE to == IF clone[workers[w].job] THEN "governed" ELSE "materialised"
  <2>1. Advance(w, "materialising", to)
    BY <1>12 DEF Materialise
  <2>2. /\ workers[w].stage = "materialising" /\ workers[w].job \in JobIds
        /\ workers[w].job[1] \in Packets
    BY <2>1, JobIdsShape DEF Advance, Shape, WorkersHoldJobs
  <2>3. workers[w].job[2] = 0 => workers[w].seen.msgs = workers[w].rev
    BY <2>2 DEF Readers, Reader, Writing
  <2>4. workers[w].seen \in applied'[workers[w].job[1]]
    BY <1>12, <2>2 DEF Materialise, Shape, Ledgers
  <2> HIDE DEF to
  <2> QED BY <2>1, <2>3, <2>4, ReadersAdvance
<1>13. ASSUME NEW w \in Workers, Govern(w) PROVE Readers'
  <2>1. /\ workers[w].stage = "materialised" /\ workers[w].job \in JobIds
        /\ Advance(w, "materialised", "governed") /\ applied' = applied
    BY <1>13 DEF Govern, Advance, Shape, WorkersHoldJobs
  <2>2. /\ workers[w].job[2] = 0 => workers[w].seen.msgs = workers[w].rev
        /\ workers[w].seen \in applied[workers[w].job[1]]
    BY <2>1 DEF Readers, Reader, Writing
  <2> QED BY <2>1, <2>2, ReadersAdvance
<1>14. ASSUME NEW w \in Workers, Complete(w) PROVE Readers'
  BY <1>14, ReadersIdle DEF Complete
<1>15. ASSUME NEW w \in Workers, Crash(w) PROVE Readers'
  BY <1>15, ReadersIdle DEF Crash
<1>16. ASSUME NEW w \in Workers, NEW e \in Errors, ReportFailure(w, e) PROVE Readers'
  BY <1>16, ReadersIdle DEF ReportFailure
<1>17. ASSUME NEW w \in Workers, ClaimNothing(w) PROVE Readers'
  BY <1>17, ReadersUnmoved DEF ClaimNothing
<1>18. ASSUME NEW w \in Workers, NEW j \in JobIds, Claim(w, j) PROVE Readers'
  BY <1>18, ReadersClaim
<1>19. ASSUME NEW j \in JobIds, LeaseExpires(j) PROVE Readers'
  BY <1>19, ReadersUnmoved DEF LeaseExpires
<1>20. ASSUME NEW j \in JobIds, NEW key, OperatorDeadLetter(j, key) PROVE Readers'
  BY <1>20, ReadersUnmoved DEF OperatorDeadLetter
<1>21. ASSUME NEW j \in JobIds, NEW key, OperatorRequeue(j, key) PROVE Readers'
  BY <1>21, ReadersUnmoved DEF OperatorRequeue
<1>22. ASSUME NEW j \in JobIds, ResolveDeadLetter(j) PROVE Readers'
  BY <1>22, ReadersUnmoved DEF ResolveDeadLetter
<1>23. ASSUME NEW j \in JobIds, CompleteReviewTask(j) PROVE Readers'
  BY <1>23, ReadersUnmoved DEF CompleteReviewTask
<1> QED BY <1>0, <1>1, <1>2, <1>3, <1>4, <1>5, <1>6, <1>7, <1>8, <1>9, <1>10,
           <1>11, <1>12, <1>13, <1>14, <1>15, <1>16, <1>17, <1>18, <1>19,
           <1>20, <1>21, <1>22, <1>23 DEF Next, Produce, Work, Operate

(* A job is completed by the worker that completes it and by no other step. *)
Completing ==
    \A j \in JobIds : jobs'[j].state = "COMPLETED" =>
        \/ jobs[j].state = "COMPLETED" /\ jobs'[j].rev = jobs[j].rev
        \/ \E w \in Workers : Complete(w) /\ workers[w].job = j /\ jobs'[j].rev = jobs[j].rev

(* A step that completes no row.                                            *)
LEMMA CompletingNone ==
  ASSUME Shape, NEW j, NEW r, jobs' = [jobs EXCEPT ![j] = r], r.state # "COMPLETED"
  PROVE  Completing
  BY DEF Completing, Shape, Table

(* A step that leaves the rows alone completes none.                        *)
LEMMA CompletingUnchanged ==
  ASSUME jobs' = jobs
  PROVE  Completing
  BY DEF Completing

(* Only Complete makes a row COMPLETED, and its lease was valid.            *)
LEMMA CompletingStep ==
  ASSUME Shape, [Next]_vars
  PROVE  Completing
<1>0. ASSUME UNCHANGED vars PROVE Completing
  BY <1>0, CompletingUnchanged DEF vars
<1>1. ASSUME NEW p \in Packets, Enqueue(p) PROVE Completing
  <2> DEFINE j == <<p, 0>>
             rev == revision[p] + 1
             row == jobs[j]
             r == EnqueueRow(row, rev)
  <2>1. j \in JobIds /\ rev \in Nat /\ rev # revision[p]
    BY JobIdsShape DEF Shape, Table
  <2>2. row.state = "ABSENT" \/ row.rev # rev
    BY <2>1 DEF Shape, Table, RevisionOfPacket
  <2>3. GoodRow(row)
    BY <2>1 DEF Shape, Table
  <2>4. jobs' = [jobs EXCEPT ![j] = r]
    BY <1>1 DEF Enqueue
  <2> HIDE DEF rev, row
  <2>5. Enqueued(r, row, rev)
    BY <2>1, <2>2, <2>3, EnqueueRowFields
  <2> HIDE DEF r
  <2>6. r.state # "COMPLETED"
    BY <2>5 DEF Enqueued
  <2> QED BY <2>4, <2>6, CompletingNone
<1>2. ASSUME NEW p \in Packets, AdmitAnswer(p) PROVE Completing
  <2>1. PICK evidence, cloned : EnqueueContext(p, evidence, cloned)
    BY <1>2 DEF AdmitAnswer
  <2> DEFINE k == context[p] + 1
  <2>2. k \in Nat /\ jobs' = [jobs EXCEPT ![<<p, k>>] = NewRow(k)]
    BY <2>1 DEF EnqueueContext, Shape, Table
  <2> HIDE DEF k
  <2>3. NewRow(k).state # "COMPLETED"
    BY <2>2, NewRowFields
  <2> QED BY <2>2, <2>3, CompletingNone
<1>3. ASSUME NEW p \in Packets, ConfirmIdentity(p) PROVE Completing
  <2>1. PICK evidence, cloned : EnqueueContext(p, evidence, cloned)
    BY <1>3 DEF ConfirmIdentity
  <2> DEFINE k == context[p] + 1
  <2>2. k \in Nat /\ jobs' = [jobs EXCEPT ![<<p, k>>] = NewRow(k)]
    BY <2>1 DEF EnqueueContext, Shape, Table
  <2> HIDE DEF k
  <2>3. NewRow(k).state # "COMPLETED"
    BY <2>2, NewRowFields
  <2> QED BY <2>2, <2>3, CompletingNone
<1>4. ASSUME NEW p \in Packets, CloseCase(p) PROVE Completing
  BY <1>4, CompletingUnchanged DEF CloseCase
<1>5. ASSUME NEW p \in Packets, Failover(p) PROVE Completing
  BY <1>5, CompletingUnchanged DEF Failover
<1>6. ASSUME NEW w \in Workers, LoadEvidence(w) PROVE Completing
  BY <1>6, CompletingUnchanged DEF LoadEvidence
<1>7. ASSUME NEW w \in Workers, TakeClone(w) PROVE Completing
  BY <1>7, CompletingUnchanged DEF TakeClone
<1>8. ASSUME NEW w \in Workers, Interpret(w) PROVE Completing
  BY <1>8, CompletingUnchanged DEF Interpret
<1>9. ASSUME NEW w \in Workers, BeginPersist(w) PROVE Completing
  BY <1>9, CompletingUnchanged DEF BeginPersist
<1>10. ASSUME NEW w \in Workers, Persist(w) PROVE Completing
  BY <1>10, CompletingUnchanged DEF Persist
<1>11. ASSUME NEW w \in Workers, BeginMaterialise(w) PROVE Completing
  BY <1>11, CompletingUnchanged DEF BeginMaterialise
<1>12. ASSUME NEW w \in Workers, Materialise(w) PROVE Completing
  BY <1>12, CompletingUnchanged DEF Materialise
<1>13. ASSUME NEW w \in Workers, Govern(w) PROVE Completing
  BY <1>13, CompletingUnchanged DEF Govern
<1>14. ASSUME NEW w \in Workers, Complete(w) PROVE Completing
  <2> DEFINE j == workers[w].job
             r == Unleased(jobs[j], "COMPLETED")
  <2>1. j \in JobIds /\ jobs' = [jobs EXCEPT ![j] = r]
    BY <1>14 DEF Complete, Shape, WorkersHoldJobs
  <2>2. r.rev = jobs[j].rev
    BY <2>1, UnleasedFields DEF Shape, Table, States, Terminal
  <2> HIDE DEF r, j
  <2> QED BY <1>14, <2>1, <2>2 DEF Completing, Shape, Table, j
<1>15. ASSUME NEW w \in Workers, Crash(w) PROVE Completing
  BY <1>15, CompletingUnchanged DEF Crash
<1>16. ASSUME NEW w \in Workers, NEW e \in Errors, ReportFailure(w, e) PROVE Completing
  <2>1. CASE jobs' = jobs
    BY <2>1, CompletingUnchanged
  <2>2. CASE LeaseHeld(w) /\ jobs' = [jobs EXCEPT ![workers[w].job] = RetryRow(jobs[workers[w].job], e)]
    <3> DEFINE j == workers[w].job
               row == jobs[j]
               r == RetryRow(row, e)
    <3>1. j \in JobIds /\ row.state = "LEASED" /\ jobs' = [jobs EXCEPT ![j] = r]
      BY <2>2 DEF Shape, WorkersHoldJobs, LeaseHeld
    <3>2. GoodRow(row) /\ Solvent(row)
      BY <3>1 DEF Shape, Table
    <3> HIDE DEF row, j
    <3>3. r.state \in Waiting \union {"DEAD_LETTERED"}
      BY <3>1, <3>2, RetryRowGood
    <3> HIDE DEF r
    <3>4. r.state # "COMPLETED"
      BY <3>3 DEF Waiting
    <3> QED BY <3>1, <3>4, CompletingNone
  <2> QED BY <1>16, <2>1, <2>2 DEF ReportFailure
<1>17. ASSUME NEW w \in Workers, ClaimNothing(w) PROVE Completing
  <2>1. jobs' = Sweep /\ \A j \in JobIds : Swept(Sweep[j], jobs[j])
    BY <1>17, SweepFields DEF ClaimNothing, Shape
  <2> QED BY <2>1 DEF Completing, Swept
<1>18. ASSUME NEW w \in Workers, NEW j \in JobIds, Claim(w, j) PROVE Completing
  <2> DEFINE r == ClaimRow(Sweep[j])
  <2>1. /\ jobs' = [Sweep EXCEPT ![j] = r] /\ Sweep \in [JobIds -> Row]
        /\ \A i \in JobIds : Swept(Sweep[i], jobs[i])
    BY <1>18, SweepFields DEF Claim, Shape
  <2>2. r.state = "LEASED"
    BY <2>1, ClaimRowFields
  <2> HIDE DEF r
  <2>3. \A i \in JobIds : jobs'[i] = IF i = j THEN r ELSE Sweep[i]
    BY <2>1
  <2> QED BY <2>1, <2>2, <2>3 DEF Completing, Swept
<1>19. ASSUME NEW j \in JobIds, LeaseExpires(j) PROVE Completing
  <2> DEFINE row == jobs[j]
             r == [row EXCEPT !.live = FALSE]
  <2>1. row \in Row /\ row.state = "LEASED" /\ jobs' = [jobs EXCEPT ![j] = r]
    BY <1>19 DEF LeaseExpires, Shape, Table
  <2> HIDE DEF row
  <2>2. r.state # "COMPLETED"
    BY <2>1 DEF Row
  <2> HIDE DEF r
  <2> QED BY <2>1, <2>2, CompletingNone
<1>20. ASSUME NEW j \in JobIds, NEW key, OperatorDeadLetter(j, key) PROVE Completing
  <2> DEFINE row == jobs[j]
             u == Unleased(row, "DEAD_LETTERED")
             r == [u EXCEPT !.class = "OPERATOR_QUARANTINE"]
  <2>1. row \in Row /\ jobs' = [jobs EXCEPT ![j] = r]
    BY <1>20 DEF OperatorDeadLetter, Shape, Table
  <2> HIDE DEF row
  <2>2. u \in Row /\ u.state = "DEAD_LETTERED"
    BY <2>1, UnleasedFields DEF States, Terminal
  <2> HIDE DEF u
  <2>3. r.state # "COMPLETED"
    BY <2>2 DEF Row
  <2> HIDE DEF r
  <2> QED BY <2>1, <2>3, CompletingNone
<1>21. ASSUME NEW j \in JobIds, NEW key, OperatorRequeue(j, key) PROVE Completing
  <2> DEFINE row == jobs[j]
             r == Revive(row, [row EXCEPT !.state = "QUEUED"])
  <2>1. row.state = "DEAD_LETTERED" /\ GoodRow(row) /\ jobs' = [jobs EXCEPT ![j] = r]
    BY <1>21 DEF OperatorRequeue, Shape, Table
  <2> HIDE DEF row
  <2>2. r.state # "COMPLETED"
    BY <2>1, RequeueRowFields
  <2> HIDE DEF r
  <2> QED BY <2>1, <2>2, CompletingNone
<1>22. ASSUME NEW j \in JobIds, ResolveDeadLetter(j) PROVE Completing
  BY <1>22, CompletingUnchanged DEF ResolveDeadLetter
<1>23. ASSUME NEW j \in JobIds, CompleteReviewTask(j) PROVE Completing
  BY <1>23, CompletingUnchanged DEF CompleteReviewTask
<1> QED BY <1>0, <1>1, <1>2, <1>3, <1>4, <1>5, <1>6, <1>7, <1>8, <1>9, <1>10,
           <1>11, <1>12, <1>13, <1>14, <1>15, <1>16, <1>17, <1>18, <1>19,
           <1>20, <1>21, <1>22, <1>23 DEF Next, Produce, Work, Operate

(* The worker that completes a job has put what the job owes into the case. *)
LEMMA CompleteConsiders ==
  ASSUME Readers, Shape, NEW w \in Workers, Complete(w)
  PROVE  \E c \in applied[workers[w].job[1]] : Covers(c, Owed(workers[w].job))
<1>1. PICK me \in Worker : me = workers[w]
  BY DEF Shape, WorkersHoldJobs
<1> DEFINE j == me.job
           p == j[1]
<1>2. /\ j \in JobIds /\ p \in Packets /\ me.stage = "governed"
      /\ jobs[j].rev = me.rev /\ me.rev \in Nat /\ me.seen \in Evidence
  BY <1>1, JobIdsShape DEF Complete, LeaseValid, LeaseHeld, Shape, WorkersHoldJobs, Worker
<1>3. /\ j[2] = 0 => me.seen.msgs = me.rev
      /\ j[2] # 0 => Covers(me.seen, cause[j])
      /\ me.seen \in applied[p]
  BY <1>1, <1>2 DEF Readers, Reader, Writing
<1>4. me.seen.msgs \in Nat /\ me.seen.answers \in Nat
  BY <1>2 DEF Evidence
<1>5. Covers(me.seen, Owed(j))
  <2>1. CASE j[2] = 0
    BY <1>2, <1>3, <1>4, <2>1 DEF Owed, Covers
  <2>2. CASE j[2] # 0
    BY <1>3, <2>2 DEF Owed
  <2> QED BY <2>1, <2>2
<1> QED BY <1>1, <1>3, <1>5

(* Completed jobs stay considered over every step.                          *)
LEMMA ConsideredStep ==
  ASSUME EvidenceConsidered, Readers, Shape, Shape', Accumulates, Completing
  PROVE  EvidenceConsidered'
<1> SUFFICES ASSUME NEW j \in JobIds, jobs'[j].state = "COMPLETED"
             PROVE  \E c \in applied'[j[1]] : Covers(c, Owed(j)')
  BY DEF EvidenceConsidered
<1>1. CASE jobs[j].state = "COMPLETED" /\ jobs'[j].rev = jobs[j].rev
  <2>1. PICK c \in applied[j[1]] : Covers(c, Owed(j))
    BY <1>1 DEF EvidenceConsidered
  <2>2. Owed(j)' = Owed(j) /\ c \in applied'[j[1]]
    BY <1>1, JobIdsShape DEF Accumulates, Owed
  <2> QED BY <2>1, <2>2
<1>2. CASE \E w \in Workers : Complete(w) /\ workers[w].job = j /\ jobs'[j].rev = jobs[j].rev
  <2>1. PICK w \in Workers : Complete(w) /\ workers[w].job = j /\ jobs'[j].rev = jobs[j].rev
    BY <1>2
  <2>2. PICK c \in applied[j[1]] : Covers(c, Owed(j))
    BY <2>1, CompleteConsiders
  <2>3. Owed(j)' = Owed(j) /\ applied' = applied
    BY <2>1 DEF Complete, packetVars, Owed
  <2> QED BY <2>2, <2>3
<1> QED BY <1>1, <1>2 DEF Completing

(* Past, Readers and EvidenceConsidered hold in every reachable state.      *)
LEMMA ReadersInvariant == Spec => [](Past /\ Readers /\ EvidenceConsidered)
<1>1. Init => Past /\ Readers /\ EvidenceConsidered
  <2> SUFFICES ASSUME Init PROVE Past /\ Readers /\ EvidenceConsidered
    OBVIOUS
  <2>1. Past
    <3>1. /\ \A p \in Packets : ~clone[<<p, 0>>] /\ interps[p] = << >>
          /\ \A j \in JobIds : cause[j] = [msgs |-> 0, answers |-> 0] /\ j[1] \in Packets
          /\ revision \in [Packets -> Nat] /\ answers \in [Packets -> Nat]
      BY JobIdsShape DEF Init, Idle
    <3>2. \A j \in JobIds : Covers(Now(j[1]), cause[j])
      BY <3>1 DEF Covers, Now
    <3>3. ASSUME NEW p \in Packets, NEW i \in 1 .. Len(interps[p])
          PROVE  FALSE
      <4>1. interps[p] = << >>
        BY <3>1
      <4>2. Len(<< >>) = 0
        OBVIOUS
      <4>3. Len(interps[p]) = 0
        BY <4>1, <4>2, Zenon
      <4> QED BY <4>3
    <3> QED BY <3>1, <3>2, <3>3 DEF Past
  <2>2. Readers
    BY IdleIsWorker DEF Init, Readers, Reader
  <2>3. EvidenceConsidered
    <3>1. \A j \in JobIds : jobs[j].state # "COMPLETED"
      <4> DEFINE n == NewRow(1)
      <4>1. n \in Row /\ n.state = "QUEUED" /\ NoRow.state = "ABSENT"
        BY NewRowFields, NoRowFields DEF GoodRow
      <4>2. \A j \in JobIds : jobs[j] \in {NoRow, [n EXCEPT !.bounded = FALSE]}
        BY DEF Init
      <4> HIDE DEF n
      <4>3. [n EXCEPT !.bounded = FALSE].state = "QUEUED"
        BY <4>1 DEF Row
      <4> QED BY <4>1, <4>2, <4>3
    <3> QED BY <3>1 DEF EvidenceConsidered
  <2> QED BY <2>1, <2>2, <2>3
<1>2. (Past /\ Readers /\ EvidenceConsidered) /\ Shape /\ Shape' /\ Tokens /\ [Next]_vars
        => (Past /\ Readers /\ EvidenceConsidered)'
  BY AccumulatesStep, CompletingStep, PastStep, ReadersStep, ConsideredStep
<1> QED BY <1>1, <1>2, ShapeInvariant, TokensInvariant, PTL DEF Spec

(* Whatever joins a packet, and whatever is answered, while workers read,   *)
(* think, write, crash and take over: a COMPLETED job has put a conclusion  *)
(* into the case that considered all the evidence it stands for.            *)
THEOREM EvidenceIsConsidered == Spec => []EvidenceConsidered
BY ReadersInvariant, PTL

(* A packet's own conclusion is made from the very revision that was        *)
(* claimed.                                                                 *)
THEOREM ConclusionsMatchClaims == Spec => []ConclusionMatchesClaim
<1>1. Readers => ConclusionMatchesClaim
  BY DEF Readers, Reader, ConclusionMatchesClaim, Writing
<1> QED BY <1>1, ReadersInvariant, PTL

(* A superseded case context is never completed.                            *)
THEOREM SupersededStaysOpen == Spec => SupersededNeverCompletes
<1>1. Shape /\ [Next]_vars =>
        [\A p \in Packets : \A k \in 1 .. MaxContexts :
           k < context[p] /\ jobs[<<p, k>>].state # "COMPLETED"
             => jobs'[<<p, k>>].state # "COMPLETED"]_vars
  <2> SUFFICES ASSUME Shape, [Next]_vars, NEW p \in Packets, NEW k \in 1 .. MaxContexts,
                      k < context[p], jobs[<<p, k>>].state # "COMPLETED",
                      jobs'[<<p, k>>].state = "COMPLETED"
               PROVE  FALSE
    OBVIOUS
  <2>1. <<p, k>> \in JobIds
    BY JobIdsShape, DispatchAssumption
  <2>2. PICK w \in Workers : Complete(w) /\ workers[w].job = <<p, k>>
    BY <2>1, CompletingStep DEF Completing
  <2>3. ContextCurrent(<<p, k>>)
    BY <2>2 DEF Complete, LeaseValid, LeaseHeld
  <2>4. k = context[p]
    BY <2>3, DispatchAssumption DEF ContextCurrent
  <2> QED BY <2>4, DispatchAssumption DEF Shape, Table
<1> QED BY <1>1, ShapeInvariant, PTL DEF Spec, SupersededNeverCompletes

-----------------------------------------------------------------------------
(* Stops.                                                                   *)

(* A step that opens no console entry and releases no stopped job.          *)
LEMMA EntriesKept ==
  ASSUME OpenEntryIsStopped, console' = console,
         \A j \in JobIds : jobs[j].state = "DEAD_LETTERED" => jobs'[j].state = "DEAD_LETTERED"
  PROVE  OpenEntryIsStopped'
  BY DEF OpenEntryIsStopped

(* A step that leaves rows and console alone.                               *)
LEMMA EntriesSame ==
  ASSUME OpenEntryIsStopped, UNCHANGED <<jobs, console>>
  PROVE  OpenEntryIsStopped'
  BY DEF OpenEntryIsStopped

(* A step that rewrites one row and its entry together.                     *)
LEMMA EntriesRewrite ==
  ASSUME OpenEntryIsStopped, Shape, NEW j \in JobIds, NEW r, NEW c,
         jobs' = [jobs EXCEPT ![j] = r], console' = [console EXCEPT ![j] = c],
         c = "OPEN" => r.state = "DEAD_LETTERED"
  PROVE  OpenEntryIsStopped'
  BY DEF OpenEntryIsStopped, Shape, Table, Ledgers

(* The case context that is about to be raised has no row yet.              *)
LEMMA NextContextAbsent ==
  ASSUME Shape, NEW p \in Packets, context[p] + 1 <= MaxContexts
  PROVE  /\ <<p, context[p] + 1>> \in JobIds
         /\ jobs[<<p, context[p] + 1>>].state = "ABSENT"
<1>1. context[p] + 1 \in 1 .. MaxContexts /\ context[p] + 1 > context[p]
  BY DispatchAssumption DEF Shape, Table
<1>2. context[p] + 1 \in 0 .. MaxContexts
  BY <1>1, DispatchAssumption
<1> QED BY <1>1, <1>2, JobIdsShape DEF Shape, Table, ContextsInOrder

(* A new case context: its row is new, so it had no entry to close.         *)
LEMMA EntriesContext ==
  ASSUME OpenEntryIsStopped, Shape, NEW p \in Packets, NEW evidence, NEW cloned,
         EnqueueContext(p, evidence, cloned)
  PROVE  OpenEntryIsStopped'
<1> DEFINE j == <<p, context[p] + 1>>
           r == NewRow(context[p] + 1)
<1>1. jobs' = [jobs EXCEPT ![j] = r] /\ console' = console
  BY DEF EnqueueContext, deadLetterVars
<1>2. j \in JobIds /\ jobs[j].state = "ABSENT"
  BY NextContextAbsent DEF EnqueueContext
<1> HIDE DEF j, r
<1>3. \A i \in JobIds : jobs[i].state = "DEAD_LETTERED" => jobs'[i].state = "DEAD_LETTERED"
  BY <1>1, <1>2 DEF Shape, Table
<1> QED BY <1>1, <1>3, EntriesKept

(* A new message revives a stopped job and closes its entry with it.        *)
LEMMA EntriesEnqueue ==
  ASSUME OpenEntryIsStopped, Shape, NEW p \in Packets, Enqueue(p)
  PROVE  OpenEntryIsStopped'
<1> DEFINE j == <<p, 0>>
           r == EnqueueRow(jobs[j], revision[p] + 1)
           c == IF jobs[j].state = "DEAD_LETTERED" /\ console[j] = "OPEN"
                THEN "CLOSED" ELSE console[j]
<1>1. j \in JobIds
  BY JobIdsShape
<1>2. jobs' = [jobs EXCEPT ![j] = r] /\ console' = [console EXCEPT ![j] = c]
  BY DEF Enqueue
<1>3. c # "OPEN"
  BY <1>1 DEF OpenEntryIsStopped
<1> HIDE DEF j, r, c
<1> QED BY <1>1, <1>2, <1>3, EntriesRewrite

(* The sweep opens an entry for exactly the rows it stops.                  *)
LEMMA EntriesSweep ==
  ASSUME OpenEntryIsStopped, Shape, RecordSweep, NEW i \in JobIds, console'[i] = "OPEN"
  PROVE  Sweep[i].state = "DEAD_LETTERED" /\ ~Claimable(Sweep[i])
<1>1. Swept(Sweep[i], jobs[i])
  BY SweepFields DEF Shape
<1>2. CASE Exhausted(jobs[i])
  <2>1. Sweep[i] = DeadLetterRow(jobs[i], "RETRY_EXHAUSTED") /\ jobs[i] \in Row
    BY <1>2 DEF Sweep, Shape, Table
  <2>2. Sweep[i].state = "DEAD_LETTERED"
    BY <2>1, DeadLetterRowFields DEF Classes
  <2> QED BY <2>2 DEF Claimable, Expired, Waiting
<1>3. CASE ~Exhausted(jobs[i])
  <2>1. Sweep[i] = jobs[i] /\ console[i] = "OPEN"
    BY <1>3 DEF Sweep, RecordSweep
  <2>2. Sweep[i].state = "DEAD_LETTERED"
    BY <2>1 DEF OpenEntryIsStopped
  <2> QED BY <2>2 DEF Claimable, Expired, Waiting
<1> QED BY <1>2, <1>3

(* A claim leases a row that has no open entry.                             *)
LEMMA EntriesClaim ==
  ASSUME OpenEntryIsStopped, Shape, NEW w \in Workers, NEW j \in JobIds, Claim(w, j)
  PROVE  OpenEntryIsStopped'
<1>1. /\ jobs' = [Sweep EXCEPT ![j] = ClaimRow(Sweep[j])]
      /\ RecordSweep /\ Claimable(Sweep[j])
  BY DEF Claim
<1>2. SUFFICES ASSUME NEW i \in JobIds, console'[i] = "OPEN"
               PROVE  jobs'[i].state = "DEAD_LETTERED"
  BY DEF OpenEntryIsStopped
<1>3. Sweep[i].state = "DEAD_LETTERED" /\ i # j
  <2>1. Sweep[i].state = "DEAD_LETTERED" /\ ~Claimable(Sweep[i])
    BY <1>1, <1>2, EntriesSweep
  <2> QED BY <1>1, <2>1
<1>4. jobs'[i] = Sweep[i]
  BY <1>1, <1>3 DEF Sweep
<1> QED BY <1>3, <1>4

(* A claim that only sweeps.                                                *)
LEMMA EntriesClaimNothing ==
  ASSUME OpenEntryIsStopped, Shape, NEW w \in Workers, ClaimNothing(w)
  PROVE  OpenEntryIsStopped'
<1>1. jobs' = Sweep /\ RecordSweep
  BY DEF ClaimNothing
<1> QED BY <1>1, EntriesSweep DEF OpenEntryIsStopped

(* A lease that expires or a job that is completed was not stopped.         *)
LEMMA EntriesUnstopped ==
  ASSUME OpenEntryIsStopped, Shape, NEW j \in JobIds, NEW r,
         jobs[j].state = "LEASED", jobs' = [jobs EXCEPT ![j] = r], console' = console
  PROVE  OpenEntryIsStopped'
  BY EntriesKept DEF Shape, Table

(* A failure report opens an entry exactly when it stops the job.           *)
LEMMA EntriesReportFailure ==
  ASSUME OpenEntryIsStopped, Shape, NEW w \in Workers, NEW e \in Errors, ReportFailure(w, e)
  PROVE  OpenEntryIsStopped'
<1>1. CASE LeaseHeld(w) /\ jobs' = [jobs EXCEPT ![workers[w].job] = RetryRow(jobs[workers[w].job], e)]
           /\ RecordFailure(workers[w].job, e)
  <2> DEFINE j == workers[w].job
             row == jobs[j]
             r == RetryRow(row, e)
             verdict == IF Unbudgeted(row, e) THEN "NONE" ELSE Verdict(row, e)
             c == IF verdict # "NONE" THEN "OPEN" ELSE console[j]
  <2>1. j \in JobIds /\ row.state = "LEASED"
    BY <1>1 DEF Shape, WorkersHoldJobs, LeaseHeld
  <2>2. jobs' = [jobs EXCEPT ![j] = r] /\ console' = [console EXCEPT ![j] = c]
    BY <1>1 DEF RecordFailure
  <2>3. console[j] # "OPEN" /\ row \in Row
    BY <2>1 DEF OpenEntryIsStopped, Shape, Table
  <2>4. verdict # "NONE" => r.state = "DEAD_LETTERED"
    <3>1. verdict # "NONE" => r = DeadLetterRow(row, Verdict(row, e)) /\ Verdict(row, e) \in Classes
      BY DEF RetryRow, Verdict, Classes
    <3> QED BY <2>3, <3>1, DeadLetterRowFields
  <2>5. c = "OPEN" => r.state = "DEAD_LETTERED"
    BY <2>3, <2>4
  <2> HIDE DEF j, r, c
  <2> QED BY <2>1, <2>2, <2>5, EntriesRewrite
<1>2. CASE UNCHANGED <<jobs, deadLetterVars>>
  BY <1>2, EntriesSame DEF deadLetterVars
<1> QED BY <1>1, <1>2 DEF ReportFailure

(* Operators: a stop opens the entry, a release closes it.                  *)
LEMMA EntriesOperators ==
  ASSUME OpenEntryIsStopped, Shape, NEW j \in JobIds, NEW key,
         OperatorDeadLetter(j, key) \/ OperatorRequeue(j, key) \/ ResolveDeadLetter(j)
  PROVE  OpenEntryIsStopped'
<1>1. CASE OperatorDeadLetter(j, key)
  <2> DEFINE u == Unleased(jobs[j], "DEAD_LETTERED")
             r == [u EXCEPT !.class = "OPERATOR_QUARANTINE"]
  <2>1. jobs' = [jobs EXCEPT ![j] = r] /\ console' = [console EXCEPT ![j] = "OPEN"]
    BY <1>1 DEF OperatorDeadLetter
  <2>2. u \in Row /\ u.state = "DEAD_LETTERED"
    BY UnleasedFields DEF Shape, Table, States, Terminal
  <2> HIDE DEF u
  <2>3. r.state = "DEAD_LETTERED"
    BY <2>2 DEF Row
  <2> HIDE DEF r
  <2> QED BY <2>1, <2>3, EntriesRewrite
<1>2. CASE OperatorRequeue(j, key)
  <2> DEFINE r == Revive(jobs[j], [jobs[j] EXCEPT !.state = "QUEUED"])
             c == IF console[j] = "OPEN" THEN "CLOSED" ELSE console[j]
  <2>1. jobs' = [jobs EXCEPT ![j] = r] /\ console' = [console EXCEPT ![j] = c] /\ c # "OPEN"
    BY <1>2 DEF OperatorRequeue
  <2> HIDE DEF r, c
  <2> QED BY <2>1, EntriesRewrite
<1>3. CASE ResolveDeadLetter(j)
  BY <1>3 DEF ResolveDeadLetter, OpenEntryIsStopped, Shape, Ledgers
<1> QED BY <1>1, <1>2, <1>3

(* Console and table move together in every step.                           *)
LEMMA EntriesStep ==
  ASSUME OpenEntryIsStopped, Shape, [Next]_vars
  PROVE  OpenEntryIsStopped'
<1>0. ASSUME UNCHANGED vars PROVE OpenEntryIsStopped'
  BY <1>0, EntriesSame DEF vars, deadLetterVars
<1>1. ASSUME NEW p \in Packets, Enqueue(p) PROVE OpenEntryIsStopped'
  BY <1>1, EntriesEnqueue
<1>2. ASSUME NEW p \in Packets, AdmitAnswer(p) PROVE OpenEntryIsStopped'
  BY <1>2, EntriesContext DEF AdmitAnswer
<1>3. ASSUME NEW p \in Packets, ConfirmIdentity(p) PROVE OpenEntryIsStopped'
  BY <1>3, EntriesContext DEF ConfirmIdentity
<1>4. ASSUME NEW p \in Packets, CloseCase(p) PROVE OpenEntryIsStopped'
  BY <1>4, EntriesSame DEF CloseCase, deadLetterVars
<1>5. ASSUME NEW p \in Packets, Failover(p) PROVE OpenEntryIsStopped'
  BY <1>5, EntriesSame DEF Failover, deadLetterVars
<1>6. ASSUME NEW w \in Workers, LoadEvidence(w) PROVE OpenEntryIsStopped'
  BY <1>6, EntriesSame DEF LoadEvidence, deadLetterVars
<1>7. ASSUME NEW w \in Workers, TakeClone(w) PROVE OpenEntryIsStopped'
  BY <1>7, EntriesSame DEF TakeClone, deadLetterVars
<1>8. ASSUME NEW w \in Workers, Interpret(w) PROVE OpenEntryIsStopped'
  BY <1>8, EntriesSame DEF Interpret, deadLetterVars
<1>9. ASSUME NEW w \in Workers, BeginPersist(w) PROVE OpenEntryIsStopped'
  BY <1>9, EntriesSame DEF BeginPersist, deadLetterVars
<1>10. ASSUME NEW w \in Workers, Persist(w) PROVE OpenEntryIsStopped'
  BY <1>10, EntriesSame DEF Persist, deadLetterVars
<1>11. ASSUME NEW w \in Workers, BeginMaterialise(w) PROVE OpenEntryIsStopped'
  BY <1>11, EntriesSame DEF BeginMaterialise, deadLetterVars
<1>12. ASSUME NEW w \in Workers, Materialise(w) PROVE OpenEntryIsStopped'
  BY <1>12, EntriesSame DEF Materialise, deadLetterVars
<1>13. ASSUME NEW w \in Workers, Govern(w) PROVE OpenEntryIsStopped'
  BY <1>13, EntriesSame DEF Govern, deadLetterVars
<1>14. ASSUME NEW w \in Workers, Complete(w) PROVE OpenEntryIsStopped'
  <2>1. workers[w].job \in JobIds /\ jobs[workers[w].job].state = "LEASED"
    BY <1>14 DEF Complete, LeaseValid, LeaseHeld, Shape, WorkersHoldJobs
  <2> QED BY <1>14, <2>1, EntriesUnstopped DEF Complete, deadLetterVars
<1>15. ASSUME NEW w \in Workers, Crash(w) PROVE OpenEntryIsStopped'
  BY <1>15, EntriesSame DEF Crash, deadLetterVars
<1>16. ASSUME NEW w \in Workers, NEW e \in Errors, ReportFailure(w, e) PROVE OpenEntryIsStopped'
  BY <1>16, EntriesReportFailure
<1>17. ASSUME NEW w \in Workers, ClaimNothing(w) PROVE OpenEntryIsStopped'
  BY <1>17, EntriesClaimNothing
<1>18. ASSUME NEW w \in Workers, NEW j \in JobIds, Claim(w, j) PROVE OpenEntryIsStopped'
  BY <1>18, EntriesClaim
<1>19. ASSUME NEW j \in JobIds, LeaseExpires(j) PROVE OpenEntryIsStopped'
  BY <1>19, EntriesUnstopped DEF LeaseExpires, deadLetterVars
<1>20. ASSUME NEW j \in JobIds, NEW key, OperatorDeadLetter(j, key) PROVE OpenEntryIsStopped'
  BY <1>20, EntriesOperators
<1>21. ASSUME NEW j \in JobIds, NEW key, OperatorRequeue(j, key) PROVE OpenEntryIsStopped'
  BY <1>21, EntriesOperators
<1>22. ASSUME NEW j \in JobIds, ResolveDeadLetter(j) PROVE OpenEntryIsStopped'
  BY <1>22, EntriesOperators
<1>23. ASSUME NEW j \in JobIds, CompleteReviewTask(j) PROVE OpenEntryIsStopped'
  BY <1>23, EntriesSame DEF CompleteReviewTask
<1> QED BY <1>0, <1>1, <1>2, <1>3, <1>4, <1>5, <1>6, <1>7, <1>8, <1>9, <1>10,
           <1>11, <1>12, <1>13, <1>14, <1>15, <1>16, <1>17, <1>18, <1>19,
           <1>20, <1>21, <1>22, <1>23 DEF Next, Produce, Work, Operate

(* Whoever stops a job, and whatever revives it, the administrators' console *)
(* never shows an open entry for a job that is running or done.              *)
THEOREM OpenEntriesAreStopped == Spec => []OpenEntryIsStopped
<1>1. Init => OpenEntryIsStopped
  BY DEF Init, OpenEntryIsStopped
<1>2. OpenEntryIsStopped /\ Shape /\ [Next]_vars => OpenEntryIsStopped'
  BY EntriesStep
<1> QED BY <1>1, <1>2, ShapeInvariant, PTL DEF Spec

(* A job stops in this step.                                                *)
Stopping(j) == jobs[j].state # "DEAD_LETTERED" /\ jobs'[j].state = "DEAD_LETTERED"

(* A stop that a job without a budget may meet.                             *)
ByOperator(j) == jobs[j].bounded \/ jobs'[j].class = "OPERATOR_QUARANTINE"

(* A step that writes no row stops none.                                    *)
LEMMA StoppingNone ==
  ASSUME NEW j \in JobIds, Stopping(j), jobs' = jobs
  PROVE  FALSE
  BY DEF Stopping

(* A row that is written into another state is not stopped by the write.    *)
LEMMA StoppingOther ==
  ASSUME Shape, NEW j \in JobIds, Stopping(j), NEW i \in JobIds, NEW r,
         jobs' = [jobs EXCEPT ![i] = r]
  PROVE  i = j /\ jobs'[j] = r /\ r.state = "DEAD_LETTERED"
  BY DEF Stopping, Shape, Table

(* A new message queues its job or leaves it leased.                        *)
LEMMA StoppingEnqueue ==
  ASSUME Shape, NEW j \in JobIds, Stopping(j), NEW p \in Packets, Enqueue(p)
  PROVE  FALSE
<1> DEFINE i == <<p, 0>>
           rev == revision[p] + 1
           row == jobs[i]
           r == EnqueueRow(row, rev)
<1>1. i \in JobIds /\ rev \in Nat /\ rev # revision[p]
  BY JobIdsShape DEF Shape, Table
<1>2. row.state = "ABSENT" \/ row.rev # rev
  BY <1>1 DEF Shape, Table, RevisionOfPacket
<1>3. GoodRow(row)
  BY <1>1 DEF Shape, Table
<1>4. jobs' = [jobs EXCEPT ![i] = r]
  BY DEF Enqueue
<1> HIDE DEF rev, row
<1>5. Enqueued(r, row, rev)
  BY <1>1, <1>2, <1>3, EnqueueRowFields
<1>6. r.state # "DEAD_LETTERED"
  BY <1>5 DEF Enqueued
<1> HIDE DEF i, r
<1> QED BY <1>1, <1>4, <1>6, StoppingOther

(* A new case context is queued.                                            *)
LEMMA StoppingContext ==
  ASSUME Shape, NEW j \in JobIds, Stopping(j), NEW p \in Packets, NEW evidence, NEW cloned,
         EnqueueContext(p, evidence, cloned)
  PROVE  FALSE
<1> DEFINE k == context[p] + 1
           i == <<p, k>>
           r == NewRow(k)
<1>1. i \in JobIds /\ k \in Nat
  BY NextContextAbsent, DispatchAssumption DEF EnqueueContext, Shape, Table
<1>2. jobs' = [jobs EXCEPT ![i] = r] /\ r.state = "QUEUED"
  BY <1>1, NewRowFields DEF EnqueueContext
<1> HIDE DEF i, r
<1> QED BY <1>1, <1>2, StoppingOther

(* The sweep stops budgeted jobs only, and what is claimed is not stopped.  *)
LEMMA StoppingSweep ==
  ASSUME Shape, NEW j \in JobIds, Stopping(j), jobs'[j] = Sweep[j]
  PROVE  jobs[j].bounded
<1>1. Swept(Sweep[j], jobs[j])
  BY SweepFields DEF Shape
<1> QED BY <1>1 DEF Swept, Stopping

(* A claim stops what it sweeps.                                            *)
LEMMA StoppingClaim ==
  ASSUME Shape, NEW j \in JobIds, Stopping(j), NEW w \in Workers, NEW i \in JobIds, Claim(w, i)
  PROVE  jobs[j].bounded
<1> DEFINE r == ClaimRow(Sweep[i])
<1>1. jobs' = [Sweep EXCEPT ![i] = r] /\ Sweep \in [JobIds -> Row]
  BY SweepFields DEF Claim, Shape
<1>2. r.state = "LEASED"
  BY <1>1, ClaimRowFields
<1> HIDE DEF r
<1>3. j # i /\ jobs'[j] = Sweep[j]
  BY <1>1, <1>2 DEF Stopping
<1> QED BY <1>3, StoppingSweep

(* A reported failure stops a job only out of its budget.                   *)
LEMMA StoppingReportFailure ==
  ASSUME Shape, NEW j \in JobIds, Stopping(j), NEW w \in Workers, NEW e \in Errors,
         ReportFailure(w, e)
  PROVE  jobs[j].bounded
<1> DEFINE i == workers[w].job
           row == jobs[i]
           r == RetryRow(row, e)
<1>1. i \in JobIds /\ jobs' = [jobs EXCEPT ![i] = r]
  BY StoppingNone DEF ReportFailure, Shape, WorkersHoldJobs
<1>2. i = j /\ r.state = "DEAD_LETTERED"
  <2> HIDE DEF r, i
  <2> QED BY <1>1, StoppingOther
<1>3. ASSUME Unbudgeted(row, e) PROVE FALSE
  <2> DEFINE st == IF Knowledge(e) THEN "BLOCKED_KNOWLEDGE_AUTHORITY" ELSE "RETRY"
             u == Unleased(row, st)
  <2>1. st \in States /\ st # "DEAD_LETTERED" /\ row \in Row
    BY <1>1 DEF States, Waiting, Shape, Table
  <2>2. r = [u EXCEPT !.blocks = IF Knowledge(e) THEN u.blocks + 1 ELSE u.blocks]
    BY <1>3 DEF RetryRow
  <2> HIDE DEF st, row
  <2>3. u \in Row /\ u.state = st
    BY <2>1, UnleasedFields
  <2> HIDE DEF u
  <2>4. r.state = st
    BY <2>2, <2>3 DEF Row
  <2> QED BY <1>2, <2>1, <2>4
<1> QED BY <1>2, <1>3 DEF Unbudgeted

(* The stops of a step, one by one.                                         *)
LEMMA StoppingStep ==
  ASSUME Shape, [Next]_vars, NEW j \in JobIds, Stopping(j)
  PROVE  ByOperator(j)
<1>0. ASSUME UNCHANGED vars PROVE FALSE
  BY <1>0, StoppingNone DEF vars
<1>1. ASSUME NEW p \in Packets, Enqueue(p) PROVE FALSE
  BY <1>1, StoppingEnqueue
<1>2. ASSUME NEW p \in Packets, AdmitAnswer(p) PROVE FALSE
  BY <1>2, StoppingContext DEF AdmitAnswer
<1>3. ASSUME NEW p \in Packets, ConfirmIdentity(p) PROVE FALSE
  BY <1>3, StoppingContext DEF ConfirmIdentity
<1>4. ASSUME NEW p \in Packets, CloseCase(p) PROVE FALSE
  BY <1>4, StoppingNone DEF CloseCase
<1>5. ASSUME NEW p \in Packets, Failover(p) PROVE FALSE
  BY <1>5, StoppingNone DEF Failover
<1>6. ASSUME NEW w \in Workers, LoadEvidence(w) PROVE FALSE
  BY <1>6, StoppingNone DEF LoadEvidence
<1>7. ASSUME NEW w \in Workers, TakeClone(w) PROVE FALSE
  BY <1>7, StoppingNone DEF TakeClone
<1>8. ASSUME NEW w \in Workers, Interpret(w) PROVE FALSE
  BY <1>8, StoppingNone DEF Interpret
<1>9. ASSUME NEW w \in Workers, BeginPersist(w) PROVE FALSE
  BY <1>9, StoppingNone DEF BeginPersist
<1>10. ASSUME NEW w \in Workers, Persist(w) PROVE FALSE
  BY <1>10, StoppingNone DEF Persist
<1>11. ASSUME NEW w \in Workers, BeginMaterialise(w) PROVE FALSE
  BY <1>11, StoppingNone DEF BeginMaterialise
<1>12. ASSUME NEW w \in Workers, Materialise(w) PROVE FALSE
  BY <1>12, StoppingNone DEF Materialise
<1>13. ASSUME NEW w \in Workers, Govern(w) PROVE FALSE
  BY <1>13, StoppingNone DEF Govern
<1>14. ASSUME NEW w \in Workers, Complete(w) PROVE FALSE
  <2> DEFINE i == workers[w].job
             r == Unleased(jobs[i], "COMPLETED")
  <2>1. i \in JobIds /\ jobs[i] \in Row
    BY <1>14 DEF Complete, LeaseValid, LeaseHeld, Shape, WorkersHoldJobs, Table
  <2>2. r.state = "COMPLETED"
    BY <2>1, UnleasedFields DEF States, Terminal
  <2>3. jobs' = [jobs EXCEPT ![i] = r]
    BY <1>14 DEF Complete
  <2> HIDE DEF i, r
  <2> QED BY <2>1, <2>2, <2>3, StoppingOther
<1>15. ASSUME NEW w \in Workers, Crash(w) PROVE FALSE
  BY <1>15, StoppingNone DEF Crash
<1>16. ASSUME NEW w \in Workers, NEW e \in Errors, ReportFailure(w, e) PROVE jobs[j].bounded
  BY <1>16, StoppingReportFailure
<1>17. ASSUME NEW w \in Workers, ClaimNothing(w) PROVE jobs[j].bounded
  BY <1>17, StoppingSweep DEF ClaimNothing
<1>18. ASSUME NEW w \in Workers, NEW i \in JobIds, Claim(w, i) PROVE jobs[j].bounded
  BY <1>18, StoppingClaim
<1>19. ASSUME NEW i \in JobIds, LeaseExpires(i) PROVE FALSE
  <2>1. jobs' = [jobs EXCEPT ![i] = [jobs[i] EXCEPT !.live = FALSE]] /\ jobs[i] \in Row
           /\ jobs[i].state = "LEASED"
    BY <1>19 DEF LeaseExpires, Shape, Table
  <2>2. [jobs[i] EXCEPT !.live = FALSE].state = "LEASED"
    BY <2>1 DEF Row
  <2> QED BY <2>1, <2>2, StoppingOther
<1>20. ASSUME NEW i \in JobIds, NEW key, OperatorDeadLetter(i, key) PROVE jobs'[j].class = "OPERATOR_QUARANTINE"
  <2> DEFINE u == Unleased(jobs[i], "DEAD_LETTERED")
             r == [u EXCEPT !.class = "OPERATOR_QUARANTINE"]
  <2>1. jobs' = [jobs EXCEPT ![i] = r]
    BY <1>20 DEF OperatorDeadLetter
  <2>2. u \in Row
    BY UnleasedFields DEF Shape, Table, States, Terminal
  <2> HIDE DEF u
  <2>3. r.class = "OPERATOR_QUARANTINE"
    BY <2>2 DEF Row
  <2> HIDE DEF r
  <2> QED BY <2>1, <2>3, StoppingOther
<1>21. ASSUME NEW i \in JobIds, NEW key, OperatorRequeue(i, key) PROVE FALSE
  <2> DEFINE r == Revive(jobs[i], [jobs[i] EXCEPT !.state = "QUEUED"])
  <2>1. jobs' = [jobs EXCEPT ![i] = r] /\ GoodRow(jobs[i]) /\ jobs[i].state = "DEAD_LETTERED"
    BY <1>21 DEF OperatorRequeue, Shape, Table
  <2>2. r.state = "QUEUED"
    BY <2>1, RequeueRowFields
  <2> HIDE DEF r
  <2> QED BY <2>1, <2>2, StoppingOther
<1>22. ASSUME NEW i \in JobIds, ResolveDeadLetter(i) PROVE FALSE
  BY <1>22, StoppingNone DEF ResolveDeadLetter
<1>23. ASSUME NEW i \in JobIds, CompleteReviewTask(i) PROVE FALSE
  BY <1>23, StoppingNone DEF CompleteReviewTask
<1> QED BY <1>0, <1>1, <1>2, <1>3, <1>4, <1>5, <1>6, <1>7, <1>8, <1>9, <1>10,
           <1>11, <1>12, <1>13, <1>14, <1>15, <1>16, <1>17, <1>18, <1>19,
           <1>20, <1>21, <1>22, <1>23 DEF Next, Produce, Work, Operate, ByOperator

(* Jobs that predate bounded retry are never stopped by the machinery.      *)
THEOREM LegacyIsStoppedByOperators == Spec => LegacyStoppedByOperatorOnly
<1>1. Shape /\ [Next]_vars =>
        [\A j \in JobIds :
           ~jobs[j].bounded /\ jobs[j].state # "DEAD_LETTERED"
             /\ jobs'[j].state = "DEAD_LETTERED"
             => jobs'[j].class = "OPERATOR_QUARANTINE"]_vars
  BY StoppingStep DEF Stopping, ByOperator
<1> QED BY <1>1, ShapeInvariant, PTL DEF Spec, LegacyStoppedByOperatorOnly
-----------------------------------------------------------------------------
(* The log of stops and releases.                                           *)

(* The events of one row: each stop by the machinery is named by the number *)
(* of the attempt that it ended, which a leased row has not ended yet; and  *)
(* a job that does not exist has none.                                      *)
RowLog(row, log) ==
    /\ row.state = "ABSENT" => log = {}
    /\ IsFiniteSet(log)
    /\ \A n : <<"DEAD_LETTERED", n>> \in log =>
         n \in Nat /\ n <= row.attempt /\ (row.state = "LEASED" => n # row.attempt)

(* Each revival by a message is named by a revision the packet has reached. *)
Revivals(log, rev) ==
    \A n : <<"REVIVED_BY_NEW_REVISION", n>> \in log => n \in Nat /\ n <= rev

Log ==
    /\ audit = [j \in JobIds |-> audit[j]]
    /\ \A j \in JobIds : RowLog(jobs[j], audit[j]) /\ Revivals(audit[j], revision[j[1]])

(* A stop or a release of the job leaves one more event.                    *)
Audited(j) ==
    (jobs[j].state = "DEAD_LETTERED") # (jobs'[j].state = "DEAD_LETTERED")
      => Cardinality(audit'[j]) = Cardinality(audit[j]) + 1

Logged == Log' /\ \A j \in JobIds : Audited(j)

(* A row that keeps its attempt, or is new, and does not become leased.     *)
LEMMA RowLogKept ==
  ASSUME NEW row \in Row, NEW r \in Row, NEW log, RowLog(row, log),
         r.state # "ABSENT", row.state = "ABSENT" \/ r.attempt = row.attempt,
         r.state = "LEASED" => row.state = "LEASED"
  PROVE  RowLog(r, log)
  BY DEF RowLog, Row

(* A claimed row starts an attempt no event names.                          *)
LEMMA RowLogClaim ==
  ASSUME NEW row \in Row, NEW log, RowLog(row, log), row.state # "ABSENT"
  PROVE  RowLog(ClaimRow(row), log)
<1>1. /\ ClaimRow(row).attempt = row.attempt + 1 /\ ClaimRow(row).state = "LEASED"
      /\ row.attempt \in Nat
  BY ClaimRowFields DEF Row
<1> HIDE DEF RowLog
<1>2. \A n : <<"DEAD_LETTERED", n>> \in log => n \in Nat /\ n <= row.attempt
  BY DEF RowLog
<1>3. \A n \in Nat : n <= row.attempt => n <= row.attempt + 1 /\ n # row.attempt + 1
  BY <1>1
<1>4. IsFiniteSet(log)
  BY DEF RowLog
<1> QED BY <1>1, <1>2, <1>3, <1>4 DEF RowLog

(* The machinery stops a leased row: the event is new.                      *)
LEMMA RowLogStop ==
  ASSUME NEW row \in Row, NEW r \in Row, NEW log, RowLog(row, log), row.state = "LEASED",
         r.state = "DEAD_LETTERED", r.attempt = row.attempt
  PROVE  LET new == log \union {<<"DEAD_LETTERED", row.attempt>>} IN
         RowLog(r, new) /\ Cardinality(new) = Cardinality(log) + 1
<1> DEFINE e == <<"DEAD_LETTERED", row.attempt>>
           new == log \union {e}
<1>1. e \notin log /\ IsFiniteSet(log) /\ row.attempt \in Nat
  BY DEF RowLog, Row
<1>2. IsFiniteSet(new) /\ Cardinality(new) = Cardinality(log) + 1
  BY <1>1, FS_AddElement
<1>3. ASSUME NEW n, <<"DEAD_LETTERED", n>> \in new PROVE n \in Nat /\ n <= row.attempt
  <2>1. CASE <<"DEAD_LETTERED", n>> \in log
    BY <2>1 DEF RowLog
  <2>2. CASE <<"DEAD_LETTERED", n>> = e
    BY <2>2, <1>1
  <2> QED BY <1>3, <2>1, <2>2
<1> HIDE DEF new
<1>4. RowLog(r, new)
  BY <1>2, <1>3 DEF RowLog
<1> QED BY <1>2, <1>4 DEF new

(* Any other new event, of an operator or a message.                        *)
LEMMA RowLogEvent ==
  ASSUME NEW row \in Row, NEW log, RowLog(row, log), row.state # "ABSENT",
         NEW type, NEW key, type # "DEAD_LETTERED", <<type, key>> \notin log
  PROVE  LET new == log \union {<<type, key>>} IN
         RowLog(row, new) /\ Cardinality(new) = Cardinality(log) + 1
<1> DEFINE e == <<type, key>>
           new == log \union {e}
<1>1. IsFiniteSet(new) /\ Cardinality(new) = Cardinality(log) + 1
  BY FS_AddElement DEF RowLog
<1>2. ASSUME NEW n, <<"DEAD_LETTERED", n>> \in new PROVE <<"DEAD_LETTERED", n>> \in log
  BY <1>2
<1> HIDE DEF new
<1>3. RowLog(row, new)
  BY <1>1, <1>2 DEF RowLog
<1> QED BY <1>1, <1>3 DEF new

(* A step that leaves rows, revisions and log alone.                        *)
LEMMA LoggedSame ==
  ASSUME Log, UNCHANGED <<jobs, revision, audit>>
  PROVE  Logged
  BY DEF Log, Logged, Audited, RowLog, Revivals

(* A step that rewrites one row and adds to its log, or not.                *)
LEMMA LoggedRewrite ==
  ASSUME Log, Shape, NEW j \in JobIds, NEW r, NEW new,
         jobs' = [jobs EXCEPT ![j] = r], audit' = [audit EXCEPT ![j] = new],
         RowLog(r, new),
         \A p \in Packets : revision'[p] \in Nat /\ revision[p] <= revision'[p],
         Revivals(new, revision'[j[1]]),
         (jobs[j].state = "DEAD_LETTERED") # (r.state = "DEAD_LETTERED")
           => Cardinality(new) = Cardinality(audit[j]) + 1
  PROVE  Logged
<1>1. audit' = [i \in JobIds |-> audit'[i]]
  BY DEF Log
<1>2. /\ jobs'[j] = r /\ audit'[j] = new
      /\ \A i \in JobIds : i # j => jobs'[i] = jobs[i] /\ audit'[i] = audit[i]
  BY DEF Log, Shape, Table
<1>3. ASSUME NEW i \in JobIds PROVE RowLog(jobs'[i], audit'[i])
  BY <1>2 DEF Log
<1>4. ASSUME NEW i \in JobIds PROVE Revivals(audit'[i], revision'[i[1]])
  <2>1. CASE i = j
    BY <1>2, <2>1
  <2>2. CASE i # j
    <3>1. audit'[i] = audit[i] /\ Revivals(audit[i], revision[i[1]]) /\ i[1] \in Packets
      BY <1>2, <2>2, JobIdsShape DEF Log
    <3>2. revision[i[1]] \in Nat /\ revision'[i[1]] \in Nat /\ revision[i[1]] <= revision'[i[1]]
      BY <3>1 DEF Shape, Table
    <3> QED BY <3>1, <3>2 DEF Revivals
  <2> QED BY <2>1, <2>2
<1>5. ASSUME NEW i \in JobIds PROVE Audited(i)
  BY <1>2 DEF Audited
<1>6. \A i \in JobIds : RowLog(jobs[i], audit[i])'
  BY <1>3 DEF RowLog
<1> QED BY <1>1, <1>4, <1>5, <1>6 DEF Logged, Log

(* A step that rewrites one row and writes no event.                        *)
LEMMA LoggedSilent ==
  ASSUME Log, Shape, NEW j \in JobIds, NEW r \in Row,
         jobs' = [jobs EXCEPT ![j] = r], audit' = audit, revision' = revision,
         jobs[j].state = "ABSENT" \/ r.attempt = jobs[j].attempt,
         r.state # "ABSENT", r.state = "LEASED" => jobs[j].state = "LEASED",
         (jobs[j].state = "DEAD_LETTERED") <=> (r.state = "DEAD_LETTERED")
  PROVE  Logged
<1>1. RowLog(jobs[j], audit[j]) /\ Revivals(audit[j], revision[j[1]]) /\ jobs[j] \in Row
  BY DEF Log, Shape, Table
<1>2. RowLog(r, audit[j])
  BY <1>1, RowLogKept
<1>3. audit' = [audit EXCEPT ![j] = audit[j]] /\ Revivals(audit'[j], revision'[j[1]])
  BY <1>1 DEF Log, Revivals
<1>4. \A p \in Packets : revision'[p] \in Nat /\ revision[p] <= revision'[p]
  BY DEF Shape, Table
<1> QED BY <1>2, <1>3, <1>4, LoggedRewrite

(* A new message: the log of a stopped job names the revision that revives it. *)
LEMMA LoggedEnqueue ==
  ASSUME Log, Shape, NEW p \in Packets, Enqueue(p)
  PROVE  Logged
<1> DEFINE j == <<p, 0>>
           rev == revision[p] + 1
           row == jobs[j]
           log == audit[j]
           r == EnqueueRow(row, rev)
           parked == row.state = "DEAD_LETTERED"
           new == IF parked THEN log \union {<<"REVIVED_BY_NEW_REVISION", rev>>} ELSE log
<1>1. j \in JobIds /\ rev \in Nat /\ rev # revision[p] /\ j[1] = p /\ revision[p] \in Nat
  BY JobIdsShape DEF Shape, Table
<1>2. row.state = "ABSENT" \/ row.rev # rev
  BY <1>1 DEF Shape, Table, RevisionOfPacket
<1>3. GoodRow(row) /\ RowLog(row, log) /\ Revivals(log, revision[p])
  BY <1>1 DEF Shape, Table, Log
<1>4. /\ jobs' = [jobs EXCEPT ![j] = r] /\ audit' = [audit EXCEPT ![j] = new]
      /\ revision' = [revision EXCEPT ![p] = rev]
  BY DEF Enqueue
<1>5. \A q \in Packets : revision'[q] \in Nat /\ revision[q] <= revision'[q]
  BY <1>4 DEF Shape, Table
<1>6. revision'[p] = rev
  BY <1>4 DEF Shape, Table
<1>7. Revivals(new, revision'[p])
  <2>1. SUFFICES ASSUME NEW n, <<"REVIVED_BY_NEW_REVISION", n>> \in new
                 PROVE  n \in Nat /\ n <= rev
    BY <1>6, Zenon DEF Revivals
  <2>2. CASE <<"REVIVED_BY_NEW_REVISION", n>> \in log
    BY <1>1, <1>3, <2>2 DEF Revivals
  <2>3. CASE n = rev
    BY <1>1, <2>3
  <2> QED BY <2>1, <2>2, <2>3
<1> HIDE DEF rev, row, log, r, new
<1>8. Enqueued(EnqueueRow(row, rev), row, rev)
  BY <1>1, <1>2, <1>3, EnqueueRowFields
<1>9. r \in Row /\ row \in Row /\ r.state \in {"LEASED", "QUEUED"}
      /\ (r.state = "LEASED" => row.state = "LEASED")
      /\ (row.state = "ABSENT" \/ r.attempt = row.attempt)
  BY <1>3, <1>8 DEF Enqueued, GoodRow, r
<1>10. CASE parked
  <2>1. <<"REVIVED_BY_NEW_REVISION", rev>> \notin log
    BY <1>1, <1>3 DEF Revivals, rev
  <2>2. RowLog(row, new) /\ Cardinality(new) = Cardinality(log) + 1
    BY <1>3, <1>9, <1>10, <2>1, RowLogEvent DEF new
  <2>3. RowLog(r, new)
    BY <1>9, <2>2, RowLogKept
  <2> QED BY <1>1, <1>4, <1>5, <1>7, <2>2, <2>3, LoggedRewrite DEF log
<1>11. CASE ~parked
  <2>1. new = log /\ r.state # "DEAD_LETTERED"
    BY <1>9, <1>11 DEF new
  <2>2. RowLog(r, new)
    BY <1>3, <1>9, <2>1, RowLogKept
  <2> QED BY <1>1, <1>4, <1>5, <1>7, <1>11, <2>1, <2>2, LoggedRewrite DEF row
<1> QED BY <1>10, <1>11

(* A new case context: its row was absent and its log empty.                *)
LEMMA LoggedContext ==
  ASSUME Log, Shape, NEW p \in Packets, NEW evidence, NEW cloned,
         EnqueueContext(p, evidence, cloned)
  PROVE  Logged
<1> DEFINE k == context[p] + 1
           j == <<p, k>>
           r == NewRow(k)
<1>1. j \in JobIds /\ k \in Nat /\ jobs[j].state = "ABSENT"
  BY NextContextAbsent, DispatchAssumption DEF EnqueueContext, Shape, Table
<1>2. r \in Row /\ r.state = "QUEUED"
  BY <1>1, NewRowFields DEF GoodRow
<1>3. jobs' = [jobs EXCEPT ![j] = r] /\ audit' = audit /\ revision' = revision
  BY DEF EnqueueContext, deadLetterVars
<1> HIDE DEF j, r
<1> QED BY <1>1, <1>2, <1>3, LoggedSilent

(* What the sweep of a claim does to one row and its log.                   *)
LEMMA SweptLog ==
  ASSUME Log, Shape, RecordSweep, revision' = revision, NEW i \in JobIds
  PROVE  /\ RowLog(Sweep[i], audit'[i]) /\ Revivals(audit'[i], revision'[i[1]])
         /\ (jobs[i].state = "DEAD_LETTERED") # (Sweep[i].state = "DEAD_LETTERED")
              => Cardinality(audit'[i]) = Cardinality(audit[i]) + 1
<1> DEFINE row == jobs[i]
           log == audit[i]
<1>1. RowLog(row, log) /\ Revivals(log, revision[i[1]]) /\ row \in Row
  BY DEF Log, Shape, Table
<1>2. CASE Exhausted(row)
  <2> DEFINE r == DeadLetterRow(row, "RETRY_EXHAUSTED")
             new == log \union {<<"DEAD_LETTERED", row.attempt>>}
  <2>1. Sweep[i] = r /\ audit'[i] = new
    BY <1>2 DEF Sweep, RecordSweep
  <2>2. r \in Row /\ r.state = "DEAD_LETTERED" /\ r.attempt = row.attempt
    BY <1>1, DeadLetterRowFields DEF GoodRow, Classes
  <2>3. row.state = "LEASED"
    BY <1>2 DEF Exhausted, Expired
  <2>4. RowLog(r, new) /\ Cardinality(new) = Cardinality(log) + 1
    <3> HIDE DEF r, row, log
    <3> QED BY <1>1, <2>2, <2>3, RowLogStop
  <2>5. Revivals(audit'[i], revision'[i[1]])
    BY <1>1, <2>1 DEF Revivals
  <2> HIDE DEF r, new
  <2> QED BY <2>1, <2>4, <2>5
<1>3. CASE ~Exhausted(row)
  <2>1. Sweep[i] = row /\ audit'[i] = log
    BY <1>3 DEF Sweep, RecordSweep
  <2> QED BY <1>1, <2>1 DEF Revivals
<1> QED BY <1>2, <1>3

(* A claim: what is leased is not what the sweep stops.                     *)
LEMMA LoggedClaim ==
  ASSUME Log, Shape, NEW w \in Workers, NEW j \in JobIds, Claim(w, j)
  PROVE  Logged
<1> DEFINE r == ClaimRow(Sweep[j])
<1>1. /\ jobs' = [Sweep EXCEPT ![j] = r] /\ RecordSweep /\ revision' = revision
      /\ Claimable(Sweep[j])
      /\ Sweep \in [JobIds -> Row]
  BY SweepFields DEF Claim, packetVars, Shape
<1>2. /\ Sweep[j].state \in Waiting \union {"LEASED"} /\ Sweep[j].state # "ABSENT"
      /\ Sweep[j].state # "DEAD_LETTERED"
  BY <1>1 DEF Claimable, Expired, Waiting
<1>3. r.state = "LEASED"
  BY <1>1, ClaimRowFields
<1>4. audit' = [i \in JobIds |-> audit'[i]]
  BY <1>1 DEF RecordSweep
<1>5. RowLog(r, audit'[j])
  BY <1>1, <1>2, SweptLog, RowLogClaim
<1> HIDE DEF r
<1>6. ASSUME NEW i \in JobIds
      PROVE  RowLog(jobs'[i], audit'[i]) /\ Revivals(audit'[i], revision'[i[1]]) /\ Audited(i)
  <2>1. /\ RowLog(Sweep[i], audit'[i]) /\ Revivals(audit'[i], revision'[i[1]])
        /\ (jobs[i].state = "DEAD_LETTERED") # (Sweep[i].state = "DEAD_LETTERED")
              => Cardinality(audit'[i]) = Cardinality(audit[i]) + 1
    BY <1>1, SweptLog
  <2>2. CASE i = j
    BY <1>1, <1>2, <1>3, <1>5, <2>1, <2>2 DEF Audited
  <2>3. CASE i # j
    <3>1. jobs'[i] = Sweep[i]
      BY <1>1, <2>3
    <3> QED BY <2>1, <3>1 DEF Audited
  <2> QED BY <2>2, <2>3
<1>7. \A i \in JobIds : RowLog(jobs[i], audit[i])'
  BY <1>6 DEF RowLog
<1> QED BY <1>4, <1>6, <1>7 DEF Logged, Log

(* A claim that only sweeps.                                                *)
LEMMA LoggedClaimNothing ==
  ASSUME Log, Shape, NEW w \in Workers, ClaimNothing(w)
  PROVE  Logged
<1>1. jobs' = Sweep /\ RecordSweep /\ revision' = revision
  BY DEF ClaimNothing, packetVars
<1>2. audit' = [i \in JobIds |-> audit'[i]]
  BY <1>1 DEF RecordSweep
<1>3. ASSUME NEW i \in JobIds
      PROVE  RowLog(jobs'[i], audit'[i]) /\ Revivals(audit'[i], revision'[i[1]]) /\ Audited(i)
  BY <1>1, SweptLog DEF Audited
<1>4. \A i \in JobIds : RowLog(jobs[i], audit[i])'
  BY <1>3 DEF RowLog
<1> QED BY <1>2, <1>3, <1>4 DEF Logged, Log

(* A reported failure: the stop of a leased row, or a release without event. *)
LEMMA LoggedReportFailure ==
  ASSUME Log, Shape, NEW w \in Workers, NEW e \in Errors, ReportFailure(w, e)
  PROVE  Logged
<1>1. revision' = revision
  BY DEF ReportFailure, packetVars
<1>2. CASE LeaseHeld(w) /\ jobs' = [jobs EXCEPT ![workers[w].job] = RetryRow(jobs[workers[w].job], e)]
           /\ RecordFailure(workers[w].job, e)
  <2> DEFINE j == workers[w].job
             row == jobs[j]
             log == audit[j]
             r == RetryRow(row, e)
             verdict == IF Unbudgeted(row, e) THEN "NONE" ELSE Verdict(row, e)
             new == IF verdict # "NONE" THEN log \union {<<"DEAD_LETTERED", row.attempt>>} ELSE log
  <2>1. j \in JobIds /\ row.state = "LEASED"
    BY <1>2 DEF Shape, WorkersHoldJobs, LeaseHeld
  <2>2. jobs' = [jobs EXCEPT ![j] = r] /\ audit' = [audit EXCEPT ![j] = new]
    BY <1>2 DEF RecordFailure
  <2>3. GoodRow(row) /\ Solvent(row) /\ row \in Row /\ RowLog(row, log) /\ Revivals(log, revision[j[1]])
    BY <2>1 DEF Shape, Table, Log
  <2>4. /\ GoodRow(r) /\ r.state \in Waiting \union {"DEAD_LETTERED"} /\ r.attempt = row.attempt
    BY <2>1, <2>3, RetryRowGood
  <2>5. r \in Row /\ r.state # "ABSENT" /\ r.state # "LEASED"
    BY <2>4 DEF GoodRow, Waiting
  <2>6. verdict # "NONE" => r.state = "DEAD_LETTERED"
    <3>1. verdict # "NONE" => r = DeadLetterRow(row, Verdict(row, e)) /\ Verdict(row, e) \in Classes
      BY DEF RetryRow, Verdict, Classes
    <3> QED BY <2>3, <3>1, DeadLetterRowFields
  <2>7. verdict = "NONE" => r.state # "DEAD_LETTERED"
    <3>1. CASE Unbudgeted(row, e)
      <4> DEFINE st == IF Knowledge(e) THEN "BLOCKED_KNOWLEDGE_AUTHORITY" ELSE "RETRY"
                 u == Unleased(row, st)
      <4>1. st \in States /\ st # "DEAD_LETTERED"
        BY DEF States, Waiting
      <4>2. r = [u EXCEPT !.blocks = IF Knowledge(e) THEN u.blocks + 1 ELSE u.blocks]
        BY <3>1 DEF RetryRow
      <4> HIDE DEF st, row, r
      <4>3. u \in Row /\ u.state = st
        BY <2>3, <4>1, UnleasedFields
      <4> HIDE DEF u
      <4>4. r.state = st
        BY <4>2, <4>3 DEF Row
      <4> QED BY <4>1, <4>4
    <3>2. CASE ~Unbudgeted(row, e) /\ Verdict(row, e) = "NONE"
      <4> DEFINE u == Unleased(row, "RETRY")
      <4>1. r = [u EXCEPT !.used = u.used + 1]
        BY <3>2 DEF RetryRow
      <4> HIDE DEF row, r
      <4>2. u \in Row /\ u.state = "RETRY"
        BY <2>3, UnleasedFields DEF States, Waiting
      <4> HIDE DEF u
      <4> QED BY <4>1, <4>2 DEF Row
    <3> QED BY <3>1, <3>2
  <2>8. RowLog(r, new) /\ (verdict # "NONE" => Cardinality(new) = Cardinality(log) + 1)
    <3> HIDE DEF row, log, r, verdict
    <3>1. CASE verdict # "NONE"
      BY <2>1, <2>3, <2>4, <2>5, <2>6, <3>1, RowLogStop
    <3>2. CASE verdict = "NONE"
      BY <2>1, <2>3, <2>4, <2>5, <3>2, RowLogKept
    <3> QED BY <3>1, <3>2
  <2>9. Revivals(new, revision'[j[1]])
    <3>1. \A n : <<"REVIVED_BY_NEW_REVISION", n>> \in new => <<"REVIVED_BY_NEW_REVISION", n>> \in log
      OBVIOUS
    <3> HIDE DEF new, log, j
    <3> QED BY <1>1, <2>3, <3>1, Zenon DEF Revivals
  <2>10. \A q \in Packets : revision'[q] \in Nat /\ revision[q] <= revision'[q]
    BY <1>1 DEF Shape, Table
  <2>11. (row.state = "DEAD_LETTERED") # (r.state = "DEAD_LETTERED")
             => Cardinality(new) = Cardinality(log) + 1
    <3> HIDE DEF row, log, r, verdict, new
    <3> QED BY <2>1, <2>7, <2>8
  <2> HIDE DEF j, r, new, verdict
  <2> QED BY <2>1, <2>2, <2>8, <2>9, <2>10, <2>11, LoggedRewrite
<1>3. CASE UNCHANGED <<jobs, deadLetterVars>>
  BY <1>1, <1>3, LoggedSame DEF deadLetterVars
<1> QED BY <1>2, <1>3 DEF ReportFailure

(* An operator's command carries a key that has no event yet.               *)
LEMMA LoggedOperator ==
  ASSUME Log, Shape, NEW j \in JobIds, NEW key,
         OperatorDeadLetter(j, key) \/ OperatorRequeue(j, key)
  PROVE  Logged
<1> DEFINE row == jobs[j]
           log == audit[j]
<1>1. row \in Row /\ GoodRow(row) /\ RowLog(row, log) /\ Revivals(log, revision[j[1]])
  BY DEF Shape, Table, Log
<1>2. revision' = revision /\ \A q \in Packets : revision'[q] \in Nat /\ revision[q] <= revision'[q]
  BY DEF OperatorDeadLetter, OperatorRequeue, packetVars, Shape, Table
<1>3. ASSUME NEW type \in {"OPERATOR_DEAD_LETTERED", "OPERATOR_REQUEUED"}, KeyUnused(type, key),
             NEW r \in Row, r.attempt = row.attempt, r.state \in {"QUEUED", "DEAD_LETTERED"},
             row.state # "ABSENT",
             jobs' = [jobs EXCEPT ![j] = r],
             audit' = [audit EXCEPT ![j] = log \union {<<type, key>>}]
      PROVE  Logged
  <2> DEFINE new == log \union {<<type, key>>}
  <2>1. <<type, key>> \notin log
    BY <1>3 DEF KeyUnused
  <2>2. RowLog(row, new) /\ Cardinality(new) = Cardinality(log) + 1
    <3> HIDE DEF row, log
    <3> QED BY <1>1, <1>3, <2>1, RowLogEvent
  <2>3. \A n : <<"REVIVED_BY_NEW_REVISION", n>> \in new => <<"REVIVED_BY_NEW_REVISION", n>> \in log
    BY <1>3
  <2> HIDE DEF new
  <2>4. RowLog(r, new)
    BY <1>1, <1>3, <2>2, RowLogKept
  <2>5. Revivals(new, revision'[j[1]])
    BY <1>1, <1>2, <2>3, Zenon DEF Revivals
  <2> QED BY <1>2, <1>3, <2>2, <2>4, <2>5, LoggedRewrite DEF new
<1>4. CASE OperatorDeadLetter(j, key)
  <2> DEFINE u == Unleased(row, "DEAD_LETTERED")
             r == [u EXCEPT !.class = "OPERATOR_QUARANTINE"]
  <2>1. /\ KeyUnused("OPERATOR_DEAD_LETTERED", key) /\ jobs' = [jobs EXCEPT ![j] = r]
        /\ audit' = [audit EXCEPT ![j] = log \union {<<"OPERATOR_DEAD_LETTERED", key>>}]
        /\ row.state # "ABSENT"
    BY <1>4 DEF OperatorDeadLetter, Claimable, Expired, Waiting
  <2> HIDE DEF row, log
  <2>2. u \in Row /\ u.state = "DEAD_LETTERED" /\ u.attempt = row.attempt
    BY <1>1, UnleasedFields DEF States, Terminal
  <2> HIDE DEF u
  <2>3. r \in Row /\ r.state = "DEAD_LETTERED" /\ r.attempt = row.attempt
    BY <2>2 DEF Row, Classes
  <2> HIDE DEF r
  <2> QED BY <1>3, <2>1, <2>3
<1>5. CASE OperatorRequeue(j, key)
  <2> DEFINE r == Revive(row, [row EXCEPT !.state = "QUEUED"])
  <2>1. /\ KeyUnused("OPERATOR_REQUEUED", key) /\ jobs' = [jobs EXCEPT ![j] = r]
        /\ audit' = [audit EXCEPT ![j] = log \union {<<"OPERATOR_REQUEUED", key>>}]
        /\ row.state = "DEAD_LETTERED"
    BY <1>5 DEF OperatorRequeue
  <2> HIDE DEF row, log
  <2>2. r \in Row /\ r.state = "QUEUED" /\ r.attempt = row.attempt
    BY <1>1, <2>1, RequeueRowFields DEF GoodRow
  <2> HIDE DEF r
  <2> QED BY <1>3, <2>1, <2>2
<1> QED BY <1>4, <1>5

(* The log follows the rows over every step.                                *)
LEMMA LoggedStep ==
  ASSUME Log, Shape, [Next]_vars
  PROVE  Logged
<1>0. ASSUME UNCHANGED vars PROVE Logged
  BY <1>0, LoggedSame DEF vars, packetVars, deadLetterVars
<1>1. ASSUME NEW p \in Packets, Enqueue(p) PROVE Logged
  BY <1>1, LoggedEnqueue
<1>2. ASSUME NEW p \in Packets, AdmitAnswer(p) PROVE Logged
  BY <1>2, LoggedContext DEF AdmitAnswer
<1>3. ASSUME NEW p \in Packets, ConfirmIdentity(p) PROVE Logged
  BY <1>3, LoggedContext DEF ConfirmIdentity
<1>4. ASSUME NEW p \in Packets, CloseCase(p) PROVE Logged
  BY <1>4, LoggedSame DEF CloseCase, deadLetterVars
<1>5. ASSUME NEW p \in Packets, Failover(p) PROVE Logged
  BY <1>5, LoggedSame DEF Failover, deadLetterVars
<1>6. ASSUME NEW w \in Workers, LoadEvidence(w) PROVE Logged
  BY <1>6, LoggedSame DEF LoadEvidence, packetVars, deadLetterVars
<1>7. ASSUME NEW w \in Workers, TakeClone(w) PROVE Logged
  BY <1>7, LoggedSame DEF TakeClone, packetVars, deadLetterVars
<1>8. ASSUME NEW w \in Workers, Interpret(w) PROVE Logged
  BY <1>8, LoggedSame DEF Interpret, packetVars, deadLetterVars
<1>9. ASSUME NEW w \in Workers, BeginPersist(w) PROVE Logged
  BY <1>9, LoggedSame DEF BeginPersist, packetVars, deadLetterVars
<1>10. ASSUME NEW w \in Workers, Persist(w) PROVE Logged
  BY <1>10, LoggedSame DEF Persist, packetVars, deadLetterVars
<1>11. ASSUME NEW w \in Workers, BeginMaterialise(w) PROVE Logged
  BY <1>11, LoggedSame DEF BeginMaterialise, packetVars, deadLetterVars
<1>12. ASSUME NEW w \in Workers, Materialise(w) PROVE Logged
  BY <1>12, LoggedSame DEF Materialise, deadLetterVars
<1>13. ASSUME NEW w \in Workers, Govern(w) PROVE Logged
  BY <1>13, LoggedSame DEF Govern, packetVars, deadLetterVars
<1>14. ASSUME NEW w \in Workers, Complete(w) PROVE Logged
  <2> DEFINE j == workers[w].job
             row == jobs[j]
             r == Unleased(row, "COMPLETED")
  <2>1. j \in JobIds /\ row.state = "LEASED" /\ row \in Row
    BY <1>14 DEF Complete, LeaseValid, LeaseHeld, Shape, WorkersHoldJobs, Table
  <2>2. jobs' = [jobs EXCEPT ![j] = r] /\ audit' = audit /\ revision' = revision
    BY <1>14 DEF Complete, packetVars, deadLetterVars
  <2>3. r \in Row /\ r.state = "COMPLETED" /\ r.attempt = row.attempt
    BY <2>1, UnleasedFields DEF States, Terminal
  <2> HIDE DEF j, r
  <2> QED BY <2>1, <2>2, <2>3, LoggedSilent
<1>15. ASSUME NEW w \in Workers, Crash(w) PROVE Logged
  BY <1>15, LoggedSame DEF Crash, packetVars, deadLetterVars
<1>16. ASSUME NEW w \in Workers, NEW e \in Errors, ReportFailure(w, e) PROVE Logged
  BY <1>16, LoggedReportFailure
<1>17. ASSUME NEW w \in Workers, ClaimNothing(w) PROVE Logged
  BY <1>17, LoggedClaimNothing
<1>18. ASSUME NEW w \in Workers, NEW j \in JobIds, Claim(w, j) PROVE Logged
  BY <1>18, LoggedClaim
<1>19. ASSUME NEW j \in JobIds, LeaseExpires(j) PROVE Logged
  <2> DEFINE row == jobs[j]
             r == [row EXCEPT !.live = FALSE]
  <2>1. /\ jobs' = [jobs EXCEPT ![j] = r] /\ audit' = audit /\ revision' = revision
        /\ row.state = "LEASED" /\ row \in Row
    BY <1>19 DEF LeaseExpires, packetVars, deadLetterVars, Shape, Table
  <2> HIDE DEF row
  <2>2. r \in Row /\ r.state = "LEASED" /\ r.attempt = row.attempt
    BY <2>1 DEF Row
  <2> HIDE DEF r
  <2> QED BY <2>1, <2>2, LoggedSilent DEF row
<1>20. ASSUME NEW j \in JobIds, NEW key, OperatorDeadLetter(j, key) PROVE Logged
  BY <1>20, LoggedOperator
<1>21. ASSUME NEW j \in JobIds, NEW key, OperatorRequeue(j, key) PROVE Logged
  BY <1>21, LoggedOperator
<1>22. ASSUME NEW j \in JobIds, ResolveDeadLetter(j) PROVE Logged
  BY <1>22, LoggedSame DEF ResolveDeadLetter, packetVars
<1>23. ASSUME NEW j \in JobIds, CompleteReviewTask(j) PROVE Logged
  BY <1>23, LoggedSame DEF CompleteReviewTask, packetVars
<1> QED BY <1>0, <1>1, <1>2, <1>3, <1>4, <1>5, <1>6, <1>7, <1>8, <1>9, <1>10,
           <1>11, <1>12, <1>13, <1>14, <1>15, <1>16, <1>17, <1>18, <1>19,
           <1>20, <1>21, <1>22, <1>23 DEF Next, Produce, Work, Operate

(* The log names only what has happened, in every reachable state.          *)
LEMMA LogInvariant == Spec => []Log
<1>1. Init => Log
  <2> SUFFICES ASSUME Init PROVE Log
    OBVIOUS
  <2>1. audit = [j \in JobIds |-> {}]
    BY DEF Init
  <2>2. \A j \in JobIds : RowLog(jobs[j], {}) /\ Revivals({}, revision[j[1]])
    BY FS_EmptySet DEF RowLog, Revivals
  <2> QED BY <2>1, <2>2 DEF Log
<1>2. Log /\ Shape /\ [Next]_vars => Log'
  BY LoggedStep DEF Logged
<1> QED BY <1>1, <1>2, ShapeInvariant, PTL DEF Spec

(* Every stop and every release of a job - by a worker's report, the sweep   *)
(* of another worker's claim, an operator or a message - leaves exactly one  *)
(* new event in its log: no idempotency key ever collides with an older one. *)
THEOREM StopsAreAudited == Spec => TerminationsAudited
<1>1. Log /\ Shape /\ [Next]_vars =>
        [\A j \in JobIds :
           (jobs[j].state = "DEAD_LETTERED") # (jobs'[j].state = "DEAD_LETTERED")
             => Cardinality(audit'[j]) = Cardinality(audit[j]) + 1]_vars
  BY LoggedStep DEF Logged, Audited
<1> QED BY <1>1, LogInvariant, ShapeInvariant, PTL DEF Spec, TerminationsAudited

-----------------------------------------------------------------------------
(* The queue implements InterpretationDuty, step by step: whatever leases,   *)
(* retries, sweeps and operators do to the rows is a step of the duty or     *)
(* does not touch it.                                                        *)

(* The duty's variables, under the refinement mapping.                      *)
phases == [j \in JobIds |-> Phase(jobs[j].state)]
debts == [j \in JobIds |-> Owed(j)]
conclusions == [j \in JobIds |-> applied[j[1]]]

Nothing == [msgs |-> 0, answers |-> 0]

(* Nothing is owed for a job that does not exist.                           *)
Blank == \A j \in JobIds : phases[j] = "NONE" => debts[j] = Nothing

Dutiful == [Duty!Next]_<<phases, debts, conclusions>>

(* The phases tell waiting and leased apart from stopped and done.          *)
LEMMA PhaseCases ==
  /\ Phase("ABSENT") = "NONE" /\ Phase("COMPLETED") = "SETTLED"
  /\ Phase("DEAD_LETTERED") = "PARKED" /\ Phase("LEASED") = "OWED"
  /\ \A s \in Waiting : Phase(s) = "OWED"
  /\ \A s : Phase(s) \in {"NONE", "SETTLED", "PARKED", "OWED"}
  BY DEF Phase, Waiting

(* A step that leaves rows, causes and conclusions alone.                   *)
LEMMA DutyStutters ==
  ASSUME UNCHANGED <<jobs, cause, applied>>
  PROVE  Dutiful
<1>1. phases' = phases /\ debts' = debts /\ conclusions' = conclusions
  BY DEF phases, debts, conclusions, Owed
<1> QED BY <1>1 DEF Dutiful

(* The mapped state of a job whose row, or its cause, is all that changes.  *)
LEMMA MappedRewrite ==
  ASSUME Shape, NEW j \in JobIds, NEW r, jobs' = [jobs EXCEPT ![j] = r],
         UNCHANGED <<cause, applied>>
  PROVE  /\ phases' = [phases EXCEPT ![j] = Phase(r.state)]
         /\ r.rev = jobs[j].rev => debts' = debts
         /\ conclusions' = conclusions
<1>1. /\ jobs'[j] = r /\ \A i \in JobIds : i # j => jobs'[i] = jobs[i]
  BY DEF Shape, Table
<1>2. phases' = [i \in JobIds |-> Phase(jobs'[i].state)]
  BY DEF phases
<1>3. phases' = [phases EXCEPT ![j] = Phase(r.state)]
  <2>1. \A i \in JobIds : Phase(jobs'[i].state) = IF i = j THEN Phase(r.state) ELSE Phase(jobs[i].state)
    BY <1>1
  <2>2. [phases EXCEPT ![j] = Phase(r.state)]
          = [i \in JobIds |-> IF i = j THEN Phase(r.state) ELSE Phase(jobs[i].state)]
    BY Zenon DEF phases
  <2> QED BY <1>2, <2>1, <2>2
<1>4. ASSUME r.rev = jobs[j].rev, NEW i \in JobIds PROVE Owed(i)' = Owed(i)
  BY <1>1, <1>4 DEF Owed
<1>5. r.rev = jobs[j].rev => debts' = debts
  BY <1>4 DEF debts
<1>6. conclusions' = conclusions
  BY DEF conclusions
<1> QED BY <1>3, <1>5, <1>6

(* A row that moves between waiting and leased is owed before and after.    *)
LEMMA DutyWaits ==
  ASSUME Shape, NEW j \in JobIds, NEW r, jobs' = [jobs EXCEPT ![j] = r],
         UNCHANGED <<cause, applied>>, r.rev = jobs[j].rev,
         r.state \in Waiting \union {"LEASED"}, jobs[j].state \in Waiting \union {"LEASED"}
  PROVE  Dutiful
<1>1. /\ phases' = [phases EXCEPT ![j] = Phase(r.state)]
      /\ debts' = debts /\ conclusions' = conclusions
  BY MappedRewrite
<1>2. Phase(r.state) = "OWED" /\ phases[j] = "OWED"
  BY PhaseCases DEF phases
<1>3. phases' = phases
  BY <1>1, <1>2 DEF phases
<1> QED BY <1>1, <1>3 DEF Dutiful

(* A row that is stopped parks the duty.                                    *)
LEMMA DutyParks ==
  ASSUME Shape, NEW j \in JobIds, NEW r, jobs' = [jobs EXCEPT ![j] = r],
         UNCHANGED <<cause, applied>>, r.rev = jobs[j].rev,
         r.state = "DEAD_LETTERED", jobs[j].state \in Waiting \union {"LEASED"}
  PROVE  Dutiful
<1>1. /\ phases' = [phases EXCEPT ![j] = Phase(r.state)]
      /\ debts' = debts /\ conclusions' = conclusions
  BY MappedRewrite
<1>2. Phase(r.state) = "PARKED" /\ phases[j] = "OWED"
  BY PhaseCases DEF phases
<1>3. phases' = [i \in JobIds |-> IF i \in {j} THEN "PARKED" ELSE phases[i]]
  BY <1>1, <1>2 DEF phases
<1>4. Duty!Park({j})
  BY <1>1, <1>2, <1>3 DEF Duty!Park, phases, debts, conclusions
<1> QED BY <1>4 DEF Dutiful, Duty!Next

(* Any other step of the duty, on one job.                                  *)
LEMMA DutyMoves ==
  ASSUME NEW j \in JobIds, Duty!Owe(j) \/ Duty!Settle(j) \/ Duty!Resume(j)
  PROVE  Dutiful
  BY DEF Dutiful, Duty!Next

(* A claim parks what its sweep stops; the job it leases was owed already.  *)
LEMMA DutySweeps ==
  ASSUME Shape, NEW w \in Workers, ClaimNothing(w) \/ \E j \in JobIds : Claim(w, j)
  PROVE  Dutiful
<1> DEFINE S == {i \in JobIds : jobs'[i].state = "DEAD_LETTERED" /\ jobs[i].state = "LEASED"}
<1>1. ASSUME NEW i \in JobIds
      PROVE  /\ jobs'[i].rev = jobs[i].rev
             /\ \/ i \in S
                \/ Phase(jobs'[i].state) = Phase(jobs[i].state) /\ i \notin S
  <2>1. Swept(Sweep[i], jobs[i]) /\ Sweep \in [JobIds -> Row]
    BY SweepFields DEF Shape
  <2>2. CASE jobs'[i] = Sweep[i]
    BY <2>1, <2>2 DEF Swept
  <2>3. CASE Claim(w, i)
    <3> DEFINE r == ClaimRow(Sweep[i])
    <3>1. jobs' = [Sweep EXCEPT ![i] = r] /\ Sweep[i].state \in Waiting \union {"LEASED"}
      BY <2>3 DEF Claim, Claimable, Expired
    <3>2. r.state = "LEASED" /\ r.rev = Sweep[i].rev
      BY <2>1, ClaimRowFields
    <3> HIDE DEF r
    <3>3. jobs'[i] = r
      BY <2>1, <3>1
    <3>4. Sweep[i] = jobs[i]
      BY <2>1, <3>1 DEF Swept, Waiting
    <3> QED BY <3>1, <3>2, <3>3, <3>4, PhaseCases
  <2> QED BY <2>1, <2>2, <2>3 DEF ClaimNothing, Claim
<1>2. UNCHANGED <<cause, applied>>
  BY DEF ClaimNothing, Claim, packetVars
<1>3. debts' = debts /\ conclusions' = conclusions
  BY <1>1, <1>2 DEF debts, conclusions, Owed
<1>4. \A i \in S : phases[i] = "OWED"
  BY PhaseCases DEF phases
<1>5. phases' = [i \in JobIds |-> IF i \in S THEN "PARKED" ELSE phases[i]]
  <2>1. ASSUME NEW i \in JobIds
        PROVE  Phase(jobs'[i].state) = IF i \in S THEN "PARKED" ELSE Phase(jobs[i].state)
    BY <1>1, PhaseCases
  <2> QED BY <2>1 DEF phases
<1> HIDE DEF S
<1>6. Duty!Park(S)
  BY <1>3, <1>4, <1>5 DEF Duty!Park, phases, debts, conclusions
<1>7. S \in SUBSET JobIds
  BY DEF S
<1> QED BY <1>6, <1>7 DEF Dutiful, Duty!Next

(* More evidence for one job.                                               *)
LEMMA DutyOwes ==
  ASSUME Blank, NEW j \in JobIds, NEW d \in Evidence,
         phases' = [phases EXCEPT ![j] = "OWED"], debts' = [debts EXCEPT ![j] = d],
         conclusions' = conclusions,
         phases[j] = "NONE" \/ Covers(d, debts[j])
  PROVE  Dutiful
<1>1. debts'[j] = d
  BY DEF debts
<1>2. Covers(d, debts[j])
  BY DEF Blank, Covers, Evidence, Nothing
<1>3. Duty!Owe(j)
  BY <1>1, <1>2 DEF Duty!Owe, phases, debts, conclusions
<1> QED BY <1>3 DEF Dutiful, Duty!Next

(* A message renews what is owed for its packet, and adds to it.            *)
LEMMA DutyEnqueue ==
  ASSUME Shape, Blank, NEW p \in Packets, Enqueue(p)
  PROVE  Dutiful
<1> DEFINE j == <<p, 0>>
           rev == revision[p] + 1
           row == jobs[j]
           r == EnqueueRow(row, rev)
           d == [msgs |-> rev, answers |-> 0]
<1>1. j \in JobIds /\ rev \in Nat /\ rev # revision[p] /\ j[2] = 0 /\ revision[p] \in Nat
  BY JobIdsShape DEF Shape, Table
<1>2. row.state = "ABSENT" \/ row.rev = revision[p]
  BY <1>1 DEF Shape, Table, RevisionOfPacket
<1>3. GoodRow(row)
  BY <1>1 DEF Shape, Table, Row
<1>4. jobs' = [jobs EXCEPT ![j] = r] /\ UNCHANGED <<cause, applied>>
  BY DEF Enqueue
<1>5. Enqueued(r, row, rev)
  <2> HIDE DEF row, rev
  <2> QED BY <1>1, <1>2, <1>3, EnqueueRowFields
<1>6. phases' = [phases EXCEPT ![j] = "OWED"] /\ conclusions' = conclusions
  <2> HIDE DEF r, j
  <2>1. Phase(r.state) = "OWED"
    BY <1>5, PhaseCases DEF Enqueued, Waiting
  <2>2. phases' = [phases EXCEPT ![j] = Phase(r.state)] /\ conclusions' = conclusions
    BY <1>1, <1>4, MappedRewrite
  <2> QED BY <2>1, <2>2
<1>7. debts' = [debts EXCEPT ![j] = d]
  <2>1. \A i \in JobIds : jobs'[i] = IF i = j THEN r ELSE jobs[i]
    BY <1>1, <1>4 DEF Shape, Table
  <2>2. \A i \in JobIds : Owed(i)' = IF i = j THEN d ELSE Owed(i)
    <3> HIDE DEF r, j
    <3> QED BY <1>1, <1>4, <1>5, <2>1 DEF Owed, Enqueued
  <2> HIDE DEF j, d
  <2> QED BY <2>2 DEF debts
<1>8. phases[j] = "NONE" \/ Covers(d, debts[j])
  BY <1>1, <1>2, PhaseCases DEF phases, debts, Owed, Covers
<1>9. d \in Evidence
  BY <1>1 DEF Evidence
<1> HIDE DEF j, d
<1> QED BY <1>1, <1>6, <1>7, <1>8, <1>9, DutyOwes

(* A new case context is owed what raised it.                               *)
LEMMA DutyContext ==
  ASSUME Shape, Shape', Blank, NEW p \in Packets, NEW evidence, NEW cloned,
         EnqueueContext(p, evidence, cloned)
  PROVE  Dutiful
<1> DEFINE k == context[p] + 1
           j == <<p, k>>
           r == NewRow(k)
<1>1. j \in JobIds /\ k \in Nat /\ k # 0 /\ jobs[j].state = "ABSENT"
  BY NextContextAbsent, DispatchAssumption DEF EnqueueContext, Shape, Table
<1>2. r.state = "QUEUED"
  BY <1>1, NewRowFields
<1>3. /\ jobs' = [jobs EXCEPT ![j] = r] /\ cause' = [cause EXCEPT ![j] = evidence]
      /\ applied' = applied
  BY DEF EnqueueContext
<1>4. j[2] = k
  OBVIOUS
<1>5. cause'[j] = evidence /\ evidence \in Evidence
  BY <1>1, <1>3 DEF Shape, Ledgers
<1> HIDE DEF j, r, k
<1>6. \A i \in JobIds : jobs'[i] = (IF i = j THEN r ELSE jobs[i])
                       /\ cause'[i] = (IF i = j THEN evidence ELSE cause[i])
  BY <1>1, <1>3 DEF Shape, Table, Ledgers
<1>7. phases' = [phases EXCEPT ![j] = "OWED"]
  <2>1. \A i \in JobIds : Phase(jobs'[i].state) = IF i = j THEN "OWED" ELSE Phase(jobs[i].state)
    BY <1>2, <1>6, PhaseCases DEF Waiting
  <2> QED BY <2>1 DEF phases
<1>8. debts' = [debts EXCEPT ![j] = evidence]
  <2>1. \A i \in JobIds : Owed(i)' = IF i = j THEN evidence ELSE Owed(i)
    BY <1>1, <1>4, <1>6 DEF Owed
  <2> QED BY <2>1 DEF debts
<1>9. conclusions' = conclusions /\ phases[j] = "NONE"
  BY <1>1, <1>3, PhaseCases DEF conclusions, phases
<1> QED BY <1>1, <1>5, <1>7, <1>8, <1>9, DutyOwes

(* A conclusion written into a case is considered for all jobs of its packet. *)
LEMMA DutyConsiders ==
  ASSUME Shape, Shape', Accumulates, UNCHANGED <<jobs, cause>>
  PROVE  Dutiful
<1>1. phases' = phases /\ debts' = debts
  BY DEF phases, debts, Owed
<1>2. \A j \in JobIds : conclusions[j] \subseteq conclusions'[j]
  BY JobIdsShape DEF conclusions, Accumulates
<1>3. conclusions' \in [JobIds -> SUBSET Evidence]
  BY JobIdsShape DEF conclusions, Shape, Ledgers
<1>4. Duty!Consider
  BY <1>1, <1>2, <1>3 DEF Duty!Consider, phases, debts, conclusions
<1> QED BY <1>4 DEF Dutiful, Duty!Next

(* A completion settles the duty: what the job owes has been considered.    *)
LEMMA DutySettles ==
  ASSUME Shape, Readers, NEW w \in Workers, Complete(w)
  PROVE  Dutiful
<1> DEFINE j == workers[w].job
           r == Unleased(jobs[j], "COMPLETED")
<1>1. j \in JobIds /\ jobs[j].state = "LEASED" /\ jobs[j] \in Row
  BY DEF Complete, LeaseValid, LeaseHeld, Shape, WorkersHoldJobs, Table
<1>2. jobs' = [jobs EXCEPT ![j] = r] /\ UNCHANGED <<cause, applied>>
  BY DEF Complete, packetVars
<1>3. r.state = "COMPLETED" /\ r.rev = jobs[j].rev
  BY <1>1, UnleasedFields DEF States, Terminal
<1>4. \E c \in applied[j[1]] : Covers(c, Owed(j))
  BY CompleteConsiders
<1> HIDE DEF j, r
<1>5. /\ phases' = [phases EXCEPT ![j] = "SETTLED"]
      /\ debts' = debts /\ conclusions' = conclusions
  <2>1. Phase(r.state) = "SETTLED"
    BY <1>3, PhaseCases
  <2>2. /\ phases' = [phases EXCEPT ![j] = Phase(r.state)]
        /\ debts' = debts /\ conclusions' = conclusions
    BY <1>1, <1>2, <1>3, MappedRewrite
  <2> QED BY <2>1, <2>2
<1>6. phases[j] = "OWED" /\ \E c \in conclusions[j] : Covers(c, debts[j])
  BY <1>1, <1>4, PhaseCases DEF phases, debts, conclusions
<1>7. Duty!Settle(j)
  BY <1>5, <1>6 DEF Duty!Settle, phases, debts, conclusions
<1> QED BY <1>1, <1>7 DEF Dutiful, Duty!Next

(* A reported failure leaves the job owed or parks it.                      *)
LEMMA DutyFails ==
  ASSUME Shape, NEW w \in Workers, NEW e \in Errors, ReportFailure(w, e)
  PROVE  Dutiful
<1>1. UNCHANGED <<cause, applied>>
  BY DEF ReportFailure, packetVars
<1>2. CASE LeaseHeld(w) /\ jobs' = [jobs EXCEPT ![workers[w].job] = RetryRow(jobs[workers[w].job], e)]
  <2> DEFINE j == workers[w].job
             row == jobs[j]
             r == RetryRow(row, e)
  <2>1. j \in JobIds /\ row.state = "LEASED" /\ jobs' = [jobs EXCEPT ![j] = r]
    BY <1>2 DEF Shape, WorkersHoldJobs, LeaseHeld
  <2>2. GoodRow(row) /\ Solvent(row)
    BY <2>1 DEF Shape, Table
  <2>3. r.state \in Waiting \union {"DEAD_LETTERED"} /\ r.rev = row.rev
    BY <2>1, <2>2, RetryRowGood
  <2> HIDE DEF j, r
  <2> QED BY <1>1, <2>1, <2>3, DutyWaits, DutyParks DEF row
<1>3. CASE jobs' = jobs
  BY <1>1, <1>3, DutyStutters
<1> QED BY <1>2, <1>3 DEF ReportFailure

(* Operators park what is owed and resume what is parked.                   *)
LEMMA DutyOperators ==
  ASSUME Shape, NEW j \in JobIds, NEW key,
         OperatorDeadLetter(j, key) \/ OperatorRequeue(j, key)
  PROVE  Dutiful
<1>1. UNCHANGED <<cause, applied>> /\ GoodRow(jobs[j]) /\ jobs[j] \in Row
  BY DEF OperatorDeadLetter, OperatorRequeue, packetVars, Shape, Table
<1>2. CASE OperatorDeadLetter(j, key)
  <2> DEFINE u == Unleased(jobs[j], "DEAD_LETTERED")
             r == [u EXCEPT !.class = "OPERATOR_QUARANTINE"]
  <2>1. jobs' = [jobs EXCEPT ![j] = r] /\ jobs[j].state \in Waiting \union {"LEASED"}
    BY <1>2 DEF OperatorDeadLetter, Claimable, Expired
  <2>2. u \in Row /\ u.state = "DEAD_LETTERED" /\ u.rev = jobs[j].rev
    BY <1>1, UnleasedFields DEF States, Terminal
  <2> HIDE DEF u
  <2>3. r.state = "DEAD_LETTERED" /\ r.rev = jobs[j].rev
    BY <2>2 DEF Row
  <2> HIDE DEF r
  <2> QED BY <1>1, <2>1, <2>3, DutyParks
<1>3. CASE OperatorRequeue(j, key)
  <2> DEFINE r == Revive(jobs[j], [jobs[j] EXCEPT !.state = "QUEUED"])
  <2>1. jobs' = [jobs EXCEPT ![j] = r] /\ jobs[j].state = "DEAD_LETTERED"
    BY <1>3 DEF OperatorRequeue
  <2>2. r.state = "QUEUED" /\ r.rev = jobs[j].rev
    BY <1>1, <2>1, RequeueRowFields
  <2> HIDE DEF r
  <2>3. /\ phases' = [phases EXCEPT ![j] = "OWED"]
        /\ debts' = debts /\ conclusions' = conclusions
    <3>1. Phase(r.state) = "OWED"
      BY <2>2, PhaseCases DEF Waiting
    <3>2. /\ phases' = [phases EXCEPT ![j] = Phase(r.state)]
          /\ debts' = debts /\ conclusions' = conclusions
      BY <1>1, <2>1, <2>2, MappedRewrite
    <3> QED BY <3>1, <3>2
  <2>4. phases[j] = "PARKED"
    BY <2>1, PhaseCases DEF phases
  <2>5. Duty!Resume(j)
    BY <2>3, <2>4 DEF Duty!Resume, phases, debts, conclusions
  <2> QED BY <2>5 DEF Dutiful, Duty!Next
<1> QED BY <1>2, <1>3

(* Every step of the queue is a step of the duty, or none.                  *)
LEMMA DutyStep ==
  ASSUME Shape, Shape', Readers, Blank, [Next]_vars
  PROVE  Dutiful
<1>0. ASSUME UNCHANGED vars PROVE Dutiful
  BY <1>0, DutyStutters DEF vars, packetVars
<1>1. ASSUME NEW p \in Packets, Enqueue(p) PROVE Dutiful
  BY <1>1, DutyEnqueue
<1>2. ASSUME NEW p \in Packets, AdmitAnswer(p) PROVE Dutiful
  BY <1>2, DutyContext DEF AdmitAnswer
<1>3. ASSUME NEW p \in Packets, ConfirmIdentity(p) PROVE Dutiful
  BY <1>3, DutyContext DEF ConfirmIdentity
<1>4. ASSUME NEW p \in Packets, CloseCase(p) \/ Failover(p) PROVE Dutiful
  BY <1>4, DutyStutters DEF CloseCase, Failover
<1>5. ASSUME NEW w \in Workers,
             LoadEvidence(w) \/ TakeClone(w) \/ Interpret(w) \/ BeginPersist(w) \/ Persist(w)
      PROVE  Dutiful
  BY <1>5, DutyStutters
     DEF LoadEvidence, TakeClone, Interpret, BeginPersist, Persist, packetVars
<1>6. ASSUME NEW w \in Workers, BeginMaterialise(w) \/ Govern(w) \/ Crash(w) PROVE Dutiful
  BY <1>6, DutyStutters DEF BeginMaterialise, Govern, Crash, packetVars
<1>7. ASSUME NEW w \in Workers, Materialise(w) PROVE Dutiful
  BY <1>7, AccumulatesStep, DutyConsiders DEF Materialise
<1>8. ASSUME NEW w \in Workers, Complete(w) PROVE Dutiful
  BY <1>8, DutySettles
<1>9. ASSUME NEW w \in Workers, NEW e \in Errors, ReportFailure(w, e) PROVE Dutiful
  BY <1>9, DutyFails
<1>10. ASSUME NEW w \in Workers, ClaimNothing(w) \/ \E j \in JobIds : Claim(w, j) PROVE Dutiful
  BY <1>10, DutySweeps
<1>11. ASSUME NEW j \in JobIds, LeaseExpires(j) PROVE Dutiful
  <2> DEFINE row == jobs[j]
             r == [row EXCEPT !.live = FALSE]
  <2>1. /\ jobs' = [jobs EXCEPT ![j] = r] /\ UNCHANGED <<cause, applied>>
        /\ row.state = "LEASED" /\ row \in Row
    BY <1>11 DEF LeaseExpires, packetVars, Shape, Table
  <2> HIDE DEF row
  <2>2. r.state = "LEASED" /\ r.rev = row.rev
    BY <2>1 DEF Row
  <2> HIDE DEF r
  <2> QED BY <2>1, <2>2, DutyWaits DEF row
<1>12. ASSUME NEW j \in JobIds, NEW key, OperatorDeadLetter(j, key) \/ OperatorRequeue(j, key)
       PROVE  Dutiful
  BY <1>12, DutyOperators
<1>13. ASSUME NEW j \in JobIds, ResolveDeadLetter(j) \/ CompleteReviewTask(j) PROVE Dutiful
  BY <1>13, DutyStutters DEF ResolveDeadLetter, CompleteReviewTask, packetVars
<1> QED BY <1>0, <1>1, <1>2, <1>3, <1>4, <1>5, <1>6, <1>7, <1>8, <1>9, <1>10,
           <1>11, <1>12, <1>13 DEF Next, Produce, Work, Operate

(* No step of the duty brings a job back to having none.                    *)
LEMMA BlankStep ==
  ASSUME Blank, Dutiful
  PROVE  Blank'
<1> SUFFICES ASSUME NEW j \in JobIds, phases'[j] = "NONE"
             PROVE  phases[j] = "NONE" /\ debts'[j] = debts[j]
  BY DEF Blank
<1>0. CASE UNCHANGED <<phases, debts, conclusions>>
  BY <1>0
<1>1. ASSUME NEW i \in JobIds, Duty!Owe(i) PROVE phases[j] = "NONE" /\ debts'[j] = debts[j]
  BY <1>1 DEF Duty!Owe, phases, debts
<1>2. ASSUME NEW i \in JobIds, Duty!Settle(i) \/ Duty!Resume(i)
      PROVE  phases[j] = "NONE" /\ debts'[j] = debts[j]
  BY <1>2 DEF Duty!Settle, Duty!Resume, phases, debts
<1>3. ASSUME NEW S \in SUBSET JobIds, Duty!Park(S)
      PROVE  phases[j] = "NONE" /\ debts'[j] = debts[j]
  BY <1>3 DEF Duty!Park, phases, debts
<1>4. ASSUME Duty!Consider PROVE phases[j] = "NONE" /\ debts'[j] = debts[j]
  BY <1>4 DEF Duty!Consider, phases, debts
<1> QED BY <1>0, <1>1, <1>2, <1>3, <1>4 DEF Dutiful, Duty!Next

(* The queue starts with nothing owed but the jobs that predate it.         *)
LEMMA DutyInit ==
  ASSUME Init
  PROVE  Duty!Init /\ Blank
<1>1. ASSUME NEW j \in JobIds
      PROVE  /\ phases[j] \in {"NONE", "OWED"} /\ debts[j] \in Evidence /\ conclusions[j] = {}
             /\ phases[j] = "NONE" => debts[j] = Nothing
  <2> DEFINE n == NewRow(1)
             r == [n EXCEPT !.bounded = FALSE]
  <2>1. jobs[j] \in {NoRow, r} /\ cause[j] = Nothing /\ applied[j[1]] = {}
    BY JobIdsShape DEF Init, Idle, Nothing
  <2>2. n \in Row /\ n.state = "QUEUED" /\ n.rev = 1
    BY NewRowFields DEF GoodRow
  <2> HIDE DEF n
  <2>3. r.state = "QUEUED" /\ r.rev = 1
    BY <2>2 DEF Row
  <2>4. NoRow.state = "ABSENT" /\ NoRow.rev = 0
    BY DEF NoRow
  <2> HIDE DEF r
  <2>5. phases[j] = Phase(jobs[j].state) /\ debts[j] = Owed(j) /\ conclusions[j] = {}
    BY <2>1 DEF phases, debts, conclusions
  <2>6. CASE jobs[j] = NoRow
    BY <2>1, <2>4, <2>5, <2>6, PhaseCases DEF Owed, Nothing, Evidence
  <2>7. CASE jobs[j] = r
    BY <2>1, <2>3, <2>5, <2>7, PhaseCases DEF Owed, Nothing, Evidence, Waiting
  <2> QED BY <2>1, <2>6, <2>7
<1>2. /\ phases \in [JobIds -> {"NONE", "OWED"}] /\ debts \in [JobIds -> Evidence]
      /\ conclusions = [j \in JobIds |-> {}]
  BY <1>1 DEF phases, debts, conclusions
<1> QED BY <1>1, <1>2 DEF Duty!Init, Blank, phases, debts, conclusions

(* Retries, lease expiry, takeovers, supersession, operators and the console *)
(* add nothing to what the queue owes for a message, and lose none of it: a  *)
(* job is settled only by a conclusion that covers its evidence, and is      *)
(* otherwise owed or parked.                                                 *)
THEOREM QueueImplementsDuty == Spec => ImplementsDuty
<1>1. Init => Duty!Init /\ Blank
  BY DutyInit
<1>2. Shape /\ Shape' /\ Readers /\ Blank /\ [Next]_vars => Dutiful /\ Blank'
  BY DutyStep, BlankStep
<1>3. Dutiful => [Duty!Next]_Duty!dutyVars
  BY DEF Dutiful, Duty!dutyVars, phases, debts, conclusions
<1> QED BY <1>1, <1>2, <1>3, ShapeInvariant, ReadersInvariant, PTL
        DEF Spec, ImplementsDuty, Duty!Spec
================================================================================

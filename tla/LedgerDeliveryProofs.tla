------------------------- MODULE LedgerDeliveryProofs -------------------------
(***************************************************************************)
(* Proofs about LedgerDelivery: for any companies and any number of runs    *)
(* that overlap, stop or lose the provider's answer, the ledger's word can  *)
(* be relied upon.                                                          *)
(*                                                                         *)
(* The argument is about who holds a statement: the run whose claim made    *)
(* its row "sending", from the link to the last word on the delivery.  A    *)
(* row that may be claimed is held by nobody and nothing was accepted for   *)
(* it; of a statement that is held, nothing was accepted before the stage   *)
(* "finalize".                                                              *)
(***************************************************************************)
EXTENDS LedgerDelivery, TLAPS

\* The stages of a run that holds its statement, and those at a row that exists.
Holding == {"sign", "document", "text", "finalize", "fail"}
OnRow == Holding \cup {"skip", "claim"}
KeyOf(h) == <<h.company, h.kind>>
HoldsKey(h, k) == h.stage \in Holding /\ KeyOf(h) = k
\* No run has claimed the row yet, or its last claim came to nothing.
Free == {k \in Keys : ledger[k] = None \/ Claimable(k)}

\* What is known of a run.  A holder's statement was not accepted before it is
\* finalized, unless a gateway erred; while no phone is changed the run knows the
\* phones as they are, skips companies without one and claims for those with one.
RunFits(h) ==
  /\ h \in Working \cup {Idle}
  /\ h # Idle /\ h.stage # "next" => h.company # None
  /\ h.stage = "insert" => KeyOf(h) \in pdf
  /\ h.stage \in OnRow => ledger[KeyOf(h)] # None
  /\ gateway = 0 /\ h.stage \in Holding \ {"finalize"} => accepted[KeyOf(h)] = 0
  /\ h.stage = "finalize" => accepted[KeyOf(h)] > 0
  /\ phones = 0 /\ h # Idle => h.called = phone
  /\ phones = 0 /\ h.stage = "skip" => h.company \notin phone
  /\ phones = 0 /\ h.stage \in Holding \cup {"claim"} => h.company \in phone

\* What is known of a statement: its row, and what the provider accepted of it.
RowFits(k) ==
  /\ ledger[k] \in Row \cup {None} /\ accepted[k] \in Nat
  /\ ledger[k] # None => k \in pdf
  /\ gateway = 0 => accepted[k] <= 1 /\ (k \in Free => accepted[k] = 0)
  /\ ledger[k] # None /\ ledger[k].delivery = "sent" => accepted[k] > 0
  /\ phones = 0 /\ accepted[k] > 0 => k[1] \in phone
  /\ phones = 0 /\ ledger[k] # None /\ ledger[k].delivery = "skipped" => k[1] \notin phone

RowsFit == \A k \in Keys : RowFits(k)

\* A statement is held by one run, and not while it may be claimed.
HeldByOne ==
  \A r, q \in Runs : r # q /\ run[r].stage \in Holding => ~HoldsKey(run[q], Key(r))
FreeIsUnheld == \A k \in Free : \A r \in Runs : ~HoldsKey(run[r], k)

Shape ==
  /\ ledger \in [Keys -> Row \cup {None}] /\ pdf \subseteq Keys /\ phone \subseteq Companies
  /\ accepted \in [Keys -> Nat] /\ run \in [Runs -> Working \cup {Idle}]
  /\ faults \in 0..MaxFaults /\ gateway \in 0..MaxGateway /\ phones \in 0..MaxPhones
LedgerInv ==
  /\ Shape
  /\ \A r \in Runs : RunFits(run[r])
  /\ RowsFit
  /\ HeldByOne /\ FreeIsUnheld

-----------------------------------------------------------------------------
(* One run's step.                                                          *)

\* A run at work on a company is at a statement.
LEMMA KeyType ==
  ASSUME LedgerInv, NEW r \in Runs, run[r].stage \notin {"idle", "next"}
  PROVE  /\ run[r] \in Working /\ Key(r) \in Keys /\ Key(r) = KeyOf(run[r])
         /\ Key(r)[1] = run[r].company /\ RunFits(run[r]) /\ Shape /\ RowFits(Key(r))
<1>1. run[r] \in Working /\ RunFits(run[r]) /\ Shape
  BY DEF LedgerInv, Shape, Idle
<1>2. run[r].company \in Companies /\ run[r].kind \in Kinds
  BY <1>1 DEF RunFits, Working, Idle
<1> QED BY <1>1, <1>2 DEF Key, Keys, KeyOf, LedgerInv, RowsFit

Untouched(k) == ledger'[k] = ledger[k] /\ accepted'[k] = accepted[k]
\* A step of one run that keeps the invariant: it touches at most one statement,
\* its own, and holds one only if it held it before or found it free.
LEMMA StepKeeps ==
  ASSUME LedgerInv, NEW r \in Runs, NEW h \in Working \cup {Idle}, NEW k,
         run' = [run EXCEPT ![r] = h], Shape', RunFits(h)',
         UNCHANGED <<phone, phones>>, gateway' = 0 => gateway = 0, pdf \subseteq pdf',
         \A x \in Keys : Untouched(x) \/ x = k,
         k \in Keys /\ ~Untouched(k) =>
           /\ ledger[k] # None => ledger'[k] # None
           /\ accepted'[k] = accepted[k] \/ HoldsKey(run[r], k)
           /\ k \in Free' => (k \in Free \/ HoldsKey(run[r], k)) /\ ~HoldsKey(h, k), RowsFit',
         h.stage \in Holding =>
           \/ run[r].stage \in Holding /\ KeyOf(h) = Key(r)
           \/ KeyOf(h) = k /\ k \in Free /\ ~Untouched(k)
  PROVE  LedgerInv'
<1>1. /\ run'[r] = h
      /\ \A q \in Runs : q # r => run'[q] = run[q]
  BY DEF LedgerInv, Shape
<1>3. ASSUME NEW q \in Runs, q # r PROVE RunFits(run[q])'
  <2> DEFINE g == run[q]
  <2>1. g \in Working \cup {Idle} /\ RunFits(g) /\ run'[q] = g
    BY <1>1, <1>3 DEF LedgerInv, Shape
  <2>2. CASE g.stage \notin OnRow
    BY <2>1, <2>2 DEF RunFits, OnRow, Holding
  <2>3. CASE g.stage \in OnRow
    <3>1. g \in Working /\ KeyOf(g) \in Keys /\ KeyOf(g) = Key(q)
      BY <2>3, KeyType DEF OnRow, Holding
    <3>2. ledger'[KeyOf(g)] # None
      BY <2>1, <2>3, <3>1 DEF RunFits, Untouched
    <3>3. g.stage \in Holding => accepted'[KeyOf(g)] = accepted[KeyOf(g)]
      <4> SUFFICES ASSUME g.stage \in Holding, ~Untouched(KeyOf(g))
                   PROVE  accepted'[KeyOf(g)] = accepted[KeyOf(g)]
        BY DEF Untouched
      <4>1. KeyOf(g) = k
        BY <3>1
      <4>2. ~HoldsKey(run[r], KeyOf(g))
        BY <1>3, <3>1 DEF LedgerInv, HeldByOne
      <4> QED BY <3>1, <4>1, <4>2
    <3>4. RunFits(g) /\ run'[q] = g
      BY <2>1
    <3> HIDE DEF g
    <3> QED BY <2>3, <3>1, <3>2, <3>3, <3>4 DEF RunFits, OnRow, Holding
  <2> QED BY <2>2, <2>3
<1>4. HeldByOne'
  <2> SUFFICES ASSUME NEW p \in Runs, NEW q \in Runs, p # q, run'[p].stage \in Holding,
                      run'[q].stage \in Holding
               PROVE  KeyOf(run'[q]) # KeyOf(run'[p])
    BY DEF HeldByOne, HoldsKey, Key, KeyOf
  <2>1. ASSUME NEW q1 \in Runs, q1 # r, run[q1].stage \in Holding, h.stage \in Holding
        PROVE  KeyOf(h) # KeyOf(run[q1])
    <3>1. CASE run[r].stage \in Holding /\ KeyOf(h) = Key(r)
      BY <2>1, <3>1 DEF LedgerInv, HeldByOne, HoldsKey
    <3>2. CASE KeyOf(h) = k /\ k \in Free
      BY <2>1, <3>2 DEF LedgerInv, FreeIsUnheld, HoldsKey
    <3> QED BY <2>1, <3>1, <3>2
  <2>2. CASE p = r
    BY <1>1, <2>1, <2>2
  <2>3. CASE q = r
    BY <1>1, <2>1, <2>3
  <2>4. CASE p # r /\ q # r
    BY <1>1, <2>4 DEF LedgerInv, HeldByOne, HoldsKey, Key, KeyOf
  <2> QED BY <2>2, <2>3, <2>4
<1>5. FreeIsUnheld'
  <2> SUFFICES ASSUME NEW x \in Free', NEW q \in Runs PROVE ~HoldsKey(run'[q], x)
    BY DEF FreeIsUnheld, HoldsKey, KeyOf
  <2>3. x \in Keys
    BY DEF Free
  <2>1. CASE Untouched(x)
    <3>1. x \in Keys /\ x \in Free
      BY <2>1 DEF Untouched, Free, Claimable
    <3>2. CASE q # r
      BY <1>1, <3>1, <3>2 DEF LedgerInv, FreeIsUnheld
    <3>3. CASE q = r
      <4>1. ~HoldsKey(run[r], x)
        BY <3>1 DEF LedgerInv, FreeIsUnheld
      <4> QED BY <1>1, <2>1, <3>3, <4>1 DEF HoldsKey, Key, KeyOf
    <3> QED BY <3>2, <3>3
  <2>2. CASE x = k /\ ~Untouched(k)
    <3>1. CASE q = r
      BY <1>1, <2>2, <2>3, <3>1
    <3>2. CASE q # r /\ x \in Free
      BY <1>1, <3>2 DEF LedgerInv, FreeIsUnheld
    <3>3. CASE q # r /\ HoldsKey(run[r], x)
      BY <1>1, <3>3 DEF LedgerInv, HeldByOne, HoldsKey, Key, KeyOf
    <3> QED BY <2>2, <2>3, <3>1, <3>2, <3>3
  <2> QED BY <2>1, <2>2, <2>3
<1> QED BY <1>1, <1>3, <1>4, <1>5 DEF LedgerInv

Moves(r, h) == run' = [run EXCEPT ![r] = h]
SameRows == UNCHANGED <<ledger, accepted, phone, phones, gateway>>

\* A step that touches no statement.
LEMMA OnlyRunMoves ==
  ASSUME LedgerInv, NEW r \in Runs, NEW h \in Working \cup {Idle}, Moves(r, h),
         SameRows, pdf \subseteq pdf', Shape', RunFits(h),
         h.stage \in Holding => run[r].stage \in Holding /\ KeyOf(h) = Key(r)
  PROVE  LedgerInv'
<1>1. RunFits(h)'
  BY DEF RunFits, SameRows
<1>2. \A x \in Keys : Untouched(x)
  BY DEF Untouched, SameRows
<1>3. RowsFit'
  <2> SUFFICES ASSUME NEW x \in Keys PROVE RowFits(x)'
    BY DEF RowsFit
  <2> QED BY DEF LedgerInv, RowsFit, RowFits, SameRows, Free, Claimable
<1> PICK k : k = Key(r)
  OBVIOUS
<1>4. k \in Keys => Untouched(k)
  BY <1>2
<1> QED BY <1>1, <1>2, <1>3, <1>4, StepKeeps DEF Moves, SameRows

\* The ends of a run: of its turn with a company, and of all of it.
LEMMA TurnEnds ==
  ASSUME LedgerInv, NEW r \in Runs, run[r] \in Working
  PROVE  LET h == [run[r] EXCEPT !.stage = "next", !.company = None]
         IN  /\ h \in Working /\ RunFits(h)
             /\ h.stage = "next" /\ ~(h.stage \in Holding)
             /\ NextCompany(r) => Moves(r, h)
             /\ run[r].stage # "idle"
<1> DEFINE h == [run[r] EXCEPT !.stage = "next", !.company = None]
<1>1. /\ h \in Working /\ h.stage = "next" /\ h.called = run[r].called
      /\ run[r].stage # "idle" /\ run[r] # Idle
  <2>1. h.stage = "next" /\ h.company = None /\ h.called = run[r].called
        /\ h.kind = run[r].kind /\ h.todo = run[r].todo
    BY DEF Working
  <2>2. "next" \in Stages /\ "idle" \notin Stages
    BY DEF Stages
  <2>3. h \in Working
    BY <2>2 DEF Working
  <2>4. run[r].stage # "idle"
    BY <2>2 DEF Working
  <2> QED BY <2>1, <2>3, <2>4 DEF Idle
<1>2. NextCompany(r) => Moves(r, h)
  BY DEF NextCompany, Moves, LedgerInv, Shape
<1> HIDE DEF h
<1>3. RunFits(h)
  BY <1>1 DEF LedgerInv, RunFits, OnRow, Holding
<1> QED BY <1>1, <1>2, <1>3 DEF h, Holding

LEMMA IdleFits == Idle.stage = "idle" /\ RunFits(Idle) /\ RunFits(Idle)'
  BY DEF RunFits, Idle, OnRow, Holding

\* A step to another stage with the same company.
LEMMA StageMoves ==
  ASSUME LedgerInv, NEW r \in Runs, run[r] \in Working, run[r].stage # "next",
         NEW s \in Stages, Goto(r, s)
  PROVE  \E h \in Working :
           /\ Moves(r, h) /\ h.stage = s /\ KeyOf(h) = Key(r) /\ h # Idle
           /\ h.company = run[r].company /\ h.called = run[r].called /\ h.company # None
<1> DEFINE h == [run[r] EXCEPT !.stage = s]
<1>1. h \in Working /\ h.stage = s /\ h.company = run[r].company /\ h.kind = run[r].kind
      /\ h.called = run[r].called
  BY DEF Working
<1>2. Moves(r, h)
  BY DEF Goto, Moves, LedgerInv, Shape
<1>3. run[r].company # None
  BY DEF LedgerInv, RunFits, Working, Idle
<1>4. h # Idle
  BY <1>1 DEF Working, Idle, Stages
<1> HIDE DEF h
<1> QED BY <1>1, <1>2, <1>3, <1>4 DEF Key, KeyOf

-----------------------------------------------------------------------------
(* The steps that touch no statement.                                       *)

LEMMA KeepsRunEnds ==
  ASSUME LedgerInv, NEW r \in Runs, run[r] \in Working,
         End(r) \/ NextCompany(r), SameRows, pdf \subseteq pdf', Shape'
  PROVE  LedgerInv'
<1>1. CASE End(r)
  <2>1. Moves(r, Idle) /\ Idle.stage \notin Holding
    BY <1>1 DEF End, Moves, Idle, Holding
  <2> QED BY <2>1, IdleFits, OnlyRunMoves
<1>2. CASE NextCompany(r)
  BY <1>2, TurnEnds, OnlyRunMoves
<1> QED BY <1>1, <1>2

LEMMA KeepsStart ==
  ASSUME LedgerInv, NEW r \in Runs, NEW caller \in Callers, NEW kind \in Kinds,
         NEW todo \in SUBSET Companies, Start(r, caller, kind, todo)
  PROVE  LedgerInv'
<1> DEFINE h == [stage |-> "next", kind |-> kind, todo |-> todo, called |-> phone,
                 company |-> None]
<1>1. h \in Working /\ h.stage = "next" /\ h.called = phone
  BY DEF LedgerInv, Shape, Working, Stages
<1>2. Moves(r, h) /\ SameRows /\ UNCHANGED <<pdf, faults>>
  BY DEF Start, Moves, SameRows, Outside, Works
<1> HIDE DEF h
<1>3. RunFits(h) /\ h.stage \notin Holding
  BY <1>1 DEF RunFits, OnRow, Holding
<1>4. Shape'
  BY <1>1, <1>2 DEF LedgerInv, Shape, Moves, SameRows
<1> QED BY <1>1, <1>2, <1>3, <1>4, OnlyRunMoves

LEMMA KeepsTake ==
  ASSUME LedgerAssumption, LedgerInv, NEW r \in Runs, Take(r)
  PROVE  LedgerInv'
<1>1. run[r] \in Working /\ run[r].stage = "next" /\ RunFits(run[r]) /\ run[r] # Idle
  <2>1. run[r] \in Working \cup {Idle} /\ RunFits(run[r]) /\ run[r].stage = "next"
    BY DEF LedgerInv, Shape, Take, At
  <2>2. Idle.stage = "idle"
    BY DEF Idle
  <2> QED BY <2>1, <2>2
<1>2. SameRows /\ UNCHANGED <<pdf, faults>>
  BY DEF Take, SameRows, Outside, Works
<1>3. ASSUME NEW c \in run[r].todo,
             run' = [run EXCEPT ![r].stage = "look", ![r].company = c, ![r].todo = @ \ {c}]
      PROVE  LedgerInv'
  <2> DEFINE h == [run[r] EXCEPT !.stage = "look", !.company = c,
                                !.todo = run[r].todo \ {c}]
  <2>1. c \in Companies /\ c # None
    BY <1>1 DEF Working, LedgerAssumption
  <2>2. h \in Working /\ h.stage = "look" /\ h.company = c /\ h.called = run[r].called
    BY <1>1, <2>1 DEF Working, Stages
  <2>3. Moves(r, h)
    BY <1>1, <1>3 DEF Moves, LedgerInv, Shape
  <2> HIDE DEF h
  <2>4. RunFits(h) /\ h.stage \notin Holding
    BY <1>1, <2>1, <2>2 DEF RunFits, OnRow, Holding
  <2>5. Shape'
    BY <1>2, <2>2, <2>3 DEF LedgerInv, Shape, Moves, SameRows
  <2> QED BY <1>2, <2>2, <2>3, <2>4, <2>5, OnlyRunMoves
<1>4. CASE End(r)
  <2>1. Shape'
    BY <1>2, <1>4 DEF LedgerInv, Shape, End, SameRows
  <2> QED BY <1>1, <1>2, <1>4, <2>1, KeepsRunEnds
<1> QED BY <1>3, <1>4 DEF Take

-----------------------------------------------------------------------------
(* The steps that touch a statement.                                        *)

\* What every step of a run keeps of the types, whatever the run does.
LEMMA ShapeKept ==
  ASSUME LedgerAssumption, LedgerInv, NEW r \in Runs, NEW h \in Working \cup {Idle}, Moves(r, h),
         ledger' \in [Keys -> Row \cup {None}], accepted' \in [Keys -> Nat],
         pdf' \subseteq Keys, gateway' \in 0..MaxGateway, UNCHANGED <<phone, phones>>,
         Works \/ Fault
  PROVE  Shape'
<1>1. faults' \in 0..MaxFaults
  BY DEF LedgerInv, Shape, Works, Fault, LedgerAssumption
<1> QED BY <1>1 DEF LedgerInv, Shape, Moves

\* A run that is at no row stays right about whatever happens to the rows.
LEMMA RestFits ==
  ASSUME NEW h, RunFits(h), h.stage \notin OnRow \cup {"insert"}, UNCHANGED <<phone, phones>>
  PROVE  RunFits(h)'
  BY DEF RunFits, OnRow, Holding

\* A write of the run's own row.
LEMMA WriteKeeps ==
  ASSUME LedgerAssumption, LedgerInv, NEW r \in Runs, run[r].stage \notin {"idle", "next"},
         NEW h \in Working \cup {Idle}, Moves(r, h), RunFits(h)', NEW row \in Row,
         ledger' = [ledger EXCEPT ![Key(r)] = row], Key(r) \in pdf,
         UNCHANGED <<pdf, accepted, Outside>>, Works \/ Fault,
         row.delivery = "sent" => accepted[Key(r)] > 0,
         phones = 0 /\ row.delivery = "skipped" => run[r].company \notin phone,
         row.delivery \in {"pending", "failed"} =>
           /\ gateway = 0 => accepted[Key(r)] = 0
           /\ Key(r) \in Free \/ run[r].stage \in Holding
           /\ h.stage \notin Holding,
         h.stage \in Holding =>
           /\ KeyOf(h) = Key(r)
           /\ run[r].stage \in Holding \/ (Key(r) \in Free /\ ledger[Key(r)] # row)
  PROVE  LedgerInv'
<1> PICK k : k = Key(r)
  OBVIOUS
<1>1. /\ k \in Keys /\ k[1] = run[r].company /\ RowFits(k) /\ Shape
      /\ k = KeyOf(run[r])
  BY KeyType
<1>2. /\ ledger'[k] = row /\ row # None
      /\ \A x \in Keys : x # k => ledger'[x] = ledger[x]
  BY <1>1 DEF Shape, LedgerAssumption
<1>3. UNCHANGED <<phone, phones, gateway, pdf, accepted>>
  BY DEF Outside
<1>4. Shape'
  BY <1>1, <1>2, <1>3, ShapeKept DEF Shape
<1>5. RowsFit'
  <2> SUFFICES ASSUME NEW x \in Keys PROVE RowFits(x)'
    BY DEF RowsFit
  <2>1. CASE x = k
    BY <1>1, <1>2, <1>3, <2>1 DEF RowFits, Free, Claimable
  <2>2. CASE x # k
    BY <1>2, <1>3, <2>2 DEF LedgerInv, RowsFit, RowFits, Free, Claimable
  <2> QED BY <2>1, <2>2
<1>6. k \in Free' => (k \in Free \/ HoldsKey(run[r], k)) /\ ~HoldsKey(h, k)
  BY <1>1, <1>2 DEF Free, Claimable, HoldsKey
<1>7. \A x \in Keys : Untouched(x) \/ x = k
  BY <1>2, <1>3 DEF Untouched
<1>8. ledger[k] # row => ~Untouched(k)
  BY <1>2 DEF Untouched
<1>9. h.stage \in Holding =>
        \/ run[r].stage \in Holding /\ KeyOf(h) = Key(r)
        \/ KeyOf(h) = k /\ k \in Free /\ ~Untouched(k)
  BY <1>1, <1>8
<1>10. /\ run' = [run EXCEPT ![r] = h] /\ UNCHANGED <<phone, phones>>
       /\ gateway' = 0 => gateway = 0
       /\ pdf \subseteq pdf'
  BY <1>3 DEF Moves
<1> QED BY <1>2, <1>3, <1>4, <1>5, <1>6, <1>7, <1>9, <1>10, StepKeeps

\* The same for a write of the row's delivery that ends the turn or the run.
LEMMA LastWriteKeeps ==
  ASSUME LedgerAssumption, LedgerInv, NEW r \in Runs, run[r].stage \in OnRow, NextCompany(r),
         NEW row \in Row, ledger' = [ledger EXCEPT ![Key(r)] = row],
         UNCHANGED <<pdf, accepted, Outside>>, Works \/ Fault,
         row.delivery = "sent" => accepted[Key(r)] > 0,
         phones = 0 /\ row.delivery = "skipped" => run[r].company \notin phone,
         row.delivery \in {"pending", "failed"} =>
           /\ gateway = 0 => accepted[Key(r)] = 0
           /\ Key(r) \in Free \/ run[r].stage \in Holding
  PROVE  LedgerInv'
<1>1. run[r].stage \notin {"idle", "next"}
  BY DEF OnRow, Holding
<1>2. run[r] \in Working /\ Key(r) \in pdf
  BY <1>1, KeyType DEF RunFits, RowFits
<1> PICK h : h = [run[r] EXCEPT !.stage = "next", !.company = None]
  OBVIOUS
<1>3. h \in Working /\ RunFits(h) /\ h.stage = "next" /\ ~(h.stage \in Holding) /\ Moves(r, h)
  BY <1>2, TurnEnds
<1>4. RunFits(h)'
  BY <1>3, RestFits DEF OnRow, Holding, Outside
<1> QED BY <1>1, <1>2, <1>3, <1>4, WriteKeeps

\* Delivery(r, status) is such a write.
LEMMA DeliveryWrites ==
  ASSUME LedgerInv, NEW r \in Runs, run[r].stage \in OnRow, NEW status \in Statuses,
         Delivery(r, status)
  PROVE  \E row \in Row : row.delivery = status /\ ledger' = [ledger EXCEPT ![Key(r)] = row]
<1>1. Key(r) \in Keys /\ ledger[Key(r)] \in Row
  <2>1. run[r].stage \notin {"idle", "next"}
    BY DEF OnRow, Holding
  <2> QED BY <2>1, KeyType DEF RunFits, RowFits
<1> DEFINE row == [ledger[Key(r)] EXCEPT !.delivery = status]
<1>2. row \in Row /\ row.delivery = status
  BY <1>1 DEF Row
<1>3. ledger' = [ledger EXCEPT ![Key(r)] = row]
  BY <1>1 DEF Delivery
<1> QED BY <1>2, <1>3
-----------------------------------------------------------------------------
(* One lemma per operation.                                                 *)

\* The turn or the run ends and nothing was touched, for better or worse.
LEMMA KeepsEnd ==
  ASSUME LedgerAssumption, LedgerInv, NEW r \in Runs, run[r] \in Working, End(r) \/ NextCompany(r),
         UNCHANGED <<ledger, pdf, accepted, Outside>>, Works \/ Fault
  PROVE  LedgerInv'
<1>1. SameRows /\ pdf' = pdf /\ Shape
  BY DEF SameRows, Outside, LedgerInv
<1>2. PICK h \in Working \cup {Idle} : Moves(r, h)
  BY TurnEnds DEF End, Moves
<1>3. Shape'
  BY <1>1, <1>2, ShapeKept DEF SameRows, Shape
<1> QED BY <1>1, <1>3, KeepsRunEnds

\* The same for a step to a stage that holds nothing new.
LEMMA KeepsGoto ==
  ASSUME LedgerAssumption, LedgerInv, NEW r \in Runs, run[r].stage \notin {"idle", "next"}, NEW s \in Stages,
         Goto(r, s), UNCHANGED <<ledger, pdf, accepted, Outside>>, Works \/ Fault,
         s # "insert" /\ s # "finalize",
         s \in OnRow => ledger[Key(r)] # None,
         s \in Holding => run[r].stage \in Holding \ {"finalize"},
         phones = 0 /\ s = "claim" => run[r].company \in run[r].called,
         phones = 0 /\ s = "skip" => run[r].company \notin run[r].called
  PROVE  LedgerInv'
<1>1. SameRows /\ pdf' = pdf /\ Shape
  BY DEF SameRows, Outside, LedgerInv
<1>2. run[r] \in Working /\ Key(r) = KeyOf(run[r]) /\ RunFits(run[r]) /\ run[r].stage # "next"
  BY KeyType
<1>3. PICK h \in Working :
        /\ Moves(r, h) /\ h.stage = s /\ KeyOf(h) = Key(r) /\ h # Idle
        /\ h.company = run[r].company /\ h.called = run[r].called /\ h.company # None
  BY <1>2, StageMoves
<1>4. Shape'
  BY <1>1, <1>3, ShapeKept DEF SameRows, Shape
<1>5. run[r] # Idle
  BY DEF Idle
<1>6. RunFits(h)
  BY <1>2, <1>3, <1>5 DEF RunFits, OnRow, Holding
<1> QED BY <1>1, <1>3, <1>4, <1>6, OnlyRunMoves

LEMMA KeepsLook == ASSUME LedgerAssumption, LedgerInv, NEW r \in Runs, Look(r) PROVE LedgerInv'
<1>1. run[r].stage = "look" /\ run[r].stage \notin {"idle", "next"} /\ run[r] \in Working
  BY KeyType DEF Look, At
<1>2. UNCHANGED <<ledger, pdf, accepted, Outside>>
  BY DEF Look
<1>3. CASE Works /\ Goto(r, "orders")
  BY <1>1, <1>2, <1>3, KeepsGoto DEF Stages, OnRow, Holding
<1>4. CASE ledger[Key(r)] # None /\ Works /\ Deliver(r)
  BY <1>1, <1>2, <1>4, KeepsGoto DEF Deliver, Stages, OnRow, Holding
<1>5. CASE (Works \/ Fault) /\ (NextCompany(r) \/ End(r))
  BY <1>1, <1>2, <1>5, KeepsEnd
<1> QED BY <1>3, <1>4, <1>5 DEF Look

LEMMA KeepsReadOrders == ASSUME LedgerAssumption, LedgerInv, NEW r \in Runs, ReadOrders(r) PROVE LedgerInv'
<1>1. run[r].stage = "orders" /\ run[r].stage \notin {"idle", "next"} /\ run[r] \in Working
  BY KeyType DEF ReadOrders, At
<1>2. UNCHANGED <<ledger, pdf, accepted, Outside>>
  BY DEF ReadOrders
<1>3. CASE Works /\ Goto(r, "upload")
  BY <1>1, <1>2, <1>3, KeepsGoto DEF Stages, OnRow, Holding
<1>4. CASE Fault /\ End(r)
  BY <1>1, <1>2, <1>4, KeepsEnd
<1> QED BY <1>3, <1>4 DEF ReadOrders

LEMMA KeepsUpload == ASSUME LedgerAssumption, LedgerInv, NEW r \in Runs, Upload(r) PROVE LedgerInv'
<1>1. run[r].stage = "upload" /\ run[r].stage \notin {"idle", "next"} /\ run[r] \in Working
  BY KeyType DEF Upload, At
<1>2. Key(r) \in Keys /\ RunFits(run[r]) /\ Shape
  BY <1>1, KeyType
<1>3. UNCHANGED <<ledger, accepted, Outside>>
  BY DEF Upload
<1>4. CASE pdf' = pdf \cup {Key(r)} /\ Works /\ Goto(r, "insert")
  <2>1. PICK h \in Working :
          /\ Moves(r, h) /\ h.stage = "insert" /\ KeyOf(h) = Key(r) /\ h # Idle
          /\ h.company = run[r].company /\ h.called = run[r].called /\ h.company # None
    BY <1>1, <1>4, StageMoves DEF Stages
  <2>2. PICK k : k = Key(r)
    OBVIOUS
  <2>3. KeyOf(h) = k /\ k \in pdf' /\ pdf \subseteq pdf' /\ pdf' \subseteq Keys
    BY <1>2, <1>4, <2>1, <2>2 DEF Shape
  <2>4. run[r] # Idle
    BY <1>1 DEF Idle
  <2>5. RunFits(h)'
    BY <1>2, <1>3, <2>1, <2>3, <2>4 DEF RunFits, OnRow, Holding, Outside
  <2>6. Shape'
    BY <1>2, <1>3, <1>4, <2>1, <2>3, ShapeKept DEF Shape, Outside
  <2>7. RowsFit'
    <3> SUFFICES ASSUME NEW x \in Keys PROVE RowFits(x)'
      BY DEF RowsFit
    <3> QED BY <1>3, <2>3 DEF LedgerInv, RowsFit, RowFits, Free, Claimable, Outside
  <2>8. /\ \A x \in Keys : Untouched(x)
        /\ run' = [run EXCEPT ![r] = h] /\ UNCHANGED <<phone, phones, gateway>>
        /\ h.stage \notin Holding
    BY <1>3, <2>1 DEF Untouched, Outside, Moves, Holding
  <2> QED BY <1>2, <2>2, <2>3, <2>5, <2>6, <2>7, <2>8, StepKeeps
<1>5. CASE Fault /\ UNCHANGED pdf /\ NextCompany(r)
  BY <1>1, <1>3, <1>5, KeepsEnd
<1> QED BY <1>4, <1>5 DEF Upload, AfterUpload

LEMMA KeepsInsert == ASSUME LedgerAssumption, LedgerInv, NEW r \in Runs, Insert(r) PROVE LedgerInv'
<1>1. run[r].stage = "insert" /\ run[r].stage \notin {"idle", "next"} /\ run[r] \in Working
  BY KeyType DEF Insert, At
<1>2. /\ Key(r) \in Keys /\ RunFits(run[r]) /\ Shape /\ RowFits(Key(r))
      /\ Key(r) = KeyOf(run[r]) /\ run[r] # Idle
  BY <1>1, KeyType DEF Idle
<1>3. UNCHANGED <<pdf, accepted, Outside>>
  BY DEF Insert
<1> DEFINE row == [delivery |-> "pending", disputed |-> FALSE]
<1>4. row \in Row /\ row # None /\ row.delivery = "pending"
  <2>1. row \in Row /\ row.delivery = "pending"
    BY DEF Row, Statuses
  <2> QED BY <2>1 DEF LedgerAssumption
<1>5. Key(r) \in pdf
  BY <1>1, <1>2 DEF RunFits
<1> HIDE DEF row
<1>6. ASSUME ledger[Key(r)] = None, ledger' = [ledger EXCEPT ![Key(r)] = row], Works \/ Fault,
             NEW h \in Working \cup {Idle}, Moves(r, h), RunFits(h)', h.stage \notin Holding
      PROVE  LedgerInv'
  <2>1. Key(r) \in Free
    BY <1>2, <1>6 DEF Free
  <2>2. gateway = 0 => accepted[Key(r)] = 0
    BY <1>2, <2>1 DEF RowFits
  <2> QED BY <1>1, <1>3, <1>4, <1>5, <1>6, <2>1, <2>2, WriteKeeps
<1>7. CASE ledger[Key(r)] = None /\ ledger' = [ledger EXCEPT ![Key(r)] = row] /\ Works /\ Deliver(r)
  <2>1. PICK s \in {"claim", "skip"} :
          Goto(r, s) /\ (s = "claim" <=> run[r].company \in run[r].called)
    BY <1>7 DEF Deliver
  <2>2. PICK h \in Working :
          /\ Moves(r, h) /\ h.stage = s /\ KeyOf(h) = Key(r) /\ h # Idle
          /\ h.company = run[r].company /\ h.called = run[r].called /\ h.company # None
    BY <1>1, <2>1, StageMoves DEF Stages
  <2>3. PICK k : k = Key(r)
    OBVIOUS
  <2>4. ledger'[k] = row
    BY <1>2, <1>7, <2>3 DEF Shape
  <2>5. RunFits(h)' /\ h.stage \notin Holding
    BY <1>2, <1>3, <1>4, <2>1, <2>2, <2>3, <2>4 DEF RunFits, OnRow, Holding, Outside
  <2> QED BY <1>6, <1>7, <2>2, <2>5
<1>8. CASE ledger[Key(r)] = None /\ ledger' = [ledger EXCEPT ![Key(r)] = row] /\ Fault /\ End(r)
  <2>1. Moves(r, Idle) /\ Idle.stage \notin Holding
    BY <1>8 DEF End, Moves, Idle, Holding
  <2> QED BY <1>6, <1>8, <2>1, IdleFits
<1>9. CASE (Works \/ Fault) /\ (NextCompany(r) \/ End(r)) /\ UNCHANGED ledger
  BY <1>1, <1>3, <1>9, KeepsEnd
<1> QED BY <1>7, <1>8, <1>9 DEF Insert, row

\* A holder's statement is at a row, and is not accepted before it is finalized.
LEMMA AtRow ==
  ASSUME LedgerInv, NEW r \in Runs, run[r].stage \in OnRow
  PROVE  /\ run[r].stage \notin {"idle", "next"} /\ run[r] \in Working /\ run[r] # Idle
         /\ Key(r) \in Keys /\ Key(r) = KeyOf(run[r]) /\ Key(r)[1] = run[r].company
         /\ ledger[Key(r)] \in Row /\ Key(r) \in pdf
         /\ run[r].stage \in Holding => Key(r) \notin Free
         /\ gateway = 0 /\ run[r].stage \in Holding \ {"finalize"} => accepted[Key(r)] = 0
         /\ RunFits(run[r]) /\ RowFits(Key(r)) /\ Shape
<1>1. run[r].stage \notin {"idle", "next"} /\ run[r] # Idle
  BY DEF OnRow, Holding, Idle
<1>2. /\ run[r] \in Working /\ Key(r) \in Keys /\ Key(r) = KeyOf(run[r]) /\ RunFits(run[r])
      /\ Key(r)[1] = run[r].company /\ RowFits(Key(r)) /\ Shape
  BY <1>1, KeyType
<1>3. run[r].stage \in Holding => Key(r) \notin Free
  BY <1>2 DEF LedgerInv, FreeIsUnheld, HoldsKey
<1>4. ledger[Key(r)] \in Row /\ Key(r) \in pdf
  BY <1>2 DEF RunFits, RowFits
<1>5. gateway = 0 /\ run[r].stage \in Holding \ {"finalize"} => accepted[Key(r)] = 0
  BY <1>2 DEF RunFits
<1> QED BY <1>1, <1>2, <1>3, <1>4, <1>5

LEMMA KeepsSkip == ASSUME LedgerAssumption, LedgerInv, NEW r \in Runs, Skip(r) PROVE LedgerInv'
<1>1. run[r].stage = "skip" /\ run[r].stage \in OnRow
  BY DEF Skip, At, OnRow
<1>2. UNCHANGED <<pdf, accepted, Outside>> /\ NextCompany(r)
  BY DEF Skip
<1>3. CASE Works /\ Delivery(r, "skipped")
  <2>1. phones = 0 => run[r].company \notin phone
    BY <1>1, AtRow DEF RunFits
  <2> QED BY <1>1, <1>2, <1>3, <2>1, DeliveryWrites, LastWriteKeeps DEF Statuses
<1>4. CASE Fault /\ UNCHANGED ledger
  BY <1>1, <1>2, <1>4, AtRow, KeepsEnd
<1> QED BY <1>3, <1>4 DEF Skip

LEMMA KeepsClaim == ASSUME LedgerAssumption, LedgerInv, NEW r \in Runs, Claim(r) PROVE LedgerInv'
<1>1. run[r].stage = "claim" /\ run[r].stage \in OnRow
  BY DEF Claim, At, OnRow
<1>2. UNCHANGED <<pdf, accepted, Outside>>
  BY DEF Claim
<1>3. /\ run[r].stage \notin {"idle", "next"} /\ run[r] \in Working /\ run[r] # Idle
      /\ Key(r) \in Keys /\ Key(r) = KeyOf(run[r]) /\ RunFits(run[r]) /\ RowFits(Key(r)) /\ Shape
      /\ Key(r) \in pdf /\ Key(r)[1] = run[r].company
  BY <1>1, AtRow
<1>4. CASE Claimable(Key(r)) /\ Works /\ Delivery(r, "sending") /\ Goto(r, "sign")
  <2>1. PICK row \in Row : row.delivery = "sending" /\ ledger' = [ledger EXCEPT ![Key(r)] = row]
    BY <1>1, <1>4, DeliveryWrites DEF Statuses
  <2>2. PICK h \in Working :
          /\ Moves(r, h) /\ h.stage = "sign" /\ KeyOf(h) = Key(r) /\ h # Idle
          /\ h.company = run[r].company /\ h.called = run[r].called /\ h.company # None
    BY <1>3, <1>4, StageMoves DEF Stages
  <2>3. PICK k : k = Key(r)
    OBVIOUS
  <2>4. ledger'[k] = row /\ row # None
    BY <1>3, <2>1, <2>3 DEF Shape, LedgerAssumption
  <2>5. Key(r) \in Free /\ ledger[Key(r)] # row
    BY <1>3, <1>4, <2>1 DEF Free, Claimable
  <2>6. gateway = 0 => accepted'[k] = 0
    BY <1>2, <1>3, <2>3, <2>5 DEF RowFits
  <2>7. phones = 0 => h.company \in phone
    BY <1>1, <1>3, <2>2 DEF RunFits
  <2>8. RunFits(h)'
    BY <1>2, <1>3, <2>2, <2>3, <2>4, <2>6, <2>7 DEF RunFits, OnRow, Holding, Outside
  <2> QED BY <1>2, <1>3, <1>4, <2>1, <2>2, <2>5, <2>8, WriteKeeps
<1>5. CASE Fault /\ NextCompany(r) /\ Delivery(r, "sending")
  BY <1>1, <1>2, <1>5, DeliveryWrites, LastWriteKeeps DEF Statuses
<1>6. CASE (Works \/ Fault) /\ NextCompany(r) /\ UNCHANGED ledger
  BY <1>2, <1>3, <1>6, KeepsEnd
<1> QED BY <1>4, <1>5, <1>6 DEF Claim

LEMMA KeepsSign == ASSUME LedgerAssumption, LedgerInv, NEW r \in Runs, Sign(r) PROVE LedgerInv'
<1>1. run[r].stage = "sign" /\ run[r].stage \in OnRow /\ run[r].stage \in Holding \ {"finalize"}
  BY DEF Sign, At, OnRow, Holding
<1>2. UNCHANGED <<pdf, accepted, Outside>>
  BY DEF Sign
<1>3. /\ run[r].stage \notin {"idle", "next"} /\ run[r] \in Working /\ ledger[Key(r)] # None
      /\ gateway = 0 => accepted[Key(r)] = 0
  BY <1>1, AtRow DEF LedgerAssumption
<1>4. CASE Works /\ Goto(r, "document") /\ UNCHANGED ledger
  BY <1>1, <1>2, <1>3, <1>4, KeepsGoto DEF Stages
<1>5. CASE Fault /\ NextCompany(r) /\ Delivery(r, "failed")
  BY <1>1, <1>2, <1>3, <1>5, DeliveryWrites, LastWriteKeeps DEF Statuses
<1>6. CASE Fault /\ NextCompany(r) /\ UNCHANGED ledger
  BY <1>2, <1>3, <1>6, KeepsEnd
<1> QED BY <1>4, <1>5, <1>6 DEF Sign

\* The provider accepts a holder's message.
LEMMA AcceptedKeeps ==
  ASSUME LedgerAssumption, LedgerInv, NEW r \in Runs, run[r].stage \in {"document", "text"},
         Accepted(r), UNCHANGED <<ledger, pdf, phone, phones>>, gateway' \in 0..MaxGateway,
         gateway' = 0 => gateway = 0, Works \/ Fault,
         NEW h \in Working \cup {Idle}, Moves(r, h), RunFits(h)',
         h.stage \in Holding => KeyOf(h) = Key(r)
  PROVE  LedgerInv'
<1>1. run[r].stage \in OnRow /\ run[r].stage \in Holding \ {"finalize"}
  BY DEF OnRow, Holding
<1>2. PICK k : k = Key(r)
  OBVIOUS
<1>3. /\ k \in Keys /\ k = KeyOf(run[r]) /\ k[1] = run[r].company /\ k \notin Free
      /\ gateway = 0 => accepted[k] = 0
      /\ RunFits(run[r]) /\ RowFits(k) /\ Shape
  BY <1>1, <1>2, AtRow
<1>4. /\ accepted'[k] = accepted[k] + 1 /\ accepted[k] \in Nat
      /\ \A x \in Keys : x # k => accepted'[x] = accepted[x]
  BY <1>2, <1>3 DEF Accepted, Shape
<1>5. accepted' \in [Keys -> Nat]
  BY <1>2, <1>3 DEF Accepted, Shape
<1>6. Shape'
  BY <1>3, <1>5, ShapeKept DEF Shape
<1>7. phones = 0 => k[1] \in phone
  BY <1>1, <1>3 DEF RunFits
<1>8. RowsFit' /\ k \notin Free'
  <2>1. k \notin Free'
    BY <1>3 DEF Free, Claimable
  <2>2. ASSUME NEW x \in Keys PROVE RowFits(x)'
    <3>1. CASE x = k
      BY <1>3, <1>4, <1>7, <2>1, <3>1 DEF RowFits
    <3>2. CASE x # k
      BY <1>4, <3>2 DEF LedgerInv, RowsFit, RowFits, Free, Claimable
    <3> QED BY <3>1, <3>2
  <2> QED BY <2>1, <2>2 DEF RowsFit
<1>9. \A x \in Keys : Untouched(x) \/ x = k
  BY <1>4 DEF Untouched
<1>10. HoldsKey(run[r], k)
  BY <1>1, <1>3 DEF HoldsKey
<1>11. run' = [run EXCEPT ![r] = h] /\ pdf \subseteq pdf' /\ ledger'[k] = ledger[k]
  BY DEF Moves
<1> QED BY <1>1, <1>2, <1>6, <1>8, <1>9, <1>10, <1>11, StepKeeps

LEMMA KeepsSend ==
  ASSUME LedgerAssumption, LedgerInv, NEW r \in Runs, NEW stage \in {"document", "text"},
         NEW rejected \in {"text", "fail"}, Send(r, stage, rejected)
  PROVE  LedgerInv'
<1>1. /\ run[r].stage \in {"document", "text"} /\ run[r].stage \in OnRow
      /\ run[r].stage \in Holding \ {"finalize"}
  BY DEF Send, At, OnRow, Holding
<1>2. UNCHANGED <<ledger, pdf, phone, phones>>
  BY DEF Send
<1>3. /\ run[r].stage \notin {"idle", "next"} /\ run[r] \in Working /\ ledger[Key(r)] \in Row
      /\ run[r] # Idle /\ RunFits(run[r]) /\ Key(r) = KeyOf(run[r]) /\ Shape /\ Key(r) \in Keys
  BY <1>1, AtRow
<1>4. ledger[Key(r)] # None
  BY <1>3 DEF LedgerAssumption
<1>5. ASSUME Accepted(r), Works, NEW s \in {"finalize"} \cup {"text", "fail"}, Goto(r, s),
             gateway' \in 0..MaxGateway, gateway' = 0 => gateway = 0 /\ s = "finalize"
      PROVE  LedgerInv'
  <2>1. PICK h \in Working :
          /\ Moves(r, h) /\ h.stage = s /\ KeyOf(h) = Key(r) /\ h # Idle
          /\ h.company = run[r].company /\ h.called = run[r].called /\ h.company # None
    BY <1>3, <1>5, StageMoves DEF Stages
  <2>2. PICK k : k = Key(r)
    OBVIOUS
  <2>3. /\ accepted'[k] = accepted[k] + 1 /\ accepted[k] \in Nat /\ ledger'[k] # None
        /\ KeyOf(h) = k
    BY <1>2, <1>3, <1>4, <1>5, <2>1, <2>2 DEF Accepted, Shape
  <2>4. phones = 0 => h.company \in phone /\ h.called = phone
    BY <1>1, <1>3, <2>1 DEF RunFits
  <2>5. h.stage \in {"finalize", "text", "fail"} /\ (gateway' = 0 => h.stage = "finalize")
    BY <1>5, <2>1
  <2>6. RunFits(h)'
    BY <1>2, <2>1, <2>3, <2>4, <2>5 DEF RunFits, OnRow, Holding
  <2> QED BY <1>1, <1>2, <1>5, <2>1, <2>6, AcceptedKeeps
<1>6. CASE Works /\ Accepted(r) /\ Goto(r, "finalize") /\ UNCHANGED gateway
  BY <1>3, <1>5, <1>6 DEF Shape
<1>7. CASE Works /\ gateway < MaxGateway /\ gateway' = gateway + 1 /\ Accepted(r) /\ Goto(r, rejected)
  <2>1. gateway' \in 0..MaxGateway /\ gateway' # 0
    BY <1>3, <1>7 DEF Shape, LedgerAssumption
  <2> QED BY <1>5, <1>7, <2>1
<1>8. CASE Works /\ Goto(r, rejected) /\ UNCHANGED <<accepted, gateway>>
  BY <1>1, <1>2, <1>3, <1>4, <1>8, KeepsGoto DEF Stages, Outside
<1>9. CASE Fault /\ NextCompany(r) /\ UNCHANGED gateway /\ Accepted(r)
  <2> PICK h : h = [run[r] EXCEPT !.stage = "next", !.company = None]
    OBVIOUS
  <2>1. h \in Working /\ RunFits(h) /\ h.stage = "next" /\ ~(h.stage \in Holding) /\ Moves(r, h)
    BY <1>3, <1>9, TurnEnds
  <2>2. RunFits(h)'
    BY <1>2, <2>1, RestFits DEF OnRow, Holding
  <2> QED BY <1>1, <1>2, <1>3, <1>9, <2>1, <2>2, AcceptedKeeps DEF Shape
<1>10. CASE Fault /\ NextCompany(r) /\ UNCHANGED gateway /\ UNCHANGED accepted
  BY <1>2, <1>3, <1>10, KeepsEnd DEF Outside
<1> QED BY <1>6, <1>7, <1>8, <1>9, <1>10 DEF Send, AfterSilence

LEMMA KeepsFinalize == ASSUME LedgerAssumption, LedgerInv, NEW r \in Runs, Finalize(r) PROVE LedgerInv'
<1>1. run[r].stage = "finalize" /\ run[r].stage \in OnRow
  BY DEF Finalize, At, OnRow, Holding
<1>2. UNCHANGED <<pdf, accepted, Outside>> /\ NextCompany(r)
  BY DEF Finalize
<1>3. /\ run[r] \in Working /\ Key(r) \in Keys /\ ledger[Key(r)] \in Row
      /\ RunFits(run[r]) /\ Key(r) = KeyOf(run[r])
  BY <1>1, AtRow
<1>4. CASE Works /\ Sent(r)
  <2> DEFINE row == [ledger[Key(r)] EXCEPT !.delivery = "sent",
                                           !.disputed = @ /\ run[r].kind = "rescue"]
  <2>1. row \in Row /\ row.delivery = "sent"
    BY <1>3 DEF Row, Statuses
  <2>2. ledger' = [ledger EXCEPT ![Key(r)] = row]
    BY <1>3, <1>4 DEF Sent
  <2>3. accepted[Key(r)] > 0
    BY <1>1, <1>3 DEF RunFits
  <2> HIDE DEF row
  <2> QED BY <1>1, <1>2, <1>4, <2>1, <2>2, <2>3, LastWriteKeeps
<1>5. CASE Fault /\ UNCHANGED ledger
  BY <1>2, <1>3, <1>5, KeepsEnd
<1> QED BY <1>4, <1>5 DEF Finalize

LEMMA KeepsFail == ASSUME LedgerAssumption, LedgerInv, NEW r \in Runs, Fail(r) PROVE LedgerInv'
<1>1. run[r].stage = "fail" /\ run[r].stage \in OnRow /\ run[r].stage \in Holding \ {"finalize"}
  BY DEF Fail, At, OnRow, Holding
<1>2. UNCHANGED <<pdf, accepted, Outside>> /\ NextCompany(r)
  BY DEF Fail
<1>3. run[r] \in Working /\ (gateway = 0 => accepted[Key(r)] = 0)
  BY <1>1, AtRow
<1>4. CASE Works /\ Delivery(r, "failed")
  BY <1>1, <1>2, <1>3, <1>4, DeliveryWrites, LastWriteKeeps DEF Statuses
<1>5. CASE Fault /\ UNCHANGED ledger
  BY <1>2, <1>3, <1>5, KeepsEnd
<1> QED BY <1>4, <1>5 DEF Fail

LEMMA KeepsStop == ASSUME LedgerAssumption, LedgerInv, NEW r \in Runs, Stop(r) PROVE LedgerInv'
<1>1. run[r] \in Working
  BY DEF LedgerInv, Shape, Stop, At, Idle
<1> QED BY <1>1, KeepsEnd DEF Stop

\* The customer's word changes neither a delivery nor what was accepted.
LEMMA KeepsDispute == ASSUME LedgerAssumption, LedgerInv, NEW k \in Keys, Dispute(k) PROVE LedgerInv'
<1>1. UNCHANGED <<pdf, accepted, run, phone, phones, gateway, faults>>
  BY DEF Dispute, Outside, Works
<1>2. Shape /\ ledger[k] \in Row
  BY DEF LedgerInv, Shape, Dispute
<1>3. ledger' = [ledger EXCEPT ![k] = [ledger[k] EXCEPT !.disputed = TRUE]]
  BY DEF Dispute
<1>4. PICK row \in Row : row.delivery = ledger[k].delivery /\ ledger' = [ledger EXCEPT ![k] = row]
  <2> DEFINE row == [ledger[k] EXCEPT !.disputed = TRUE]
  <2>1. row \in Row /\ row.delivery = ledger[k].delivery
    BY <1>2 DEF Row
  <2> QED BY <1>3, <2>1
<1>5. ledger'[k] = row /\ row # None /\ \A x \in Keys : x # k => ledger'[x] = ledger[x]
  BY <1>2, <1>4 DEF Shape, LedgerAssumption
<1>6. /\ \A x \in Keys : ledger'[x] = None <=> ledger[x] = None
      /\ \A x \in Keys : ledger[x] # None => ledger'[x].delivery = ledger[x].delivery
  BY <1>2, <1>4, <1>5 DEF LedgerAssumption
<1>7. Shape'
  BY <1>1, <1>2, <1>4 DEF Shape
<1>8. Free' = Free
  BY <1>6 DEF Free, Claimable
<1>9. ASSUME NEW r \in Runs PROVE RunFits(run[r])'
  <2>1. RunFits(run[r]) /\ run'[r] = run[r]
    BY <1>1 DEF LedgerInv
  <2>2. CASE run[r].stage \in OnRow
    <3>1. KeyOf(run[r]) \in Keys
      BY <2>2, AtRow
    <3> QED BY <1>1, <1>6, <2>1, <3>1 DEF RunFits
  <2>3. CASE run[r].stage \notin OnRow
    BY <1>1, <2>1, <2>3 DEF RunFits
  <2> QED BY <2>2, <2>3
<1>10. RowsFit'
  <2> SUFFICES ASSUME NEW x \in Keys PROVE RowFits(x)'
    BY DEF RowsFit
  <2>1. RowFits(x) /\ ledger'[x] \in Row \cup {None}
    BY <1>7 DEF LedgerInv, RowsFit, Shape
  <2> QED BY <1>1, <1>6, <1>8, <2>1 DEF RowFits
<1>11. HeldByOne' /\ FreeIsUnheld'
  BY <1>1, <1>8 DEF LedgerInv, HeldByOne, FreeIsUnheld, HoldsKey, Key, KeyOf
<1> QED BY <1>7, <1>9, <1>10, <1>11 DEF LedgerInv

\* Once a phone was changed nothing is claimed about phones any more.
LEMMA KeepsChangePhone == ASSUME LedgerAssumption, LedgerInv, NEW c \in Companies, ChangePhone(c) PROVE LedgerInv'
<1>1. UNCHANGED <<ledger, pdf, accepted, run, gateway, faults>>
  BY DEF ChangePhone, Works
<1>2. Shape' /\ phones' # 0
  BY <1>1 DEF LedgerInv, Shape, ChangePhone, LedgerAssumption
<1>3. Free' = Free
  BY <1>1 DEF Free, Claimable
<1>4. ASSUME NEW r \in Runs PROVE RunFits(run[r])'
  BY <1>1, <1>2 DEF LedgerInv, RunFits
<1>5. RowsFit'
  <2> SUFFICES ASSUME NEW x \in Keys PROVE RowFits(x)'
    BY DEF RowsFit
  <2> QED BY <1>1, <1>2, <1>3 DEF LedgerInv, RowsFit, RowFits
<1>6. HeldByOne' /\ FreeIsUnheld'
  BY <1>1, <1>3 DEF LedgerInv, HeldByOne, FreeIsUnheld, HoldsKey, Key, KeyOf
<1> QED BY <1>2, <1>4, <1>5, <1>6 DEF LedgerInv

-----------------------------------------------------------------------------
(* The theorems.                                                            *)

LEMMA LedgerInvInit == ASSUME LedgerAssumption PROVE Init => LedgerInv
<1> SUFFICES ASSUME Init PROVE LedgerInv
  OBVIOUS
<1>1. Shape
  BY DEF Init, Shape, LedgerAssumption
<1>2. \A r \in Runs : run[r] = Idle /\ run[r].stage = "idle"
  BY DEF Init, Idle
<1>3. \A r \in Runs : RunFits(run[r])
  BY <1>2, IdleFits DEF RunFits, OnRow, Holding
<1>4. RowsFit
  BY DEF Init, RowsFit, RowFits
<1>5. HeldByOne /\ FreeIsUnheld
  BY <1>2 DEF HeldByOne, FreeIsUnheld, HoldsKey, Holding
<1> QED BY <1>1, <1>3, <1>4, <1>5 DEF LedgerInv

LEMMA LedgerInvNext == ASSUME LedgerAssumption PROVE LedgerInv /\ [Next]_vars => LedgerInv'
<1> SUFFICES ASSUME LedgerInv, [Next]_vars PROVE LedgerInv'
  OBVIOUS
<1>1. ASSUME NEW r \in Runs, NEW caller \in Callers, NEW kind \in Kinds,
             NEW todo \in SUBSET Companies, Start(r, caller, kind, todo)
      PROVE  LedgerInv'
  BY <1>1, KeepsStart
<1>2. ASSUME NEW r \in Runs,
             \/ Take(r) \/ Look(r) \/ ReadOrders(r) \/ Upload(r) \/ Insert(r) \/ Skip(r)
             \/ Claim(r) \/ Sign(r)
      PROVE  LedgerInv'
  BY <1>2, KeepsTake, KeepsLook, KeepsReadOrders, KeepsUpload, KeepsInsert, KeepsSkip,
     KeepsClaim, KeepsSign
<1>3. ASSUME NEW r \in Runs, SendDocument(r) \/ SendText(r) PROVE LedgerInv'
  BY <1>3, KeepsSend DEF SendDocument, SendText
<1>4. ASSUME NEW r \in Runs, Finalize(r) \/ Fail(r) \/ Stop(r) PROVE LedgerInv'
  BY <1>4, KeepsFinalize, KeepsFail, KeepsStop
<1>5. ASSUME NEW k \in Keys, Dispute(k) PROVE LedgerInv'
  BY <1>5, KeepsDispute
<1>6. ASSUME NEW c \in Companies, ChangePhone(c) PROVE LedgerInv'
  BY <1>6, KeepsChangePhone
<1>7. CASE UNCHANGED vars
  BY <1>7 DEF vars, LedgerInv, Shape, RunFits, RowsFit, RowFits, HeldByOne, FreeIsUnheld,
     HoldsKey, Key, KeyOf, Free, Claimable
<1> QED BY <1>1, <1>2, <1>3, <1>4, <1>5, <1>6, <1>7 DEF Next

THEOREM LedgerInvHolds == ASSUME LedgerAssumption PROVE Spec => []LedgerInv
  BY LedgerInvInit, LedgerInvNext, PTL DEF Spec

\* The shape of every state: a row points to a stored document, a run that is past
\* its list is at a company.
THEOREM LedgerTypeCorrect == ASSUME LedgerAssumption PROVE Spec => []TypeOK
<1>1. LedgerInv => TypeOK
  <2> SUFFICES ASSUME LedgerInv PROVE TypeOK
    OBVIOUS
  <2>1. Shape /\ RowsFit /\ \A r \in Runs : RunFits(run[r])
    BY DEF LedgerInv
  <2> QED BY <2>1 DEF TypeOK, Shape, RowsFit, RowFits, RunFits
<1> QED BY <1>1, LedgerInvHolds, PTL

\* What runs and operators read in the ledger is true: one delivery at most, nothing
\* accepted of what was not delivered, and an acceptance behind what was sent.
THEOREM LedgerIsTrue == ASSUME LedgerAssumption PROVE Spec => []LedgerTellsTheTruth
<1>1. LedgerInv => LedgerTellsTheTruth
  <2> SUFFICES ASSUME LedgerInv PROVE LedgerTellsTheTruth
    OBVIOUS
  <2>1. ASSUME NEW k \in Keys PROVE RowFits(k)
    BY DEF LedgerInv, RowsFit
  <2>2. DeliveredOnce
    BY <2>1 DEF DeliveredOnce, RowFits
  <2>3. SentWasAccepted
    BY <2>1 DEF SentWasAccepted, RowFits
  <2>4. UndeliveredIsTrue
    <3> SUFFICES ASSUME gateway = 0, phones = 0, NEW k \in Keys, ledger[k] # None,
                        ledger[k].delivery \in {"pending", "failed", "skipped"}
                 PROVE  accepted[k] = 0
      BY DEF UndeliveredIsTrue
    <3>1. CASE ledger[k].delivery \in {"pending", "failed"}
      BY <2>1, <3>1 DEF RowFits, Free, Claimable
    <3>2. CASE ledger[k].delivery = "skipped"
      BY <2>1, <3>2 DEF RowFits
    <3> QED BY <3>1, <3>2
  <2> QED BY <2>2, <2>3, <2>4 DEF LedgerTellsTheTruth
<1> QED BY <1>1, LedgerInvHolds, PTL
=============================================================================

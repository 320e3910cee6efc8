----------------------------- MODULE InboxBridge -----------------------------
(***************************************************************************)
(* The studio inbox bridge: a scheduled job copies the inbound rows of the   *)
(* ERP message table into the studio inbox, batch by batch behind a cursor.  *)
(* The cursor is kept to the full precision of a row's time but read back    *)
(* cut to whole seconds.  Runs may overlap, fail on a row, or die before the *)
(* cursor is saved; these, and an operator's own cursors, are capped by       *)
(* MaxFaults.                                                                *)
(***************************************************************************)
EXTENDS Integers, FiniteSets

CONSTANTS Rows,         \* inbound rows the ERP will hold
          Entry,        \* what the code reads of each: time, id, kind, provider id
          Runs,         \* invocations of the job that may overlap
          Overrides,    \* cursors an operator may ask a run to start from
          BatchLimit,   \* bound: rows per run
          MaxFaults     \* bound: failed rows, failed calls, deaths

Kinds == {"text", "unsupported", "empty", "no_phone"}

\* Times are half seconds.
InboxAssumption ==
  /\ IsFiniteSet(Rows)
  /\ \A r \in Rows : Entry[r].ts \in Nat \ {0} /\ Entry[r].kind \in Kinds
                  /\ Entry[r].id \in Nat
  /\ \A q, r \in Rows : Entry[q].id = Entry[r].id => q = r
  /\ Overrides \subseteq Nat /\ BatchLimit \in Nat \ {0} /\ MaxFaults \in Nat

VARIABLES arrived, inbox, cursor, run, excused, failed, faults

vars == <<arrived, inbox, cursor, run, excused, failed, faults>>

Keys == {Entry[r].key : r \in Rows}
Times == {Entry[r].ts : r \in Rows} \cup {0} \cup Overrides
Idle == [stage |-> "idle"]

TypeOK ==
  /\ arrived \subseteq Rows /\ excused \subseteq Rows /\ failed \subseteq Rows
  /\ inbox \subseteq Keys /\ cursor \in Times
  /\ \A u \in Runs : run[u] # Idle =>
       /\ run[u].stage \in {"read", "row", "save"} /\ run[u].after \in Times
       /\ run[u].batch \subseteq arrived /\ Cardinality(run[u].batch) <= BatchLimit
  /\ faults \in 0..MaxFaults

Init ==
  /\ arrived = {} /\ inbox = {} /\ cursor = 0 /\ excused = {} /\ failed = {}
  /\ run = [u \in Runs |-> Idle] /\ faults = 0

-----------------------------------------------------------------------------
At(u, stage) == run[u].stage = stage
Fault == faults < MaxFaults /\ faults' = faults + 1
Works == UNCHANGED faults

\* cursorToPgTimestamp: fractions of a second are cut off.
CursorToPg(c) == 2 * (c \div 2)
Ahead(r, c) == Entry[r].ts > CursorToPg(c)
(* Mutant: the newest rows are read first.                                   *)
Before_NewestFirst(q, r) == Entry[q].ts > Entry[r].ts

\* The order of the read: by time, then by id.
Before(q, r) == \/ Entry[q].ts < Entry[r].ts
                \/ Entry[q].ts = Entry[r].ts /\ Entry[q].id < Entry[r].id
First(S) == CHOOSE r \in S : \A q \in S \ {r} : Before(r, q)
\* The first rows ahead of the cursor.
Batch(c) ==
  LET ahead == {r \in arrived : Ahead(r, c)}
  IN  {r \in ahead : Cardinality({q \in ahead : Before(q, r)}) < BatchLimit}

\* mapErpWhatsAppMessage: what becomes of a row before the database is asked.
Mapped(r) ==
  CASE Entry[r].kind = "unsupported" -> "skipped"
    [] Entry[r].kind = "no_phone" -> "failed"
    [] Entry[r].kind = "empty" -> "skipped"
    [] OTHER -> "text"

(* Mutant: a duplicate leaves the cursor where it is.                        *)
Advances_NotOnDuplicates(outcome) == outcome = "ingested"

Advances(outcome) == outcome \in {"ingested", "duplicate"}
Later(a, b) == IF a >= b THEN a ELSE b

\* An operator's cursor passes by the rows up to it, those still to come too.
Start(u) ==
  /\ At(u, "idle")
  /\ \E from \in {cursor} \cup Overrides :
       /\ IF from = cursor THEN Works /\ UNCHANGED excused
          ELSE Fault /\ excused' = excused \cup {r \in Rows : ~Ahead(r, from)}
       /\ run' = [run EXCEPT ![u] = [stage |-> "read", batch |-> {}, after |-> from]]
  /\ UNCHANGED <<arrived, inbox, cursor, failed>>
ReadBatch(u) ==
  LET batch == Batch(run[u].after)
  IN  /\ At(u, "read")
      /\ \/ /\ run' = [run EXCEPT ![u].stage = IF batch = {} THEN "save" ELSE "row",
                                  ![u].batch = batch]
            /\ Works
         \/ Fault /\ run' = [run EXCEPT ![u] = Idle]
      /\ UNCHANGED <<arrived, inbox, cursor, excused, failed>>

NextRow(u, outcome) ==
  LET r == First(run[u].batch)
      rest == run[u].batch \ {r}
  IN  run' = [run EXCEPT ![u].batch = rest,
                         ![u].stage = IF rest = {} THEN "save" ELSE "row",
                         ![u].after = IF Advances(outcome) THEN Later(Entry[r].ts, @) ELSE @]
\* A failed or skipped row is passed by; the rows after it go on.
Process(u) ==
  LET r == First(run[u].batch)
      key == Entry[r].key
  IN  /\ At(u, "row")
      /\ \/ /\ Mapped(r) = "text" /\ Works /\ inbox' = inbox \cup {key}
            /\ NextRow(u, IF key \in inbox THEN "duplicate" ELSE "ingested")
            /\ UNCHANGED <<excused, failed>>
         \/ Mapped(r) = "skipped" /\ Works /\ NextRow(u, "skipped")
            /\ UNCHANGED <<inbox, excused, failed>>
         \/ /\ \/ Mapped(r) = "failed" /\ Works
               \/ Mapped(r) = "text" /\ Fault
            /\ NextRow(u, "failed") /\ failed' = failed \cup {r}
            /\ excused' = excused \cup {r} /\ UNCHANGED inbox
      /\ UNCHANGED <<arrived, cursor>>

\* The cursor is saved as this run left it, whatever another run saved.
SaveCursor(u) ==
  /\ At(u, "save")
  /\ \/ cursor' = run[u].after /\ Works
     \/ Fault /\ UNCHANGED cursor
  /\ run' = [run EXCEPT ![u] = Idle]
  /\ UNCHANGED <<arrived, inbox, excused, failed>>

Die(u) ==
  /\ ~At(u, "idle") /\ Fault /\ run' = [run EXCEPT ![u] = Idle]
  /\ UNCHANGED <<arrived, inbox, cursor, excused, failed>>

\* The webhook stores a row.  One not later than a row already there is excused, and so
\* is the other of two at one time, between which a batch may end.
Arrive(r) ==
  /\ r \notin arrived /\ arrived' = arrived \cup {r} /\ Works
  /\ LET notEarlier == {q \in arrived : ~(Entry[q].ts < Entry[r].ts)}
     IN  excused' = excused \cup {q \in notEarlier : Entry[q].ts = Entry[r].ts}
                           \cup (IF notEarlier = {} THEN {} ELSE {r})
  /\ UNCHANGED <<inbox, cursor, run, failed>>

Next ==
  \/ \E u \in Runs : Start(u) \/ ReadBatch(u) \/ Process(u) \/ SaveCursor(u) \/ Die(u)
  \/ \E r \in Rows : Arrive(r)
\* The schedule starts a run again and again, and the platform carries one on.
Working(u) == Start(u) \/ ReadBatch(u) \/ Process(u) \/ SaveCursor(u)
Fairness == WF_vars(\E u \in Runs : Working(u))
Spec == Init /\ [][Next]_vars /\ Fairness

-----------------------------------------------------------------------------
(* Properties.                                                               *)

Texts == {r \in Rows : Entry[r].kind = "text"}
Settled(r) == r \in excused \/ Entry[r].key \in inbox

\* A message that arrived in order and did not fail gets to the inbox, though
\* runs overlap, cut their batches off, or die between the inbox and the cursor.
InboxCatchesUp == \A r \in Texts : r \in arrived ~> Settled(r)

\* A message that has still to get to the inbox is ahead of the saved cursor, as the
\* next run will read it: no batch, failed row, overlapping or dead run passes it by.
NothingIsPassedBy == \A r \in Texts \cap arrived : Settled(r) \/ Ahead(r, cursor)

\* A row that failed is still ahead of the cursor, for a later run to read.
FailedRowsAreKept ==
  \A r \in failed : Entry[r].key \in inbox \/ Ahead(r, cursor)
=============================================================================

------------------------ MODULE ZeroLossReconciliation ------------------------
(***************************************************************************)
(* The hourly search for messages that reached the system and went nowhere:  *)
(* one kept without a conversation message (an orphan), one whose packet     *)
(* never got a case (loose).  A run looks at a window of the messages' own   *)
(* times, once for its idempotency key, and records exceptions; the hourly   *)
(* one then gives stale packets a case.  People resolve exceptions and sign  *)
(* a run off.  Time is counted in units of ten minutes, and a packet is one  *)
(* message.                                                                  *)
(***************************************************************************)
EXTENDS Integers, FiniteSets

CONSTANTS Messages,
          Hour, Phase,   \* the scheduled run of hour h is at h * Hour + Phase
          Window,        \* what the scheduled run looks back
          MinAge,        \* a packet this old without a case is stale
          Windows,       \* what a service may ask for
          MaxLate,       \* how long a message may be under way
          MaxMissed,     \* bound on scheduled runs that do not happen
          Horizon        \* bound on the clock

ReconciliationAssumption ==
  /\ {Hour, Window, MinAge, MaxLate, MaxMissed, Horizon} \subseteq Nat
  /\ Phase \in 0..Hour - 1 /\ Hour <= Window
  /\ Windows \subseteq Nat \ {0}

VARIABLES now,
          state, sent, came,  \* of each message: its own time, and when it reached us
          runs,               \* idempotency keys of the recorded runs, and those signed off
          exceptions,         \* [key, message, kind, open]
          scheduled           \* hours whose scheduled run took place or was missed

vars == <<now, state, sent, came, runs, exceptions, scheduled>>
States == {"away", "orphan", "loose", "cased"}
Unsettled(m) == state[m] \in {"orphan", "loose"}
Cron == 0  \* the key of the scheduled run; a service's names its window
Keys == [by : {Cron} \cup Windows, hour : 0..Horizon \div Hour]
Exceptions == [key : Keys, message : Messages, kind : {"orphan", "loose"}, open : BOOLEAN]

TypeOK ==
  /\ now \in 0..Horizon /\ state \in [Messages -> States]
  /\ sent \in [Messages -> 0..Horizon] /\ came \in [Messages -> 0..Horizon]
  /\ \A m \in Messages : sent[m] <= came[m]
  /\ runs \in [Keys -> {"none", "aligned", "exceptions", "signed_off"}]
  /\ exceptions \subseteq Exceptions
  /\ \A e \in exceptions : runs[e.key] # "none" /\ (e.open => runs[e.key] = "exceptions")
  /\ scheduled \subseteq 0..Horizon \div Hour

Init ==
  /\ now = 0 /\ state = [m \in Messages |-> "away"]
  /\ sent = [m \in Messages |-> 0] /\ came = [m \in Messages |-> 0]
  /\ runs = [k \in Keys |-> "none"] /\ exceptions = {} /\ scheduled = {}

-----------------------------------------------------------------------------
(* Messages: sent, kept when they arrive, joined to a conversation, given a  *)
(* case; any of these may never happen.                                      *)

ThisHour == now \div Hour
Due == now % Hour = Phase /\ ThisHour \notin scheduled

Tick ==
  /\ now < Horizon /\ ~Due /\ now' = now + 1
  /\ UNCHANGED <<state, sent, came, runs, exceptions, scheduled>>
Arrive(m) ==
  /\ state[m] = "away"
  /\ \E s \in 0..now : now - s <= MaxLate /\ sent' = [sent EXCEPT ![m] = s]
  /\ came' = [came EXCEPT ![m] = now]
  /\ \E s \in {"orphan", "loose"} : state' = [state EXCEPT ![m] = s]
  /\ UNCHANGED <<now, runs, exceptions, scheduled>>
Settle(m) ==
  /\ Unsettled(m)
  /\ state' = [state EXCEPT ![m] = IF @ = "orphan" THEN "loose" ELSE "cased"]
  /\ UNCHANGED <<now, sent, came, runs, exceptions, scheduled>>

-----------------------------------------------------------------------------
(* Runs.                                                                     *)

(* Mutant: a run looks back to the one before it, without an overlap.        *)
Found_NoOverlap(width) ==
  {m \in Messages : Unsettled(m) /\ sent[m] >= now - (IF width > Hour THEN Hour ELSE width)
                                 /\ sent[m] < now}

\* The window is over the messages' own times, not over their arrival here.
Found(width) == {m \in Messages : Unsettled(m) /\ sent[m] >= now - width /\ sent[m] < now}

Key(by) == [by |-> by, hour |-> ThisHour]
\* A run with the same key is returned as it was; it looks at nothing again.
Recorded(k, found) ==
  IF runs[k] # "none" THEN {}
  ELSE {[key |-> k, message |-> m, kind |-> state[m], open |-> TRUE] : m \in found}
Run(k, found) ==
  runs' = [runs EXCEPT ![k] = IF @ # "none" THEN @
                              ELSE IF found = {} THEN "aligned" ELSE "exceptions"]

\* Cases for the stale packets whose rows nobody else has locked.
Stale == {m \in Messages : state[m] = "loose" /\ now - sent[m] >= MinAge}
\* One transaction: the run, the cases, and their exceptions resolved.
Scheduled ==
  \E given \in SUBSET Stale :
    /\ Run(Key(Cron), Found(Window))
    /\ state' = [m \in Messages |-> IF m \in given THEN "cased" ELSE state[m]]
    /\ exceptions' = {[e EXCEPT !.open = @ /\ ~(e.kind = "loose" /\ e.message \in given)] :
                         e \in exceptions \cup Recorded(Key(Cron), Found(Window))}
CronRun ==
  /\ Due /\ Scheduled /\ scheduled' = scheduled \cup {ThisHour}
  /\ UNCHANGED <<now, sent, came>>
\* The database is down, or any statement of the run raises: all of it is rolled back.
CronMissed ==
  /\ Due /\ scheduled' = scheduled \cup {ThisHour}
  /\ Cardinality({h \in scheduled : runs[[by |-> Cron, hour |-> h]] = "none"}) < MaxMissed
  /\ UNCHANGED <<now, state, sent, came, runs, exceptions>>
\* handleReconciliation, called by a service; it gives no cases.
ServiceRun(width) ==
  /\ Run(Key(width), Found(width))
  /\ exceptions' = exceptions \cup Recorded(Key(width), Found(width))
  /\ UNCHANGED <<now, state, sent, came, scheduled>>

Resolve(e) ==
  /\ e.open /\ exceptions' = (exceptions \ {e}) \cup {[e EXCEPT !.open = FALSE]}
  /\ UNCHANGED <<now, state, sent, came, runs, scheduled>>
SignOff(k) ==
  /\ runs[k] \notin {"none", "signed_off"} /\ \A e \in exceptions : e.key = k => ~e.open
  /\ runs' = [runs EXCEPT ![k] = "signed_off"]
  /\ UNCHANGED <<now, state, sent, came, exceptions, scheduled>>

Next ==
  \/ Tick \/ CronRun \/ CronMissed
  \/ \E m \in Messages : Arrive(m) \/ Settle(m)
  \/ \E width \in Windows : ServiceRun(width)
  \/ \E e \in exceptions : Resolve(e)
  \/ \E k \in Keys : SignOff(k)
Spec == Init /\ [][Next]_vars

-----------------------------------------------------------------------------
(* Properties.                                                               *)

\* A message that is still unsettled after the scheduled runs of its hours is on
\* record, if it was under way no longer than the windows overlap and the first run
\* after its arrival took place; whatever services, operators and key reuse did.
LossesAreOnRecord ==
  \A m \in Messages :
    LET after == {h \in scheduled : h * Hour + Phase > came[m]}
        first == CHOOSE h \in after : \A g \in after : h <= g
    IN  /\ Unsettled(m) /\ came[m] - sent[m] <= Window - Hour /\ after # {}
        /\ runs[[by |-> Cron, hour |-> first]] # "none"
        => \E e \in exceptions : e.message = m
=============================================================================

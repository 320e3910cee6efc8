----------------------------- MODULE ServiceProofs -----------------------------
(***************************************************************************)
(* Proofs about eight services that share no state with the dispatch queue,   *)
(* one section each: the service is an instance, its invariant and lemmas    *)
(* follow, and its theorem holds for every value of its constants.  The      *)
(* instances take variables of one name, as the services' theorems speak of  *)
(* one service at a time; a constant bears the service's name where two      *)
(* services differ in its value.                                             *)
(***************************************************************************)
EXTENDS Integers, Sequences, SequenceTheorems, FiniteSetTheorems, WellFoundedInduction,
        TLAPS

CONSTANTS MaxAttempts, Delays, Budgets, None, RetryMaxLate, RetryHorizon,
          Phones, SessionRequests, Workers, MaxIdentities, SessionMaxFaults,
          SessionMaxLate, Companies, gst, name, Numbers, Names, Senders, phones,
          exactPhones, staff, proxies, CustomerMessages, CustomerWorkers, CustomerMaxFaults,
          MaxChanges, Actors, ActorRole, Emails, Others, Roles, StepUp,
          ProvisionRequests, PerPage, ProvisionMaxFaults, HourlyMessages, Hour,
          Phase, Window, MinAge, Windows, HourlyMaxLate, MaxMissed,
          HourlyHorizon, Manifest, Mandatory, Kind, NonOrder, NonOrderMin, Outside,
          CertOwned, MayLeave, Replays, MaxDrain, CertMaxFaults, Rows, Entry, Runs,
          Overrides, BatchLimit, InboxMaxFaults, Products, ResolutionRows, AliasRows,
          MaxAliases

VARIABLES budget, lenient, now, stage, attempt, due, running, last, result,
          identity, created, owner, eligible, worker, minted, faults, late,
          active, auth, disputed, changes, identities, grants, orphaned, state,
          sent, came, runs, exceptions, scheduled, queue, leased, outcome, run,
          verdict, arrived, inbox, cursor, excused, failed, row, aliases, vague,
          rounding, answers

(* One integration call under its retry budget.                            *)
Retry == INSTANCE BoundedRetry WITH
    MaxLate <- RetryMaxLate, Horizon <- RetryHorizon
(* msg91-session-bridge: a phone and the identity it logs in with.         *)
Session == INSTANCE SessionBridge WITH
    Requests <- SessionRequests, MaxFaults <- SessionMaxFaults,
    MaxLate <- SessionMaxLate
(* Customer identity: the company a message belongs to.                    *)
Customer == INSTANCE CustomerIdentity WITH
    Messages <- CustomerMessages, Workers <- CustomerWorkers,
    MaxFaults <- CustomerMaxFaults
(* admin-provision-user: staff granting identities and roles.              *)
Provision == INSTANCE AdminProvision WITH
    Requests <- ProvisionRequests, MaxFaults <- ProvisionMaxFaults
(* The hourly search for messages that went nowhere.                       *)
Hourly == INSTANCE ZeroLossReconciliation WITH
    Messages <- HourlyMessages, MaxLate <- HourlyMaxLate,
    Horizon <- HourlyHorizon
(* A preview's certification on the shared dispatch queue.                 *)
Preview == INSTANCE PreviewCertification WITH
    MaxFaults <- CertMaxFaults
(* The studio inbox bridge: rows copied behind a cursor.                   *)
Inbox == INSTANCE InboxBridge WITH
    MaxFaults <- InboxMaxFaults
(* The product a message names, over rows in any order.                    *)
Resolution == INSTANCE ProductResolution WITH
    Rows <- ResolutionRows

-----------------------------------------------------------------------------
(* One integration call under its retry budget.                            *)

(* While a caller with a budget waits, something is due by the end of it, and *)
(* time does not run further than MaxLate past what is due.                  *)
TimersInBudget ==
  budget # None /\ stage # "done" => due \in Nat /\ due <= budget /\ now <= due + RetryMaxLate

(* Only the operation the loop waits for has not been told to stop.          *)
OthersAborted ==
  \A o \in running : ~o.aborted => stage = "call" /\ o.attempt = attempt

RetryInv == Retry!TypeOK /\ TimersInBudget /\ OthersAborted

(* The pause before the next attempt is a number.                            *)
LEMMA DelayType ==
  ASSUME Retry!RetryAssumption, attempt \in Nat
  PROVE  Retry!Delay \in Nat
<1>1. CASE Delays = <<>>
  BY <1>1 DEF Retry!Delay
<1>2. CASE Delays # <<>>
  <2>1. Len(Delays) \in Nat \ {0} /\ \A n \in 1..Len(Delays) : Delays[n] \in Nat
    BY <1>2 DEF Retry!RetryAssumption
  <2>2. (IF attempt < Len(Delays) THEN attempt + 1 ELSE Len(Delays)) \in 1..Len(Delays)
    BY <2>1
  <2> QED BY <1>2, <2>1, <2>2 DEF Retry!Delay
<1> QED BY <1>1, <1>2

(* The initial state satisfies the invariant.                                *)
LEMMA RetryStarts ==
  ASSUME Retry!RetryAssumption, Retry!Init
  PROVE  RetryInv
BY DEF Retry!Init, RetryInv, Retry!TypeOK, TimersInBudget, OthersAborted, Retry!Errors,
       Retry!RetryAssumption

(* What the loop does with an error keeps the parts of the invariant that do  *)
(* not speak of the operations, whatever the error and the stage it came in.  *)
LEMMA CaughtKeeps ==
  ASSUME Retry!RetryAssumption, Retry!TypeOK, NEW error \in Retry!Errors, Retry!Caught(error),
         stage = "call", UNCHANGED <<budget, lenient, now>>,
         running' \subseteq [attempt: 0..MaxAttempts - 1, aborted: BOOLEAN]
  PROVE  Retry!TypeOK' /\ TimersInBudget'
<1>1. Retry!Delay \in Nat
  BY DelayType DEF Retry!TypeOK, Retry!RetryAssumption
<1>2. CASE ~Retry!Retryable(error) \/ attempt = MaxAttempts - 1 \/ Retry!Overdue(Retry!Delay)
  <2>1. Retry!End(error)
    BY <1>2 DEF Retry!Caught, Retry!LastAttempt
  <2> QED BY <2>1 DEF Retry!End, Retry!TypeOK, TimersInBudget, Retry!Errors
<1>3. CASE ~(~Retry!Retryable(error) \/ attempt = MaxAttempts - 1 \/ Retry!Overdue(Retry!Delay))
  <2>1. /\ last' = error /\ attempt' = attempt + 1 /\ stage' = "sleep"
        /\ due' = now + Retry!Delay /\ UNCHANGED result
    BY <1>3 DEF Retry!Caught, Retry!LastAttempt
  <2>2. ~(budget # None /\ now + Retry!Delay >= budget) /\ attempt # MaxAttempts - 1
    BY <1>3 DEF Retry!Overdue
  <2>3. attempt + 1 \in 0..MaxAttempts - 1
    BY <2>2 DEF Retry!TypeOK, Retry!RetryAssumption
  <2>4. Retry!TypeOK'
    BY <1>1, <2>1, <2>3 DEF Retry!TypeOK, Retry!Errors, Retry!RetryAssumption
  <2>5. TimersInBudget'
    BY <1>1, <2>1, <2>2 DEF Retry!TypeOK, TimersInBudget, Retry!RetryAssumption
  <2> QED BY <2>4, <2>5
<1> QED BY <1>2, <1>3

(* Every step keeps the invariant.                                           *)
LEMMA RetryKeeps ==
  ASSUME Retry!RetryAssumption, RetryInv, [Retry!Next]_(Retry!vars)
  PROVE  RetryInv'
<1> USE DEF RetryInv
<1>1. CASE Retry!Begin
  <2>1. CASE budget # None /\ Retry!Remaining <= 0
    <3>1. Retry!End(IF last = "none" THEN "budget" ELSE last) /\ UNCHANGED running
      BY <1>1, <2>1 DEF Retry!Begin
    <3> QED BY <1>1, <3>1
      DEF Retry!Begin, Retry!End, Retry!TypeOK, TimersInBudget, OthersAborted, Retry!Errors
  <2>2. CASE ~(budget # None /\ Retry!Remaining <= 0)
    <3>1. /\ stage' = "call" /\ due' = IF budget = None THEN None ELSE now + Retry!Remaining
          /\ running' = running \cup {[attempt |-> attempt, aborted |-> FALSE]}
          /\ UNCHANGED <<attempt, last, result>> /\ UNCHANGED <<budget, lenient, now>>
          /\ stage = "attempt"
      BY <1>1, <2>2 DEF Retry!Begin
    <3>2. budget # None => due' = budget /\ now < budget
      BY <2>2, <3>1 DEF Retry!Remaining, Retry!TypeOK, Retry!RetryAssumption
    <3>3. Retry!TypeOK'
      <4>1. due' \in Nat \cup {None} /\ stage' = "call" /\ result' = result
        BY <3>1, <3>2 DEF Retry!TypeOK, Retry!RetryAssumption
      <4>2. running' \subseteq [attempt: 0..MaxAttempts - 1, aborted: BOOLEAN]
        <5>1. [attempt |-> attempt, aborted |-> FALSE]
                \in [attempt: 0..MaxAttempts - 1, aborted: BOOLEAN]
          BY DEF Retry!TypeOK
        <5>2. running \subseteq [attempt: 0..MaxAttempts - 1, aborted: BOOLEAN]
          BY DEF Retry!TypeOK
        <5> QED BY <3>1, <5>1, <5>2
      <4>3. UNCHANGED <<budget, lenient, now, attempt, last>> /\ stage = "attempt"
        BY <3>1
      <4> QED BY <4>1, <4>2, <4>3 DEF Retry!TypeOK, Retry!Errors
    <3>4. TimersInBudget'
      BY <3>1, <3>2 DEF Retry!TypeOK, TimersInBudget, Retry!RetryAssumption
    <3>5. OthersAborted'
      BY <3>1 DEF OthersAborted
    <3> QED BY <3>3, <3>4, <3>5
  <2> QED BY <2>1, <2>2
<1>2. ASSUME NEW end \in {"value", "retryable", "permanent"}, Retry!Settle(end)
      PROVE  RetryInv'
  <2>1. running' = running \ Retry!Current /\ stage = "call" /\ UNCHANGED <<budget, lenient, now>>
    BY <1>2 DEF Retry!Settle
  <2>2. OthersAborted'
    BY <2>1 DEF OthersAborted, Retry!Current
  <2>3. running' \subseteq [attempt: 0..MaxAttempts - 1, aborted: BOOLEAN]
    BY <2>1 DEF Retry!TypeOK
  <2>4. Retry!End("value") \/ \E error \in Retry!Errors : Retry!Caught(error)
    BY <1>2 DEF Retry!Settle, Retry!Errors
  <2>5. CASE Retry!End("value")
    <3>1. Retry!TypeOK'
      BY <2>1, <2>3, <2>5 DEF Retry!End, Retry!TypeOK
    <3>2. TimersInBudget'
      BY <2>5 DEF Retry!End, TimersInBudget
    <3> QED BY <2>2, <3>1, <3>2
  <2>6. ASSUME NEW error \in Retry!Errors, Retry!Caught(error)
        PROVE  RetryInv'
    BY <2>1, <2>2, <2>3, <2>6, CaughtKeeps
  <2> QED BY <2>4, <2>5, <2>6
<1>3. CASE Retry!TimeOut
  <2>1. /\ running' = {[o EXCEPT !.aborted = TRUE] : o \in running}
        /\ Retry!Caught("budget") /\ stage = "call" /\ UNCHANGED <<budget, lenient, now>>
    BY <1>3 DEF Retry!TimeOut
  <2>2. \A o \in running' : o \in [attempt: 0..MaxAttempts - 1, aborted: BOOLEAN] /\ o.aborted
    BY <2>1 DEF Retry!TypeOK
  <2>3. OthersAborted'
    BY <2>2 DEF OthersAborted
  <2> QED BY <2>1, <2>2, <2>3, CaughtKeeps DEF Retry!Errors
<1>4. CASE Retry!Wake
  BY <1>4 DEF Retry!Wake, Retry!TypeOK, TimersInBudget, OthersAborted
<1>5. ASSUME NEW o \in running, Retry!Leave(o)
      PROVE  RetryInv'
  BY <1>5 DEF Retry!Leave, Retry!TypeOK, TimersInBudget, OthersAborted
<1>6. CASE Retry!Tick
  <2>1. /\ now < RetryHorizon /\ now' = now + 1 /\ (due # None => now < due + RetryMaxLate)
        /\ UNCHANGED <<budget, lenient, stage, attempt, due, running, last, result>>
    BY <1>6 DEF Retry!Tick
  <2>2. Retry!TypeOK'
    BY <2>1 DEF Retry!TypeOK, Retry!RetryAssumption
  <2>3. TimersInBudget'
    BY <2>1 DEF Retry!TypeOK, TimersInBudget, Retry!RetryAssumption
  <2> QED BY <2>1, <2>2, <2>3 DEF OthersAborted
<1>7. CASE UNCHANGED Retry!vars
  BY <1>7 DEF Retry!vars, Retry!TypeOK, TimersInBudget, OthersAborted
<1> QED BY <1>1, <1>2, <1>3, <1>4, <1>5, <1>6, <1>7 DEF Retry!Next

(* Attempts, timers and abandoned operations are always well formed.         *)
THEOREM RetryTypeCorrect == ASSUME Retry!RetryAssumption PROVE Retry!Spec => []Retry!TypeOK
<1>1. Retry!Init => RetryInv
  BY RetryStarts
<1>2. RetryInv /\ [Retry!Next]_(Retry!vars) => RetryInv'
  BY RetryKeeps
<1>3. RetryInv => Retry!TypeOK
  BY DEF RetryInv
<1> QED BY <1>1, <1>2, <1>3, PTL DEF Retry!Spec

(* executeWithBoundedRetry answers by the end of its total budget, at most     *)
(* MaxLate later, and leaves no operation behind that was not told to stop.  *)
THEOREM BudgetsAreKept == ASSUME Retry!RetryAssumption PROVE Retry!Spec => []Retry!BudgetIsKept
<1>1. Retry!Init => RetryInv
  BY RetryStarts
<1>2. RetryInv /\ [Retry!Next]_(Retry!vars) => RetryInv'
  BY RetryKeeps
<1>3. RetryInv => Retry!BudgetIsKept
  BY DEF RetryInv, Retry!TypeOK, TimersInBudget, OthersAborted, Retry!BudgetIsKept,
         Retry!RetryAssumption
<1> QED BY <1>1, <1>2, <1>3, PTL DEF Retry!Spec

-----------------------------------------------------------------------------
(* msg91-session-bridge: a phone and the identity it logs in with.         *)

\* The stages of a worker whose identity is not bound yet, as far as it knows.
Held == {"reconcile", "state", "cleanup"}
\* No reconciliation will ever bind this identity.
Lost(p, id) == identity[p] # id \/ (owner[p] = 0 /\ p \notin eligible)

\* What is known of a worker.  Whoever gives up on a reconciliation that still runs
\* has seen it refused for good, and only then cleans up.
LoginFits(h) ==
  h # Session!Idle => LET p == h.request.phone IN
    /\ h.stage = "create" => h.attempt = 1
    /\ h.stage \in Held => h.id # 0 /\ h.id <= created[p]
    /\ h.stage \in {"reconcile", "state"} => identity[p] = h.id
    /\ h.stage = "mint" => h.id # 0 /\ owner[p] = h.id
    /\ h.stage = "reconcile" /\ h.attempt # 1 /\ late + faults = 0 => Lost(p, h.id)
    /\ h.stage = "state" /\ Session!Calm /\ <<p, h.id>> \in running => owner[p] = h.id \/ Lost(p, h.id)
    /\ h.stage = "cleanup" /\ Session!Calm =>
         owner[p] # h.id /\ (<<p, h.id>> \in running => Lost(p, h.id))
LoginsFit == \A w \in Workers : LoginFits(worker[w])
\* An identity is in the hands of one worker.
HeldApart ==
  \A v, w \in Workers :
    v # w /\ worker[v].stage \in Held /\ worker[w].stage \in Held
      /\ Session!Phone(v) = Session!Phone(w) =>
      worker[v].id # worker[w].id
LateIsCounted == late = 0 => running = {}
MintedIsBound == \A x \in minted : x[2] # 0 /\ owner[x[1]] = x[2]
BoundExists == Session!Calm => \A p \in Phones : owner[p] # 0 => identity[p] = owner[p]
SessionInv ==
  Session!TypeOK /\ LoginsFit /\ HeldApart /\ LateIsCounted /\ MintedIsBound /\ BoundExists

\* A worker is at one phone.
LEMMA PhoneType ==
  ASSUME Session!BridgeAssumption, Session!TypeOK, NEW w \in Workers, worker[w] # Session!Idle
  PROVE  worker[w] \in Session!Working /\ Session!Phone(w) \in Phones
<1>1. worker[w] \in Session!Working BY DEF Session!TypeOK
<1>2. worker[w].request \in SessionRequests BY <1>1 DEF Session!Working
<1> QED BY <1>1, <1>2 DEF Session!BridgeAssumption, Session!Phone

\* A worker between two stages is not idle.
LEMMA StageType ==
  ASSUME Session!TypeOK, NEW w \in Workers, worker[w].stage # "idle"
  PROVE  worker[w] \in Session!Working /\ worker[w] # Session!Idle
BY DEF Session!TypeOK, Session!Idle, Session!Working

\* What a step does to one worker; the others stay.
Steps(w, h) ==
  /\ h \in Session!Working \cup {Session!Idle}
  /\ worker' = [worker EXCEPT ![w] = h]

\* The tables move forward only: identities are numbered, a bound phone stays bound,
\* failures are counted.
Forward ==
  /\ \A p \in Phones : created[p] <= created'[p]
  /\ \A p \in Phones : owner[p] # 0 => owner'[p] = owner[p]
  /\ late <= late' /\ faults <= faults' /\ eligible' \subseteq eligible

\* What a step must leave alone for the worker h, which takes no part in it.
Spared(h) ==
  LET p == h.request.phone IN
  /\ h.stage \in {"reconcile", "state"} => identity'[p] = identity[p]
  /\ identity'[p] # identity[p] => identity'[p] # h.id
  /\ owner[p] = 0 /\ p \notin eligible => owner'[p] = 0
  /\ h.stage = "cleanup" /\ Session!Calm => owner'[p] # h.id
  /\ h.stage \in Held /\ <<p, h.id>> \in running' => <<p, h.id>> \in running

\* A sum of what is counted does not shrink.
LEMMA SumsGrow ==
  \A a, b, c, d \in Nat : a <= c /\ b <= d =>
    /\ c = 0 => a = 0
    /\ c + d = 0 => a + b = 0
    /\ c + d <= 1 => a + b <= 1
OBVIOUS

\* Faults and late reconciliations are only counted up: calm now, calm before.
LEMMA CalmBefore ==
  ASSUME Session!BridgeAssumption, Session!TypeOK, Session!TypeOK', Forward, Session!Calm'
  PROVE  Session!Calm
<1>1. late \in Nat /\ late' \in Nat /\ faults \in Nat /\ faults' \in Nat
  BY DEF Session!TypeOK, Session!BridgeAssumption
<1>2. late <= late' /\ faults <= faults' BY DEF Forward
<1> QED BY <1>1, <1>2, SumsGrow DEF Session!Calm

\* A worker that takes no part in a step still fits.
LEMMA SparedFits ==
  ASSUME Session!BridgeAssumption, Session!TypeOK, Session!TypeOK', Forward,
         NEW h \in Session!Working, h.request.phone \in Phones,
         LoginFits(h), h.stage \in Held => Spared(h)
  PROVE  LoginFits(h)'
<1> DEFINE p == h.request.phone
<1>0. h # Session!Idle BY DEF Session!Working, Session!Idle
<1>1. /\ h.id \in Nat /\ created[p] \in Nat /\ created'[p] \in Nat
      /\ late \in Nat /\ late' \in Nat /\ faults \in Nat /\ faults' \in Nat
  BY DEF Session!Working, Session!TypeOK, Session!BridgeAssumption
<1>2. h.stage \in Held => h.id # 0 /\ h.id <= created'[p]
  BY <1>0, <1>1 DEF LoginFits, Forward
<1>3. h.stage \in {"reconcile", "state"} => identity'[p] = h.id
  BY <1>0 DEF LoginFits, Spared, Held
<1>4. h.stage = "mint" => h.id # 0 /\ owner'[p] = h.id
  BY <1>0 DEF LoginFits, Forward
<1>5. h.stage \in Held /\ Lost(p, h.id) => Lost(p, h.id)'
  BY <1>0 DEF Lost, Spared, Forward
<1>6. h.stage = "reconcile" /\ h.attempt # 1 /\ late' + faults' = 0 => Lost(p, h.id)'
  <2>1. late <= late' /\ faults <= faults' BY DEF Forward
  <2>2. late' + faults' = 0 => late + faults = 0 BY <1>1, <2>1, SumsGrow
  <2> QED BY <1>0, <1>5, <2>2 DEF LoginFits, Held
<1>7. h.stage = "state" /\ Session!Calm' /\ <<p, h.id>> \in running' => owner'[p] = h.id \/ Lost(p, h.id)'
  BY <1>0, <1>2, <1>5, CalmBefore DEF LoginFits, Forward, Held, Spared
<1>8. h.stage = "cleanup" /\ Session!Calm' =>
        owner'[p] # h.id /\ (<<p, h.id>> \in running' => Lost(p, h.id)')
  BY <1>0, <1>2, <1>5, CalmBefore DEF LoginFits, Held, Spared
<1> QED BY <1>0, <1>2, <1>3, <1>4, <1>6, <1>7, <1>8 DEF LoginFits, Lost

\* One worker steps and the others are spared.
LEMMA StepKeeps ==
  ASSUME Session!BridgeAssumption, SessionInv, Session!TypeOK', NEW w \in Workers, NEW h,
         Steps(w, h), Forward,
         LoginFits(h)', LateIsCounted', MintedIsBound', BoundExists',
         \A v \in Workers : v # w /\ worker[v].stage \in Held => Spared(worker[v]),
         h.stage \in Held =>
           \A v \in Workers : v # w /\ worker[v].stage \in Held /\ Session!Phone(v) = h.request.phone =>
             worker[v].id # h.id
  PROVE  SessionInv'
<1>1. worker'[w] = h /\ \A v \in Workers : v # w => worker'[v] = worker[v]
  BY DEF Steps, SessionInv, Session!TypeOK
<1>2. ASSUME NEW v \in Workers, v # w PROVE LoginFits(worker[v])'
  <2>1. worker'[v] = worker[v] BY <1>1, <1>2
  <2>2. CASE worker[v] = Session!Idle BY <2>1, <2>2 DEF LoginFits, Session!Idle
  <2>3. CASE worker[v] # Session!Idle
    <3>1. worker[v] \in Session!Working /\ worker[v].request.phone \in Phones
      BY <2>3, PhoneType DEF SessionInv, Session!Phone
    <3>2. LoginFits(worker[v]) BY DEF SessionInv, LoginsFit
    <3> PICK g \in Session!Working : g = worker[v] BY <3>1
    <3>4. worker'[v] = g BY <2>1
    <3>5. LoginFits(g) BY <3>2
    <3>7. LoginFits(g)' BY <1>2, <3>1, <3>5, SparedFits DEF SessionInv
    <3> QED BY <3>4, <3>7 DEF LoginFits, Lost
  <2> QED BY <2>2, <2>3
<1>3. LoginsFit'
  <2> SUFFICES ASSUME NEW v \in Workers PROVE LoginFits(worker[v])'
    BY DEF LoginsFit
  <2>1. CASE v = w BY <1>1, <2>1 DEF LoginFits, Lost
  <2> QED BY <1>2, <2>1
<1>4. HeldApart'
  BY <1>1 DEF HeldApart, SessionInv, Session!Phone
<1> QED BY <1>3, <1>4 DEF SessionInv

\* Failures and calls that nobody waits for are counted, and none is forgotten.
LEMMA Counted ==
  ASSUME Session!BridgeAssumption, Session!TypeOK, Session!Works \/ Session!Fault
  PROVE  /\ faults <= faults' /\ faults \in Nat /\ faults' \in Nat /\ late \in Nat
         /\ faults' \in 0..SessionMaxFaults /\ (Session!Fault => faults' = faults + 1)
BY DEF Session!TypeOK, Session!BridgeAssumption, Session!Works, Session!Fault

\* A step of one worker that changes neither the tables nor what runs late.
LEMMA SessionQuietKeeps ==
  ASSUME Session!BridgeAssumption, SessionInv, NEW w \in Workers, NEW h, Steps(w, h),
         UNCHANGED <<Session!Rows, running, late>>, Session!Works \/ Session!Fault,
         minted' \subseteq Phones \X Session!Ids, LoginFits(h)', MintedIsBound',
         h.stage \in Held => /\ worker[w].stage \in Held
                             /\ h.request = worker[w].request /\ h.id = worker[w].id
  PROVE  SessionInv'
<1>1. UNCHANGED <<identity, created, owner, eligible>> BY DEF Session!Rows
<1>2. faults <= faults' /\ faults' \in 0..SessionMaxFaults /\ faults \in Nat /\ faults' \in Nat /\ late \in Nat
  BY Counted DEF SessionInv
<1>3. Session!TypeOK'
  BY <1>1, <1>2 DEF SessionInv, Session!TypeOK, Steps
<1>4. \A p \in Phones : created[p] \in Nat
  BY DEF SessionInv, Session!TypeOK, Session!BridgeAssumption
<1>5. Forward
  BY <1>1, <1>2, <1>4 DEF Forward
<1>6. \A v \in Workers : Spared(worker[v])
  BY <1>1 DEF Spared, SessionInv, LoginsFit, LoginFits, Held, Session!Idle
<1>7. LateIsCounted' BY DEF SessionInv, LateIsCounted
<1>8. BoundExists' BY <1>1, <1>3, <1>5, CalmBefore DEF SessionInv, BoundExists
<1>9. h.stage \in Held =>
        \A v \in Workers : v # w /\ worker[v].stage \in Held /\ Session!Phone(v) = h.request.phone =>
          worker[v].id # h.id
  BY DEF SessionInv, HeldApart, Session!Phone
<1> QED BY <1>3, <1>5, <1>6, <1>7, <1>8, <1>9, StepKeeps

\* A worker's state after a step, field by field.
LEMMA Moved ==
  ASSUME Session!TypeOK, NEW w \in Workers, NEW g \in Session!Working, g = worker[w], NEW s, NEW i
  PROVE  /\ Session!Goto(w, s) => worker' = [worker EXCEPT ![w] =
              [stage |-> s, request |-> g.request, id |-> g.id, attempt |-> 1]]
         /\ Session!Take(w, s, i) => worker' = [worker EXCEPT ![w] =
              [stage |-> s, request |-> g.request, id |-> i, attempt |-> g.attempt]]
         /\ Session!Again(w) => worker' = [worker EXCEPT ![w] =
              [stage |-> g.stage, request |-> g.request, id |-> g.id, attempt |-> g.attempt + 1]]
<1> DEFINE n == 1
           m == g.attempt + 1
<1>1. [g EXCEPT !.stage = s] =
        [stage |-> s, request |-> g.request, id |-> g.id, attempt |-> g.attempt]
  BY DEF Session!Working
<1>2. [[stage |-> s, request |-> g.request, id |-> g.id, attempt |-> g.attempt]
         EXCEPT !.attempt = n] =
        [stage |-> s, request |-> g.request, id |-> g.id, attempt |-> n]
  OBVIOUS
<1>3. [[stage |-> s, request |-> g.request, id |-> g.id, attempt |-> g.attempt]
         EXCEPT !.id = i] =
        [stage |-> s, request |-> g.request, id |-> i, attempt |-> g.attempt]
  OBVIOUS
<1>4. [g EXCEPT !.stage = s, !.attempt = n] = [[g EXCEPT !.stage = s] EXCEPT !.attempt = n]
  OBVIOUS
<1>5. [g EXCEPT !.stage = s, !.id = i] = [[g EXCEPT !.stage = s] EXCEPT !.id = i]
  OBVIOUS
<1>6. [g EXCEPT !.attempt = m] =
        [stage |-> g.stage, request |-> g.request, id |-> g.id, attempt |-> m]
  BY DEF Session!Working
<1>7. Session!Goto(w, s) => worker' = [worker EXCEPT ![w] = [g EXCEPT !.stage = s, !.attempt = 1]]
  BY DEF Session!Goto, Session!TypeOK
<1>8. Session!Take(w, s, i) => worker' = [worker EXCEPT ![w] = [g EXCEPT !.stage = s, !.id = i]]
  BY DEF Session!Take, Session!TypeOK
<1>9. Session!Again(w) => worker' = [worker EXCEPT ![w] = [g EXCEPT !.attempt = g.attempt + 1]]
  BY DEF Session!Again, Session!TypeOK
<1> QED BY <1>1, <1>2, <1>3, <1>4, <1>5, <1>6, <1>7, <1>8, <1>9

\* Each step of a login keeps the invariant.
LEMMA SessionAcceptKeeps ==
  ASSUME Session!BridgeAssumption, SessionInv, NEW w \in Workers, NEW r \in SessionRequests,
         Session!Accept(w, r)
  PROVE  SessionInv'
<1> DEFINE h == [stage |-> "legacy", request |-> r, id |-> 0, attempt |-> 1]
<1>1. h \in Session!Working BY DEF Session!Working, Session!Stages, Session!BridgeAssumption
<1>2. LoginFits(h)' BY DEF LoginFits, Held
<1> QED
  BY <1>1, <1>2, SessionQuietKeeps
  DEF Session!Accept, Steps, Held, SessionInv, Session!TypeOK, MintedIsBound, Session!Rows

\* The legacy table answers for a bound phone, or the provider is asked.
LEMMA AskLegacyKeeps ==
  ASSUME Session!BridgeAssumption, SessionInv, NEW w \in Workers, Session!AskLegacy(w)
  PROVE  SessionInv'
<1>1. worker[w].stage = "legacy" BY DEF Session!AskLegacy, Session!At
<1> PICK g \in Session!Working : g = worker[w] /\ g # Session!Idle BY <1>1, StageType DEF SessionInv
<1> DEFINE p == g.request.phone
<1>2. p \in Phones /\ Session!Phone(w) = p /\ owner[p] \in 0..MaxIdentities
  BY PhoneType DEF SessionInv, Session!Phone, Session!TypeOK
<1> PICK o \in 0..MaxIdentities : o = owner[p] BY <1>2
<1> DEFINE there == [stage |-> "provider", request |-> g.request, id |-> g.id, attempt |-> 1]
           token == [stage |-> "mint", request |-> g.request, id |-> o, attempt |-> g.attempt]
<1>3. there \in Session!Working /\ token \in Session!Working BY DEF Session!Working, Session!Stages
<1> HIDE DEF there, token
<1>4. UNCHANGED <<Session!Rows, running, late>> /\ (Session!Works \/ Session!Fault)
  BY DEF Session!AskLegacy
<1>5. UNCHANGED owner BY <1>4 DEF Session!Rows
<1>6. CASE Session!End(w)
  <2>1. Steps(w, Session!Idle) /\ LoginFits(Session!Idle)' BY <1>6 DEF Session!End, Steps, LoginFits
  <2>2. minted' = minted \/ (owner[p] # 0 /\ minted' = minted \cup {<<p, owner[p]>>})
    BY <1>1, <1>2 DEF Session!AskLegacy, Session!Linked, Session!Login
  <2>3. minted' \subseteq Phones \X Session!Ids
    BY <1>2, <2>2 DEF SessionInv, Session!TypeOK, Session!Ids, Session!BridgeAssumption
  <2>4. MintedIsBound' BY <1>5, <2>2 DEF SessionInv, MintedIsBound
  <2> QED BY <1>4, <2>1, <2>3, <2>4, SessionQuietKeeps DEF Held, Session!Idle
<1>7. CASE Session!Goto(w, "provider") /\ UNCHANGED minted
  <2>1. there.stage = "provider" BY DEF there
  <2>2. LoginFits(there)' BY <2>1 DEF LoginFits, Held
  <2>5. Steps(w, there) BY <1>3, <1>7, Moved DEF Steps, SessionInv, there
  <2>4. MintedIsBound' BY <1>5, <1>7 DEF SessionInv, MintedIsBound
  <2> QED
    BY <1>4, <1>7, <2>1, <2>2, <2>4, <2>5, SessionQuietKeeps
    DEF Held, SessionInv, Session!TypeOK
<1>8. CASE Session!Linked(p) /\ Session!Take(w, "mint", o) /\ UNCHANGED minted
  <2>1. token.stage = "mint" /\ token.id = o /\ token.request = g.request BY DEF token
  <2>2. LoginFits(token)' BY <1>5, <1>8, <2>1 DEF LoginFits, Held, Session!Linked
  <2>5. Steps(w, token) BY <1>3, <1>8, Moved DEF Steps, SessionInv, token
  <2>4. MintedIsBound' BY <1>5, <1>8 DEF SessionInv, MintedIsBound
  <2> QED
    BY <1>4, <1>8, <2>1, <2>2, <2>4, <2>5, SessionQuietKeeps
    DEF Held, SessionInv, Session!TypeOK
<1> QED BY <1>2, <1>6, <1>7, <1>8 DEF Session!AskLegacy

\* Steps that end a worker, or send it on before it has an identity.
LEMMA GoesOn ==
  ASSUME Session!BridgeAssumption, SessionInv, NEW w \in Workers, worker[w].stage # "idle",
         NEW next \in {"provider", "inspect", "create"},
         UNCHANGED <<Session!Rows, running, minted, late>>, Session!Works \/ Session!Fault,
         Session!End(w) \/ Session!Goto(w, next)
  PROVE  SessionInv'
<1> PICK g \in Session!Working : g = worker[w] /\ g # Session!Idle BY StageType DEF SessionInv
<1> DEFINE there == [stage |-> next, request |-> g.request, id |-> g.id, attempt |-> 1]
<1>1. there \in Session!Working /\ there.stage = next /\ there.attempt = 1
  BY DEF Session!Working, Session!Stages
<1>2. UNCHANGED owner BY DEF Session!Rows
<1>3. minted' \subseteq Phones \X Session!Ids /\ MintedIsBound'
  BY <1>2 DEF SessionInv, Session!TypeOK, MintedIsBound
<1>4. CASE Session!End(w)
  <2>1. Steps(w, Session!Idle) /\ LoginFits(Session!Idle)' BY <1>4 DEF Session!End, Steps, LoginFits
  <2> QED BY <1>3, <2>1, SessionQuietKeeps DEF Held, Session!Idle
<1>5. CASE Session!Goto(w, next)
  <2>1. Steps(w, there) BY <1>1, <1>5, Moved DEF Steps, SessionInv
  <2> HIDE DEF there
  <2>2. LoginFits(there)' BY <1>1 DEF LoginFits, Held
  <2> QED BY <1>1, <1>3, <2>1, <2>2, SessionQuietKeeps DEF Held
<1> QED BY <1>4, <1>5

\* The provider has the number verified, or the login ends.
LEMMA AskProviderKeeps ==
  ASSUME Session!BridgeAssumption, SessionInv, NEW w \in Workers, Session!AskProvider(w)
  PROVE  SessionInv'
BY GoesOn DEF Session!AskProvider, Session!At

\* An eligible placeholder goes on to an identity of its own.
LEMMA InspectKeeps ==
  ASSUME Session!BridgeAssumption, SessionInv, NEW w \in Workers, Session!Inspect(w)
  PROVE  SessionInv'
BY GoesOn DEF Session!Inspect, Session!At

\* What a lost invocation held stays as it was.
LEMMA SessionCrashKeeps ==
  ASSUME Session!BridgeAssumption, SessionInv, NEW w \in Workers, Session!Crash(w) PROVE SessionInv'
BY GoesOn DEF Session!Crash, Session!At

\* A token is minted for the identity the phone is bound to.
LEMMA MintTokenKeeps ==
  ASSUME Session!BridgeAssumption, SessionInv, NEW w \in Workers, Session!MintToken(w)
  PROVE  SessionInv'
<1>1. worker[w].stage = "mint" BY DEF Session!MintToken, Session!At
<1> PICK g \in Session!Working : g = worker[w] /\ g # Session!Idle BY <1>1, StageType DEF SessionInv
<1>2. LoginFits(g) BY DEF SessionInv, LoginsFit
<1>3. Session!Phone(w) \in Phones /\ g.id \in Session!Ids /\ owner[Session!Phone(w)] = g.id /\ g.id # 0
  BY <1>1, <1>2, PhoneType
  DEF LoginFits, Session!Phone, Session!Working, Session!Ids, Session!BridgeAssumption,
      SessionInv
<1>4. UNCHANGED <<Session!Rows, running, late>> /\ (Session!Works \/ Session!Fault) /\ UNCHANGED owner
  BY DEF Session!MintToken, Session!Rows
<1>5. minted' \subseteq Phones \X Session!Ids /\ MintedIsBound'
  BY <1>3, <1>4 DEF Session!MintToken, Session!Login, SessionInv, Session!TypeOK, MintedIsBound
<1>6. Steps(w, Session!Idle) /\ LoginFits(Session!Idle)'
  BY DEF Session!MintToken, Session!End, Steps, LoginFits
<1> QED BY <1>4, <1>5, <1>6, SessionQuietKeeps DEF Held, Session!Idle

\* What was bound may be logged in to; what was not is lost, and is cleaned up.
LEMMA ReadStateKeeps ==
  ASSUME Session!BridgeAssumption, SessionInv, NEW w \in Workers, Session!ReadState(w)
  PROVE  SessionInv'
<1>1. worker[w].stage = "state" BY DEF Session!ReadState, Session!At
<1> PICK g \in Session!Working : g = worker[w] /\ g # Session!Idle BY <1>1, StageType DEF SessionInv
<1>2. LoginFits(g) BY DEF SessionInv, LoginsFit
<1>3. UNCHANGED <<Session!Rows, running, late, minted>> /\ (Session!Works \/ Session!Fault)
      /\ UNCHANGED <<owner, identity, created, eligible>>
  BY DEF Session!ReadState, Session!Rows
<1>4. minted' \subseteq Phones \X Session!Ids /\ MintedIsBound'
  BY <1>3 DEF SessionInv, Session!TypeOK, MintedIsBound
<1>5. faults <= faults' /\ late \in Nat /\ faults \in Nat /\ faults' \in Nat
  BY <1>3, Counted DEF SessionInv
<1>6. Session!Calm' => Session!Calm
  <2>1. late' \in Nat /\ late <= late' BY <1>3, <1>5
  <2> QED BY <1>5, <2>1, SumsGrow DEF Session!Calm
<1>7. CASE Session!End(w)
  <2>1. Steps(w, Session!Idle) /\ LoginFits(Session!Idle)' BY <1>7 DEF Session!End, Steps, LoginFits
  <2> QED BY <1>3, <1>4, <2>1, SessionQuietKeeps DEF Held, Session!Idle
<1>8. ASSUME NEW next \in {"mint", "cleanup"}, Session!Goto(w, next),
             (next = "mint") <=> owner[Session!Phone(w)] = worker[w].id
      PROVE  SessionInv'
  <2> DEFINE there == [stage |-> next, request |-> g.request, id |-> g.id, attempt |-> 1]
  <2>1. there \in Session!Working BY DEF Session!Working, Session!Stages
  <2>6. worker' = [worker EXCEPT ![w] = there] BY <1>8, Moved DEF SessionInv
  <2>2. Steps(w, there) BY <2>1, <2>6 DEF Steps
  <2>3. there.stage = next /\ there.request = g.request /\ there.id = g.id OBVIOUS
  <2> HIDE DEF there
  <2>4. /\ owner'[g.request.phone] = owner[g.request.phone]
        /\ (Lost(g.request.phone, g.id) => Lost(g.request.phone, g.id)')
        /\ created'[g.request.phone] = created[g.request.phone]
    BY <1>3 DEF Lost
  <2>5. LoginFits(there)'
    BY <1>1, <1>2, <1>3, <1>6, <1>8, <2>3, <2>4
    DEF LoginFits, Held, Session!Phone, Lost
  <2> QED BY <1>1, <1>3, <1>4, <2>2, <2>3, <2>5, SessionQuietKeeps DEF Held
<1> QED BY <1>1, <1>7, <1>8 DEF Session!ReadState, Session!AfterAbsent

\* Auth numbers its identities: the new one is in nobody's hands.
LEMMA CreateUserKeeps ==
  ASSUME Session!BridgeAssumption, SessionInv, NEW w \in Workers, Session!CreateUser(w)
  PROVE  SessionInv'
<1>1. worker[w].stage = "create" BY DEF Session!CreateUser, Session!At
<1> PICK g \in Session!Working : g = worker[w] /\ g # Session!Idle BY <1>1, StageType DEF SessionInv
<1> DEFINE p == g.request.phone
<1>2. p \in Phones /\ Session!Phone(w) = p BY PhoneType DEF SessionInv, Session!Phone
<1>3. created[p] \in Nat /\ created[p] + 1 \in 0..MaxIdentities
  <2>1. created[p] < MaxIdentities BY <1>2 DEF Session!CreateUser
  <2> QED BY <1>2, <2>1 DEF SessionInv, Session!TypeOK, Session!BridgeAssumption
<1> PICK id \in 0..MaxIdentities : id = created[p] + 1 BY <1>3
<1>4. UNCHANGED <<owner, eligible, running, minted, late>> /\ (Session!Works \/ Session!Fault)
  BY DEF Session!CreateUser
<1>5. faults <= faults' /\ late \in Nat /\ faults' \in 0..SessionMaxFaults
  BY <1>4, Counted DEF SessionInv
<1> DEFINE there == [stage |-> "reconcile", request |-> g.request, id |-> id,
                     attempt |-> g.attempt]
<1>6. there \in Session!Working BY DEF Session!Working, Session!Stages
<1>7. there.stage = "reconcile" /\ there.request = g.request /\ there.id = id
      /\ there.attempt = g.attempt
  OBVIOUS
<1> HIDE DEF there
<1>8. CASE UNCHANGED <<identity, created>>
  <2>1. Session!End(w) BY <1>2, <1>3, <1>8 DEF Session!CreateUser, SessionInv, Session!TypeOK
  <2>2. Steps(w, Session!Idle) /\ LoginFits(Session!Idle)' BY <2>1 DEF Session!End, Steps, LoginFits
  <2>3. minted' \subseteq Phones \X Session!Ids /\ MintedIsBound'
    BY <1>4 DEF SessionInv, Session!TypeOK, MintedIsBound
  <2> QED BY <1>4, <1>8, <2>2, <2>3, SessionQuietKeeps DEF Held, Session!Idle, Session!Rows
<1>9. CASE /\ identity[p] = 0 /\ identity' = [identity EXCEPT ![p] = id]
           /\ created' = [created EXCEPT ![p] = id]
           /\ Session!End(w) \/ Session!Take(w, "reconcile", id)
  <2>0. g.attempt = 1 BY <1>1 DEF SessionInv, LoginsFit, LoginFits
  <2>9. Session!Take(w, "reconcile", id) => worker' = [worker EXCEPT ![w] = there]
    BY Moved DEF SessionInv, there
  <2> PICK h \in {there, Session!Idle} : Steps(w, h)
    BY <1>6, <1>9, <2>9 DEF Session!End, Steps
  <2>1. Session!TypeOK'
    BY <1>2, <1>4, <1>5, <1>6, <1>9 DEF SessionInv, Session!TypeOK, Steps
  <2>2. Forward
    BY <1>2, <1>3, <1>4, <1>5, <1>9
    DEF Forward, SessionInv, Session!TypeOK, Session!BridgeAssumption
  <2>3. created'[p] = id /\ identity'[p] = id /\ id # 0 /\ id <= id
    BY <1>2, <1>3, <1>9 DEF SessionInv, Session!TypeOK
  <2>4. LoginFits(there)'
    BY <1>7, <2>0, <2>3 DEF LoginFits, Held
  <2>5. LoginFits(h)'
    <3>1. CASE h = there BY <2>4, <3>1 DEF LoginFits, Lost
    <3>2. CASE h = Session!Idle BY <3>2 DEF LoginFits
    <3> QED BY <3>1, <3>2
  <2>6. LateIsCounted' /\ MintedIsBound'
    BY <1>4 DEF SessionInv, LateIsCounted, MintedIsBound
  <2>7. BoundExists'
    BY <1>2, <1>4, <1>9, <2>1, <2>2, CalmBefore DEF SessionInv, BoundExists, Session!TypeOK
  <2>8. ASSUME NEW v \in Workers, worker[v].stage \in Held
        PROVE  /\ Spared(worker[v])
               /\ Session!Phone(v) = p => worker[v].id # id
    <3> PICK k \in Session!Working : k = worker[v] /\ k # Session!Idle
      BY <2>8, StageType
      DEF SessionInv, Held
    <3>1. LoginFits(k) BY DEF SessionInv, LoginsFit
    <3>2. k.id <= created[k.request.phone] /\ k.id # 0 /\ k.id \in Nat
      BY <2>8, <3>1 DEF LoginFits, Session!Working, Session!BridgeAssumption
    <3>3. k.request.phone \in Phones BY PhoneType DEF SessionInv, Session!Phone
    <3>4. k.request.phone = p => k.id # id
      BY <1>3, <3>2
    <3>5. k.stage \in {"reconcile", "state"} => identity[k.request.phone] = k.id
      BY <3>1 DEF LoginFits
    <3>6. k.stage = "cleanup" /\ Session!Calm => owner[k.request.phone] # k.id
      BY <3>1 DEF LoginFits
    <3>7. k.request.phone # p => identity'[k.request.phone] = identity[k.request.phone]
      BY <1>9, <3>3 DEF SessionInv, Session!TypeOK
    <3> QED BY <1>4, <1>9, <2>3, <3>2, <3>4, <3>5, <3>6, <3>7 DEF Spared, Session!Phone
  <2> QED
    BY <1>2, <1>7, <2>1, <2>2, <2>5, <2>6, <2>7, <2>8, StepKeeps DEF Held, Session!Idle
<1> QED BY <1>2, <1>8, <1>9 DEF Session!CreateUser

\* One reconciliation of an identity that a worker holds, or gave up on: it binds the
\* phone to it or to nothing new.
LEMMA BindSpares ==
  ASSUME Session!BridgeAssumption, SessionInv, NEW p \in Phones, NEW id \in Session!Ids,
         Session!Bind(p, id) \/ UNCHANGED owner, UNCHANGED minted
  PROVE  /\ owner' \in [Phones -> 0..MaxIdentities]
         /\ owner' = owner \/ (Session!MayBind(p, id) /\ owner' = [owner EXCEPT ![p] = id])
         /\ \A q \in Phones : owner[q] # 0 => owner'[q] = owner[q]
         /\ \A q \in Phones : owner'[q] # owner[q] =>
              q = p /\ owner'[q] = id /\ identity[p] = id /\ p \in eligible /\ ~Lost(p, id)
         /\ MintedIsBound'
<1>1. id \in 0..MaxIdentities /\ id # 0 BY DEF Session!Ids, Session!BridgeAssumption
<1>2. owner \in [Phones -> 0..MaxIdentities] BY DEF SessionInv, Session!TypeOK
<1>3. owner' = owner \/ (Session!MayBind(p, id) /\ owner' = [owner EXCEPT ![p] = id])
  BY DEF Session!Bind
<1>4. \A q \in Phones : owner[q] # 0 => owner'[q] = owner[q]
  BY <1>1, <1>2, <1>3 DEF Session!MayBind
<1>5. minted' = minted => MintedIsBound'
  BY <1>4 DEF SessionInv, MintedIsBound, Session!TypeOK
<1>6. \A q \in Phones : owner'[q] # owner[q] =>
        q = p /\ owner'[q] = id /\ identity[p] = id /\ p \in eligible /\ ~Lost(p, id)
  BY <1>1, <1>2, <1>3 DEF Session!MayBind, Lost
<1> QED BY <1>1, <1>2, <1>3, <1>4, <1>5, <1>6

\* What a worker knows when it reconciles.
LEMMA Reconciling ==
  ASSUME Session!BridgeAssumption, SessionInv, NEW w \in Workers, Session!Reconcile(w),
         NEW g \in Session!Working, g = worker[w]
  PROVE  /\ g.stage = "reconcile" /\ g # Session!Idle /\ LoginFits(g)
         /\ g.request.phone \in Phones /\ Session!Phone(w) = g.request.phone
         /\ g.id \in Session!Ids /\ identity[g.request.phone] = g.id
<1>1. g.stage = "reconcile" /\ g # Session!Idle BY DEF Session!Reconcile, Session!At, Session!Idle
<1>2. LoginFits(g) BY DEF SessionInv, LoginsFit
<1>3. g.request.phone \in Phones /\ Session!Phone(w) = g.request.phone
  BY <1>1, PhoneType DEF SessionInv, Session!Phone
<1>4. g.id \in 0..MaxIdentities /\ g.id # 0 /\ identity[g.request.phone] = g.id
  BY <1>1, <1>2 DEF LoginFits, Held, Session!Working
<1> QED BY <1>1, <1>2, <1>3, <1>4 DEF Session!Ids, Session!BridgeAssumption

\* A reconciliation is about the identity its worker holds, which nobody else does.
LEMMA ReconcileStep ==
  ASSUME Session!BridgeAssumption, SessionInv, NEW w \in Workers, Session!Reconcile(w),
         NEW g \in Session!Working, g = worker[w], NEW h \in Session!Working \cup {Session!Idle},
         worker' = [worker EXCEPT ![w] = h], LoginFits(h)',
         h.stage \in Held => h.request = g.request /\ h.id = g.id
  PROVE  SessionInv'
<1> DEFINE p == g.request.phone
           id == g.id
<1>1. /\ p \in Phones /\ id \in Session!Ids /\ identity[p] = id /\ g.stage = "reconcile" /\ Session!Phone(w) = p
  BY Reconciling
<1>2. Session!Bind(p, id) \/ UNCHANGED owner BY <1>1 DEF Session!Reconcile
<1>3. UNCHANGED <<identity, created, eligible, minted>> BY DEF Session!Reconcile
<1>4. (Session!Works \/ Session!Fault) /\ (running' = running \/ (running' = running \cup {<<p, id>>} /\ late' # 0))
      /\ late' \in Nat /\ late <= late' /\ late' \in 0..SessionMaxLate /\ (late' = 0 => running' = running)
  BY <1>1 DEF Session!Reconcile, SessionInv, Session!TypeOK, Session!BridgeAssumption
<1>5. /\ owner' \in [Phones -> 0..MaxIdentities]
      /\ \A q \in Phones : owner[q] # 0 => owner'[q] = owner[q]
      /\ \A q \in Phones : owner'[q] # owner[q] =>
           q = p /\ owner'[q] = id /\ identity[p] = id /\ p \in eligible /\ ~Lost(p, id)
      /\ MintedIsBound'
  BY <1>1, <1>2, <1>3, BindSpares
<1> HIDE DEF p, id
<1>6. faults <= faults' /\ faults' \in 0..SessionMaxFaults BY <1>4, Counted DEF SessionInv
<1>7. Session!TypeOK' BY <1>1, <1>3, <1>4, <1>5, <1>6 DEF SessionInv, Session!TypeOK
<1>8. \A q \in Phones : created[q] \in Nat
  BY DEF SessionInv, Session!TypeOK, Session!BridgeAssumption
<1>9. Forward BY <1>3, <1>4, <1>5, <1>6, <1>8 DEF Forward
<1>10. LateIsCounted'
  BY <1>4, <1>9
  DEF SessionInv, LateIsCounted, Session!TypeOK, Session!BridgeAssumption
<1>11. BoundExists' BY <1>1, <1>3, <1>5, <1>7, <1>9, CalmBefore DEF SessionInv, BoundExists
<1>12. ASSUME NEW v \in Workers, v # w, worker[v].stage \in Held PROVE Spared(worker[v])
  <2> PICK k \in Session!Working : k = worker[v] /\ k # Session!Idle
    BY <1>12, StageType
    DEF SessionInv, Held
  <2> DEFINE q == k.request.phone
  <2>1. LoginFits(k) BY DEF SessionInv, LoginsFit
  <2>2. q \in Phones /\ Session!Phone(v) = q BY PhoneType DEF SessionInv, Session!Phone
  <2>3. q = p => k.id # id
    BY <1>1, <1>12, <2>2 DEF SessionInv, HeldApart, Held, id
  <2>4. owner[q] = 0 /\ q \notin eligible => owner'[q] = 0
    BY <1>5, <2>2
  <2>5. k.stage = "cleanup" /\ Session!Calm => owner'[q] # k.id
    BY <1>5, <2>1, <2>2, <2>3 DEF LoginFits
  <2>6. <<q, k.id>> \in running' => <<q, k.id>> \in running
    BY <1>4, <2>3
  <2> QED BY <1>3, <2>4, <2>5, <2>6 DEF Spared
<1>13. h.stage \in Held =>
         \A v \in Workers : v # w /\ worker[v].stage \in Held /\ Session!Phone(v) = h.request.phone =>
           worker[v].id # h.id
  BY <1>1 DEF SessionInv, HeldApart, Held, p, id
<1> QED
  BY <1>5, <1>7, <1>9, <1>10, <1>11, <1>12, <1>13, StepKeeps DEF Steps

\* Only a refusal for good sends a worker past a reconciliation that still runs.
LEMMA ReconcileKeeps ==
  ASSUME Session!BridgeAssumption, SessionInv, NEW w \in Workers, Session!Reconcile(w)
  PROVE  SessionInv'
<1>1. worker[w].stage = "reconcile" BY DEF Session!Reconcile, Session!At
<1> PICK g \in Session!Working : g = worker[w] BY <1>1, StageType DEF SessionInv
<1>2. g.stage = "reconcile" /\ g # Session!Idle /\ LoginFits(g) BY Reconciling
<1> PICK p \in Phones : p = g.request.phone BY Reconciling
<1> PICK id \in Session!Ids : id = g.id BY Reconciling
<1>3. Session!Phone(w) = p /\ identity[p] = id /\ id # 0 /\ id <= created[p]
  BY <1>2, Reconciling DEF LoginFits, Held
<1>4. UNCHANGED <<identity, created, eligible, minted>> BY DEF Session!Reconcile
<1>5. late \in Nat /\ faults \in Nat /\ g.attempt \in 1..3
  BY DEF SessionInv, Session!TypeOK, Session!BridgeAssumption, Session!Working
<1> DEFINE mint == [stage |-> "mint", request |-> g.request, id |-> g.id, attempt |-> 1]
           reading == [stage |-> "state", request |-> g.request, id |-> g.id, attempt |-> 1]
           again == [stage |-> "reconcile", request |-> g.request, id |-> g.id,
                     attempt |-> g.attempt + 1]
<1>6. CASE Session!MayBind(p, id) /\ Session!Bind(p, id) /\ Session!Goto(w, "mint")
  <2>1. mint \in Session!Working BY DEF Session!Working, Session!Stages
  <2>2. worker' = [worker EXCEPT ![w] = mint] BY <1>6, Moved DEF SessionInv
  <2>3. owner'[p] = id BY <1>6 DEF Session!Bind, SessionInv, Session!TypeOK
  <2>4. mint.stage = "mint" /\ mint.request.phone = p /\ mint.id = id OBVIOUS
  <2> HIDE DEF mint
  <2>5. LoginFits(mint)' BY <1>3, <2>3, <2>4 DEF LoginFits, Held
  <2> QED BY <2>1, <2>2, <2>4, <2>5, ReconcileStep DEF Held
<1> DEFINE Unanswered ==
        \/ ~Session!MayBind(p, id) /\ UNCHANGED <<owner, running, late, faults>>
        \/ Session!Fault /\ UNCHANGED <<running, late>>
        \/ late' = late + 1 /\ UNCHANGED <<owner, faults>>
<1>7. CASE Session!AfterReconcile(w) /\ Unanswered
  <2>1. Unanswered BY <1>7
  <2>2. late' \in Nat /\ faults' \in Nat BY <1>5, <2>1 DEF Session!Fault
  <2>3. UNCHANGED <<owner, running, late, faults>> /\ ~Session!MayBind(p, id) /\ Session!Calm => Lost(p, id)'
    BY <1>3, <1>4 DEF SessionInv, BoundExists, Session!MayBind, Lost
  <2>4. Session!Fault \/ late' = late + 1 => late' + faults' # 0
    BY <1>5, <2>1 DEF Session!Fault
  <2>5. late' + faults' = 0 => Lost(p, id)'
    <3> SUFFICES ASSUME late' + faults' = 0 PROVE Lost(p, id)' OBVIOUS
    <3>1. UNCHANGED <<owner, running, late, faults>> /\ ~Session!MayBind(p, id) BY <2>1, <2>4
    <3>2. Session!Calm BY <1>5, <3>1 DEF Session!Calm
    <3> QED BY <2>3, <3>1, <3>2
  <2>6. g.attempt # 1 /\ Session!Calm' /\ <<p, id>> \in running' => Lost(p, id)'
    <3> SUFFICES ASSUME g.attempt # 1, Session!Calm', <<p, id>> \in running' PROVE Lost(p, id)' OBVIOUS
    <3>1. CASE ~Session!MayBind(p, id) /\ UNCHANGED <<owner, running, late, faults>>
      BY <2>3, <3>1 DEF Session!Calm
    <3>2. CASE Session!Fault /\ UNCHANGED <<running, late>>
      <4>1. late = 0 BY <1>5, <3>2 DEF Session!Calm, Session!Fault
      <4> QED BY <3>2, <4>1 DEF SessionInv, LateIsCounted
    <3>3. CASE late' = late + 1 /\ UNCHANGED <<owner, faults>>
      <4>1. late + faults = 0 BY <1>5, <3>3 DEF Session!Calm
      <4>2. Lost(p, id) BY <1>2, <4>1 DEF LoginFits
      <4> QED BY <1>4, <3>3, <4>2 DEF Lost
    <3> QED BY <2>1, <3>1, <3>2, <3>3
  <2>7. CASE g.attempt < 2 /\ Session!Again(w)
    <3>1. g.attempt + 1 \in 1..3 BY <1>5, <2>7
    <3>2. again \in Session!Working BY <3>1 DEF Session!Working, Session!Stages
    <3>3. worker' = [worker EXCEPT ![w] = again] BY <1>2, <2>7, Moved DEF SessionInv
    <3>4. again.stage = "reconcile" /\ again.request = g.request /\ again.id = id OBVIOUS
    <3> HIDE DEF again
    <3>5. LoginFits(again)' BY <1>3, <1>4, <2>5, <3>4 DEF LoginFits, Held, Lost
    <3> QED BY <3>2, <3>3, <3>4, <3>5, ReconcileStep DEF Held
  <2>8. CASE ~(g.attempt < 2) /\ Session!Goto(w, "state")
    <3>1. g.attempt # 1 BY <1>5, <2>8
    <3>2. reading \in Session!Working BY DEF Session!Working, Session!Stages
    <3>3. worker' = [worker EXCEPT ![w] = reading] BY <2>8, Moved DEF SessionInv
    <3>4. reading.stage = "state" /\ reading.request = g.request /\ reading.id = id OBVIOUS
    <3> HIDE DEF reading
    <3>5. LoginFits(reading)' BY <1>3, <1>4, <2>6, <3>1, <3>4 DEF LoginFits, Held, Lost
    <3> QED BY <3>2, <3>3, <3>4, <3>5, ReconcileStep DEF Held
  <2> QED BY <1>7, <2>7, <2>8 DEF Session!AfterReconcile
<1> QED BY <1>3, <1>6, <1>7 DEF Session!Reconcile, Session!Works

\* A reconciliation that outlived its caller.
LEMMA RunLateKeeps ==
  ASSUME Session!BridgeAssumption, SessionInv, NEW p \in Phones, NEW id \in Session!Ids,
         Session!RunLate(p, id)
  PROVE  SessionInv'
<1>1. UNCHANGED <<identity, created, eligible, worker, minted, late, faults>>
      /\ Session!Bind(p, id) /\ running' = running \ {<<p, id>>} /\ <<p, id>> \in running
  BY DEF Session!RunLate, Session!Works
<1>2. /\ owner' \in [Phones -> 0..MaxIdentities]
      /\ \A q \in Phones : owner[q] # 0 => owner'[q] = owner[q]
      /\ \A q \in Phones : owner'[q] # owner[q] =>
           q = p /\ owner'[q] = id /\ identity[p] = id /\ p \in eligible /\ ~Lost(p, id)
      /\ MintedIsBound'
  BY <1>1, BindSpares
<1>3. Session!TypeOK' BY <1>1, <1>2 DEF SessionInv, Session!TypeOK
<1>4. (\A q \in Phones : created[q] \in Nat) /\ late \in Nat /\ faults \in Nat
  BY DEF SessionInv, Session!TypeOK, Session!BridgeAssumption
<1>5. Forward BY <1>1, <1>2, <1>4 DEF Forward
<1>6. LateIsCounted' BY <1>1 DEF SessionInv, LateIsCounted
<1>7. BoundExists' BY <1>1, <1>2, <1>3, <1>5, CalmBefore DEF SessionInv, BoundExists
<1>8. HeldApart' BY <1>1 DEF SessionInv, HeldApart, Session!Phone
<1>9. ASSUME NEW v \in Workers PROVE LoginFits(worker[v])'
  <2>1. CASE worker[v] = Session!Idle BY <1>1, <2>1 DEF LoginFits, Session!Idle
  <2>2. CASE worker[v] # Session!Idle
    <3> PICK k \in Session!Working : k = worker[v] BY <2>2 DEF SessionInv, Session!TypeOK
    <3> PICK q \in Phones : q = k.request.phone BY <2>2, PhoneType DEF SessionInv, Session!Phone
    <3>1. LoginFits(k) BY DEF SessionInv, LoginsFit
    <3>2. owner[q] = 0 /\ q \notin eligible => owner'[q] = 0 BY <1>2
    <3>3. k.stage = "cleanup" /\ Session!Calm => owner'[q] # k.id
      <4> SUFFICES ASSUME k.stage = "cleanup", Session!Calm, owner'[q] = k.id PROVE FALSE OBVIOUS
      <4>1. owner[q] # k.id /\ (<<q, k.id>> \in running => Lost(q, k.id))
        BY <2>2, <3>1 DEF LoginFits
      <4>2. q = p /\ k.id = id /\ ~Lost(p, id) BY <1>2, <4>1
      <4> QED BY <1>1, <4>1, <4>2
    <3>4. k.stage \in Held => Spared(k) BY <1>1, <3>2, <3>3 DEF Spared
    <3>5. LoginFits(k)' BY <1>3, <1>5, <3>1, <3>4, SparedFits DEF SessionInv
    <3>6. worker'[v] = k BY <1>1
    <3> QED BY <3>5, <3>6 DEF LoginFits, Lost
  <2> QED BY <2>1, <2>2
<1> QED BY <1>3, <1>6, <1>2, <1>7, <1>8, <1>9 DEF SessionInv, LoginsFit

\* A cleanup takes away what nobody bound.
LEMMA CleanupKeeps ==
  ASSUME Session!BridgeAssumption, SessionInv, NEW w \in Workers, Session!Cleanup(w)
  PROVE  SessionInv'
<1>1. worker[w].stage = "cleanup" BY DEF Session!Cleanup, Session!At
<1> PICK g \in Session!Working : g = worker[w] /\ g # Session!Idle BY <1>1, StageType DEF SessionInv
<1>2. LoginFits(g) BY DEF SessionInv, LoginsFit
<1> PICK p \in Phones : p = g.request.phone BY PhoneType DEF SessionInv, Session!Phone
<1>3. Session!Phone(w) = p /\ g.id # 0 /\ g.id <= created[p] /\ (Session!Calm => owner[p] # g.id)
  BY <1>1, <1>2 DEF Session!Phone, LoginFits, Held
<1>4. UNCHANGED <<created, owner, eligible, running, minted, late>> /\ (Session!Works \/ Session!Fault)
      /\ (identity' = identity \/ identity' = [identity EXCEPT ![p] = IF @ = g.id THEN 0 ELSE @])
  BY <1>3 DEF Session!Cleanup, Session!Removed
<1>5. /\ faults <= faults' /\ faults' \in 0..SessionMaxFaults /\ late \in Nat
      /\ \A q \in Phones : created[q] \in Nat
  BY <1>4, Counted DEF SessionInv, Session!TypeOK, Session!BridgeAssumption
<1>6. \A q \in Phones : identity'[q] = identity[q] \/ (q = p /\ identity[q] = g.id /\ identity'[q] = 0)
  BY <1>4 DEF SessionInv, Session!TypeOK
<1>7. identity' \in [Phones -> 0..MaxIdentities]
  <2>1. identity \in [Phones -> 0..MaxIdentities] /\ 0 \in 0..MaxIdentities
    BY DEF SessionInv, Session!TypeOK, Session!BridgeAssumption
  <2>2. CASE identity' = identity BY <2>1, <2>2
  <2>3. CASE identity' = [identity EXCEPT ![p] = IF @ = g.id THEN 0 ELSE @] BY <2>1, <2>3
  <2> QED BY <1>4, <2>2, <2>3
<1> DEFINE again == [stage |-> "cleanup", request |-> g.request, id |-> g.id,
                     attempt |-> g.attempt + 1]
<1>8. again.stage = "cleanup" /\ again.request = g.request /\ again.id = g.id OBVIOUS
<1>9. g.attempt < 3 => again \in Session!Working
  <2>1. g.attempt < 3 => g.attempt + 1 \in 1..3 BY DEF Session!Working
  <2> QED BY <2>1 DEF Session!Working, Session!Stages
<1>10. Session!Again(w) => worker' = [worker EXCEPT ![w] = again] BY <1>1, Moved DEF SessionInv
<1> HIDE DEF again
<1> PICK h \in Session!Working \cup {Session!Idle} : Steps(w, h) /\ (h = Session!Idle \/ h = again)
  BY <1>9, <1>10 DEF Session!Cleanup, Steps, Session!End
<1>11. Session!TypeOK' BY <1>4, <1>5, <1>7 DEF SessionInv, Session!TypeOK, Steps
<1>12. Forward BY <1>4, <1>5 DEF Forward
<1>13. ASSUME NEW v \in Workers, v # w, worker[v].stage \in Held PROVE Spared(worker[v])
  <2> PICK k \in Session!Working : k = worker[v] /\ k # Session!Idle
    BY <1>13, StageType
    DEF SessionInv, Held
  <2>1. LoginFits(k) BY DEF SessionInv, LoginsFit
  <2> PICK q \in Phones : q = k.request.phone BY PhoneType DEF SessionInv, Session!Phone
  <2>2. q = p => k.id # g.id
    BY <1>1, <1>3, <1>13 DEF SessionInv, HeldApart, Held, Session!Phone
  <2>3. k.stage \in {"reconcile", "state"} => identity[q] = k.id BY <2>1 DEF LoginFits
  <2>4. k.id # 0 BY <1>13, <2>1 DEF LoginFits
  <2>5. k.stage = "cleanup" /\ Session!Calm => owner[q] # k.id BY <2>1 DEF LoginFits
  <2> QED BY <1>4, <1>6, <2>2, <2>3, <2>4, <2>5 DEF Spared
<1>14. Spared(g)
  BY <1>1, <1>2, <1>3, <1>4, <1>6 DEF Spared
<1>15. LoginFits(g)' BY <1>2, <1>11, <1>12, <1>14, SparedFits DEF SessionInv
<1>16. LoginFits(h)' BY <1>1, <1>8, <1>15 DEF LoginFits, Lost, Session!Idle, Held
<1>17. LateIsCounted' /\ MintedIsBound'
  BY <1>4 DEF SessionInv, LateIsCounted, MintedIsBound
<1>18. BoundExists'
  BY <1>3, <1>4, <1>6, <1>11, <1>12, CalmBefore DEF SessionInv, BoundExists
<1>19. h.stage \in Held =>
         \A v \in Workers : v # w /\ worker[v].stage \in Held /\ Session!Phone(v) = h.request.phone =>
           worker[v].id # h.id
  BY <1>1, <1>3, <1>8 DEF SessionInv, HeldApart, Held, Session!Idle
<1> QED BY <1>11, <1>12, <1>13, <1>16, <1>17, <1>18, <1>19, StepKeeps

\* Staff's changes bind nothing.
LEMMA DisqualifyKeeps ==
  ASSUME Session!BridgeAssumption, SessionInv, NEW p \in Phones, Session!Disqualify(p)
  PROVE  SessionInv'
<1>1. UNCHANGED <<identity, created, owner, worker, running, minted, late, faults>>
      /\ eligible' = eligible \ {p}
  BY DEF Session!Disqualify, Session!Works
<1>2. Session!Calm' => Session!Calm BY <1>1 DEF Session!Calm
<1>3. ASSUME NEW v \in Workers PROVE LoginFits(worker[v])'
  <2>1. LoginFits(worker[v]) BY DEF SessionInv, LoginsFit
  <2> QED BY <1>1, <1>2, <2>1 DEF LoginFits, Lost
<1> QED
  BY <1>1, <1>2, <1>3
  DEF SessionInv, Session!TypeOK, LoginsFit, HeldApart, LateIsCounted, MintedIsBound,
      BoundExists, Session!Phone

\* Nobody logs in at first.
LEMMA SessionStarts == ASSUME Session!BridgeAssumption, Session!Init PROVE SessionInv
<1>1. Session!TypeOK BY DEF Session!Init, Session!TypeOK, Session!BridgeAssumption
<1>2. LoginsFit /\ HeldApart
  BY DEF Session!Init, LoginsFit, LoginFits, HeldApart, Held, Session!Idle
<1> QED BY <1>1, <1>2 DEF Session!Init, SessionInv, LateIsCounted, MintedIsBound, BoundExists

\* Every step keeps the invariant.
LEMMA SessionKeeps ==
  ASSUME Session!BridgeAssumption, SessionInv, [Session!Next]_(Session!vars) PROVE SessionInv'
<1>1. CASE Session!Next
  BY <1>1, SessionAcceptKeeps, AskLegacyKeeps, AskProviderKeeps, InspectKeeps, CreateUserKeeps,
     ReconcileKeeps, ReadStateKeeps, CleanupKeeps, MintTokenKeeps, SessionCrashKeeps, DisqualifyKeeps,
     RunLateKeeps
  DEF Session!Next
<1>2. CASE UNCHANGED Session!vars
  <2>1. UNCHANGED <<identity, created, owner, eligible, worker, running, minted, faults, late>>
    BY <1>2 DEF Session!vars
  <2>2. ASSUME NEW v \in Workers PROVE LoginFits(worker[v])'
    <3>1. LoginFits(worker[v]) BY DEF SessionInv, LoginsFit
    <3> QED BY <2>1, <3>1 DEF LoginFits, Lost, Session!Calm
  <2> QED
    BY <2>1, <2>2
    DEF SessionInv, Session!TypeOK, LoginsFit, HeldApart, LateIsCounted, MintedIsBound, BoundExists,
        Session!Phone, Session!Calm
<1> QED BY <1>1, <1>2

\* A login is for the identity its phone is bound to, and that identity exists: whatever
\* fails while no reconciliation outlives its caller, or if one does and nothing else fails.
THEOREM LoginsStayBound == Session!BridgeAssumption /\ Session!Spec => []Session!BoundIsKept
<1>1. Session!BridgeAssumption /\ Session!Init => SessionInv BY SessionStarts
<1>2. Session!BridgeAssumption /\ SessionInv /\ [Session!Next]_(Session!vars) => SessionInv'
  BY SessionKeeps
<1>3. SessionInv => Session!BoundIsKept
  BY DEF SessionInv, MintedIsBound, BoundExists, Session!BoundIsKept
<1>4. Session!BridgeAssumption /\ Session!Spec => []SessionInv
  <2> SUFFICES ASSUME Session!BridgeAssumption PROVE Session!Spec => []SessionInv OBVIOUS
  <2> QED BY <1>1, <1>2, PTL DEF Session!Spec
<1> QED BY <1>3, <1>4, PTL

\* What a phone is bound to, and how far each login is, is well formed at all times.
THEOREM SessionTypeCorrect == ASSUME Session!BridgeAssumption PROVE Session!Spec => []Session!TypeOK
<1> USE Session!BridgeAssumption
<1>1. Session!Init => SessionInv BY SessionStarts
<1>2. SessionInv /\ [Session!Next]_(Session!vars) => SessionInv' BY SessionKeeps
<1>3. SessionInv => Session!TypeOK BY DEF SessionInv
<1> QED BY <1>1, <1>2, <1>3, PTL DEF Session!Spec
-----------------------------------------------------------------------------
(* Customer identity: the company a message belongs to.                    *)

(* The service counts as this module does.                                 *)
LEMMA CustomerCounts ==
  \A S : (Customer!IsFiniteSet(S) <=> IsFiniteSet(S)) /\ Customer!Cardinality(S) = Cardinality(S)
BY DEF IsFiniteSet, Cardinality, Customer!IsFiniteSet, Customer!Cardinality

\* The clues of message m allow company c.
CompanyFits(m, c) ==
  /\ m.forwarded \/ m.from \in staff => gst[c] \in m.gsts \/ name[c] \in {m.named, m.mention}
  /\ m.gsts \subseteq {gst[c]}
  /\ m.named # None => name[c] \in {m.named, m.mention}

CustomerWorking == [stage: Customer!Stages, message: CustomerMessages, proxy: BOOLEAN, 
                     company: Companies \cup {None}]
AnswerFits(h) ==
  h # Customer!Idle /\ h.stage \in {"manager", "answered"} /\ h.company # None =>
    CompanyFits(h.message, h.company)
IdentityInv ==
  /\ worker \in [CustomerWorkers -> CustomerWorking \cup {Customer!Idle}]
  /\ active \subseteq Companies
  /\ \A w \in CustomerWorkers : AnswerFits(worker[w])

\* Two GST numbers stop a message, so that one is all of them.
LEMMA OneNumber ==
  ASSUME Customer!IdentityAssumption, NEW m \in CustomerMessages, ~(Cardinality(m.gsts) > 1),
         NEW g \in m.gsts
  PROVE  m.gsts = {g}
<1>1. IsFiniteSet(m.gsts)
  BY FS_Subset, CustomerCounts DEF Customer!IdentityAssumption, Customer!Message
<1>2. Cardinality(m.gsts) \in Nat /\ Cardinality(m.gsts) # 0
  BY <1>1, FS_CardinalityType, FS_EmptySet
<1>3. Cardinality(m.gsts) = 1 BY <1>2
<1> QED BY <1>1, <1>3, FS_Singleton

\* What the database decides, and the webhook does not stop, fits the message's clues.
LEMMA ResolveFits ==
  ASSUME Customer!IdentityAssumption, active \subseteq Companies, NEW m \in CustomerMessages,
         NEW proxy \in BOOLEAN,
         NEW c \in Customer!Resolve(m, proxy), ~(Customer!Blocked(m, proxy) /\ ~Customer!HasEvidence(m, proxy))
  PROVE  c \in Companies /\ CompanyFits(m, c)
<1>1. ~(Cardinality(m.gsts) > 1) BY CustomerCounts DEF Customer!Resolve
<1>2. CASE Customer!HasEvidence(m, proxy)
  <2> DEFINE n == Customer!CandidateName(m, proxy)
  <2>1. c \in Customer!Target(m, n) BY <1>1, <1>2 DEF Customer!Resolve
  <2>2. n \in {m.named, m.mention} /\ (n = None => m.named = None)
    BY DEF Customer!CandidateName
  <2>3. CASE m.gsts # {}
    <3>1. c \in active /\ gst[c] \in m.gsts /\ (n # None => name[c] = n)
      BY <2>1, <2>3 DEF Customer!Target, Customer!Single, Customer!ByGst, Customer!ByName
    <3>2. m.gsts = {gst[c]} BY <1>1, <3>1, OneNumber
    <3> QED BY <2>2, <3>1, <3>2 DEF CompanyFits
  <2>4. CASE m.gsts = {}
    <3>1. c \in active /\ name[c] = n
      BY <2>1, <2>4 DEF Customer!Target, Customer!Single, Customer!ByName
    <3> QED BY <2>2, <2>4, <3>1 DEF CompanyFits
  <2> QED BY <2>3, <2>4
<1>3. CASE ~Customer!HasEvidence(m, proxy)
  <2>1. c \in Customer!SenderCompany(m.from) BY <1>1, <1>3 DEF Customer!Resolve
  <2>2. m.from \notin staff /\ c \in active BY <2>1 DEF Customer!SenderCompany, Customer!Single,
      Customer!PhoneCompanies
  <2>3. ~proxy /\ ~m.forwarded BY <1>3 DEF Customer!Blocked
  <2>4. m.gsts = {} /\ m.named = None BY <1>3, <2>3 DEF Customer!HasEvidence, Customer!CandidateName
  <2> QED BY <2>2, <2>3, <2>4 DEF CompanyFits
<1> QED BY <1>2, <1>3

\* A worker that is not idle holds a message; a step gives it a stage and a company.
LEMMA DecidedFits ==
  ASSUME IdentityInv, NEW w \in CustomerWorkers, worker[w].stage # "idle",
         NEW next \in Customer!Stages, NEW found,
         Customer!Decided(w, next, found), active' \subseteq Companies, found \subseteq Companies,
         next = "manager" => \A c \in found : CompanyFits(worker[w].message, c),
         next = "answered" => found = {}
  PROVE  IdentityInv'
<1> PICK g \in CustomerWorking : g = worker[w]
  BY DEF IdentityInv, Customer!Idle
<1> DEFINE c == IF found = {} THEN None ELSE CHOOSE x \in found : TRUE
<1>1. c \in Companies \cup {None} /\ (c # None => c \in found) OBVIOUS
<1>2. worker' = [worker EXCEPT ![w] = [g EXCEPT !.stage = next, !.company = c]]
  BY DEF Customer!Decided, IdentityInv
<1> HIDE DEF c
<1> DEFINE h == [g EXCEPT !.stage = next, !.company = c]
<1>3. h \in CustomerWorking /\ h.stage = next /\ h.company = c /\ h.message = g.message
  BY <1>1 DEF CustomerWorking
<1>4. AnswerFits(h) BY <1>1, <1>3 DEF AnswerFits
<1> HIDE DEF h
<1>5. worker' \in [CustomerWorkers -> CustomerWorking \cup {Customer!Idle}]
  BY <1>2, <1>3
  DEF IdentityInv, h
<1>6. ASSUME NEW v \in CustomerWorkers PROVE AnswerFits(worker'[v])
  BY <1>2, <1>4 DEF IdentityInv, h
<1> QED BY <1>5, <1>6 DEF IdentityInv, AnswerFits, CompanyFits

\* What an idle worker takes on has no company yet.
LEMMA AcceptFits ==
  ASSUME Customer!IdentityAssumption, IdentityInv, NEW w \in CustomerWorkers,
         NEW m \in CustomerMessages, Customer!Accept(w, m)
  PROVE  IdentityInv'
<1> DEFINE s == IF m.dispute THEN "dispute" ELSE "classify"
           h == [stage |-> s, message |-> m, proxy |-> FALSE, company |-> None]
<1>1. s \in Customer!Stages /\ s \notin {"manager", "answered"} BY DEF Customer!Stages
<1> HIDE DEF s
<1>2. h \in CustomerWorking /\ AnswerFits(h) BY <1>1 DEF CustomerWorking, AnswerFits
<1>3. worker' = [worker EXCEPT ![w] = h] /\ active' = active
  BY DEF Customer!Accept, Customer!World, s
<1> HIDE DEF h
<1> QED BY <1>2, <1>3 DEF IdentityInv, AnswerFits, CompanyFits

\* The webhook goes on with no company yet.
LEMMA ClassifyFits ==
  ASSUME IdentityInv, NEW w \in CustomerWorkers, Customer!Classify(w) PROVE IdentityInv'
<1> PICK g \in CustomerWorking : g = worker[w] /\ g.stage = "classify"
  BY DEF IdentityInv, Customer!Idle, Customer!Classify, Customer!At
<1> PICK x \in BOOLEAN : worker' = [worker EXCEPT ![w] = [g EXCEPT !.stage = "resolve", !.proxy = x]]
  <2>1. CASE worker' = [worker EXCEPT ![w].stage = "resolve",
                                      ![w].proxy = worker[w].message.from \in proxies]
    <3>1. worker' = [worker EXCEPT ![w] =
                       [g EXCEPT !.stage = "resolve", !.proxy = g.message.from \in proxies]]
      BY <2>1 DEF IdentityInv
    <3>2. (g.message.from \in proxies) = TRUE \/ (g.message.from \in proxies) = FALSE OBVIOUS
    <3> QED BY <3>1, <3>2, Zenon
  <2>2. CASE worker' = [worker EXCEPT ![w].stage = "resolve"]
    <3> DEFINE r == "resolve"
    <3>1. worker' = [worker EXCEPT ![w] = [g EXCEPT !.stage = r]] BY <2>2 DEF IdentityInv
    <3>2. [g EXCEPT !.stage = r] = [g EXCEPT !.stage = r, !.proxy = g.proxy]
      <4>1. [g EXCEPT !.stage = r] =
              [stage |-> r, message |-> g.message, proxy |-> g.proxy, company |-> g.company]
        BY DEF CustomerWorking
      <4>2. [g EXCEPT !.stage = r, !.proxy = g.proxy] = [[g EXCEPT !.stage = r] EXCEPT !.proxy = g.proxy]
        OBVIOUS
      <4> QED BY <4>1, <4>2
    <3>3. g.proxy \in BOOLEAN BY DEF CustomerWorking
    <3> QED BY <3>1, <3>2, <3>3
  <2> QED BY <2>1, <2>2 DEF Customer!Classify
<1> DEFINE h == [g EXCEPT !.stage = "resolve", !.proxy = x]
<1>1. h \in CustomerWorking /\ AnswerFits(h) BY DEF CustomerWorking, Customer!Stages, AnswerFits
<1>2. active' = active BY DEF Customer!Classify, Customer!World
<1> HIDE DEF h
<1> QED BY <1>1, <1>2 DEF IdentityInv, AnswerFits, CompanyFits, h

\* The database's decision is what the webhook goes on with, or nothing.
LEMMA DecideFits ==
  ASSUME Customer!IdentityAssumption, IdentityInv, NEW w \in CustomerWorkers, Customer!Decide(w)
  PROVE  IdentityInv'
<1> PICK g \in CustomerWorking : g = worker[w] /\ g.stage = "resolve"
  BY DEF IdentityInv, Customer!Idle, Customer!Decide, Customer!At
<1> DEFINE found == IF Customer!Blocked(g.message, g.proxy) /\ ~Customer!HasEvidence(g.message, g.proxy) THEN {}
                    ELSE Customer!Resolve(g.message, g.proxy)
<1>1. g.message \in CustomerMessages /\ g.proxy \in BOOLEAN BY DEF CustomerWorking
<1>2. \A c \in found : c \in Companies /\ CompanyFits(g.message, c)
  BY <1>1, ResolveFits DEF IdentityInv
<1>3. active' \subseteq Companies BY DEF Customer!Decide, Customer!World, IdentityInv
<1>4. Customer!Decided(w, IF found = {} THEN "answered" ELSE "manager", found)
      \/ Customer!Decided(w, "answered", {})
  BY DEF Customer!Decide
<1> HIDE DEF found
<1>5. CASE Customer!Decided(w, "answered", {})
  BY <1>3, <1>5, DecidedFits DEF Customer!Stages
<1>6. CASE found = {} /\ Customer!Decided(w, "answered", found)
  BY <1>3, <1>6, DecidedFits DEF Customer!Stages
<1>7. CASE found # {} /\ Customer!Decided(w, "manager", found)
  BY <1>2, <1>3, <1>7, DecidedFits DEF Customer!Stages
<1> QED BY <1>4, <1>5, <1>6, <1>7

\* A dispute is resolved like an order, or not at all.
LEMMA DisputeFits ==
  ASSUME Customer!IdentityAssumption, IdentityInv, NEW w \in CustomerWorkers,
         Customer!DecideDispute(w) \/ Customer!MarkDisputed(w)
  PROVE  IdentityInv'
<1>1. active' \subseteq Companies
  BY DEF Customer!DecideDispute, Customer!MarkDisputed, Customer!World, IdentityInv
<1>2. worker[w].stage # "idle" BY DEF Customer!DecideDispute, Customer!MarkDisputed, Customer!At
<1>3. CASE Customer!MarkDisputed(w) \/ Customer!Decided(w, "classify", {})
  BY <1>1, <1>2, <1>3, DecidedFits DEF Customer!MarkDisputed, Customer!Stages
<1>4. CASE Customer!DecideDispute(w)
  <2> DEFINE found == Customer!Resolve(worker[w].message, FALSE)
             next == IF found = {} THEN "classify" ELSE "mark"
  <2>1. found \subseteq Companies
    BY DEF Customer!Resolve, Customer!Target, Customer!Single, Customer!ByGst, Customer!ByName,
           Customer!SenderCompany, Customer!PhoneCompanies, IdentityInv
  <2>2. next \in Customer!Stages /\ next \notin {"manager", "answered"} BY DEF Customer!Stages
  <2>3. Customer!Decided(w, next, found) \/ Customer!Decided(w, "classify", {})
    BY <1>4
    DEF Customer!DecideDispute
  <2> HIDE DEF found, next
  <2> QED BY <1>1, <1>2, <1>3, <2>1, <2>2, <2>3, DecidedFits
<1> QED BY <1>3, <1>4

\* Reading the manager changes no company.
LEMMA ReadManagerFits ==
  ASSUME IdentityInv, NEW w \in CustomerWorkers, Customer!ReadManager(w) PROVE IdentityInv'
<1> PICK g \in CustomerWorking : g = worker[w] /\ g.stage = "manager"
  BY DEF IdentityInv, Customer!Idle, Customer!ReadManager, Customer!At
<1> DEFINE h == [g EXCEPT !.stage = "answered"]
<1>1. h \in CustomerWorking /\ h.company = g.company /\ h.message = g.message
  BY DEF CustomerWorking, Customer!Stages
<1>2. AnswerFits(g) /\ g # Customer!Idle BY DEF IdentityInv, Customer!Idle
<1>3. AnswerFits(h) BY <1>1, <1>2 DEF AnswerFits
<1>4. worker' = [worker EXCEPT ![w] = h] /\ active' = active
  BY DEF Customer!ReadManager, Customer!World, IdentityInv
<1> HIDE DEF h
<1> QED BY <1>1, <1>3, <1>4 DEF IdentityInv, AnswerFits, CompanyFits

\* Every step keeps the invariant; what staff change meanwhile is not in it.
LEMMA IdentityKeeps ==
  ASSUME Customer!IdentityAssumption, IdentityInv, [Customer!Next]_(Customer!vars)
  PROVE  IdentityInv'
<1>1. ASSUME NEW w \in CustomerWorkers, Customer!Finish(w) PROVE IdentityInv'
  BY <1>1 DEF Customer!Finish, Customer!World, IdentityInv, AnswerFits, CompanyFits
<1>2. CASE UNCHANGED worker /\ active' \subseteq active
  BY <1>2 DEF IdentityInv, AnswerFits, CompanyFits
<1>3. CASE UNCHANGED Customer!vars BY <1>2, <1>3 DEF Customer!vars
<1>4. ASSUME NEW c \in Companies, NEW s \in Senders,
             Customer!Suspend(c) \/ Customer!Authorize(s, c) \/ Customer!Withdraw(s, c)
      PROVE  IdentityInv'
  BY <1>2, <1>4 DEF Customer!Suspend, Customer!Authorize, Customer!Withdraw, Customer!Rest
<1>5. ASSUME NEW c \in Companies, Customer!Suspend(c) PROVE IdentityInv'
  BY <1>2, <1>5 DEF Customer!Suspend, Customer!Rest
<1> QED
  BY <1>1, <1>3, <1>4, <1>5, AcceptFits, ClassifyFits, DecideFits, DisputeFits, ReadManagerFits
  DEF Customer!Next

\* A message is given to a company only if every clue of it agrees.
THEOREM CluesAlwaysDecide == Customer!IdentityAssumption /\ Customer!Spec => []Customer!CluesDecide
<1>1. Customer!Init => IdentityInv BY DEF Customer!Init, IdentityInv, AnswerFits
<1>2. Customer!IdentityAssumption /\ IdentityInv /\ [Customer!Next]_(Customer!vars) => IdentityInv'
  BY IdentityKeeps
<1>3. IdentityInv => Customer!CluesDecide
  BY DEF IdentityInv, AnswerFits, CompanyFits, Customer!CluesDecide, Customer!RelaysNeedAClue,
         Customer!CluesAgree, Customer!Answer, Customer!Idle
<1>4. Customer!IdentityAssumption /\ Customer!Spec => []IdentityInv
  <2> SUFFICES ASSUME Customer!IdentityAssumption PROVE Customer!Spec => []IdentityInv OBVIOUS
  <2> QED BY <1>1, <1>2, PTL DEF Customer!Spec
<1> QED BY <1>3, <1>4, PTL

\* What the working invocations have of their messages is well formed.
LEMMA WorkersTyped ==
  ASSUME IdentityInv, NEW w \in CustomerWorkers, worker[w] # Customer!Idle
  PROVE  /\ worker[w].stage \in Customer!Stages /\ worker[w].message \in CustomerMessages
         /\ worker[w].proxy \in BOOLEAN /\ worker[w].company \in Companies \cup {None}
<1>1. worker[w] \in CustomerWorking BY DEF IdentityInv
<1> QED BY <1>1 DEF CustomerWorking

\* Only a company is marked: the stage is entered with one.
LEMMA MarksAreCompanies ==
  ASSUME Customer!IdentityAssumption, IdentityInv, Customer!TypeOK,
         [Customer!Next]_(Customer!vars), NEW w \in CustomerWorkers
  PROVE  worker'[w].stage = "mark" => worker'[w].company # None
<1>1. CASE UNCHANGED worker BY <1>1 DEF Customer!TypeOK, Customer!Idle
<1>2. ASSUME NEW v \in CustomerWorkers, NEW s, NEW found,
             Customer!Decided(v, s, found), s = "mark" => found # {}, found \subseteq Companies,
             worker[v].stage # "idle"
      PROVE  worker'[w].stage = "mark" => worker'[w].company # None
  <2> PICK g \in CustomerWorking : g = worker[v] BY <1>2 DEF IdentityInv, Customer!Idle
  <2> PICK c : c = (IF found = {} THEN None ELSE CHOOSE x \in found : TRUE) OBVIOUS
  <2>1. worker' = [worker EXCEPT ![v] = [g EXCEPT !.stage = s, !.company = c]]
    BY <1>2 DEF Customer!Decided, IdentityInv
  <2>2. s = "mark" => c # None BY <1>2 DEF Customer!IdentityAssumption
  <2>3. CASE w = v
    <3>1. worker'[w] = [g EXCEPT !.stage = s, !.company = c] BY <2>1, <2>3 DEF IdentityInv
    <3> QED BY <2>2, <3>1 DEF CustomerWorking
  <2>4. CASE w # v BY <2>1, <2>4 DEF Customer!TypeOK, Customer!Idle, IdentityInv
  <2> QED BY <2>3, <2>4
<1>3. ASSUME NEW v \in CustomerWorkers, NEW h, worker' = [worker EXCEPT ![v] = h], h.stage # "mark"
      PROVE  worker'[w].stage = "mark" => worker'[w].company # None
  BY <1>3 DEF Customer!TypeOK, Customer!Idle, IdentityInv
<1>4. ASSUME NEW v \in CustomerWorkers, NEW m \in CustomerMessages, Customer!Accept(v, m)
      PROVE  worker'[w].stage = "mark" => worker'[w].company # None
  <2> PICK s : s = (IF m.dispute THEN "dispute" ELSE "classify") OBVIOUS
  <2> PICK h : h = [stage |-> s, message |-> m, proxy |-> FALSE, company |-> None] OBVIOUS
  <2>1. worker' = [worker EXCEPT ![v] = h] BY <1>4 DEF Customer!Accept
  <2>2. h.stage = s /\ s # "mark" OBVIOUS
  <2> QED BY <1>3, <2>1, <2>2
<1>5. ASSUME NEW v \in CustomerWorkers, Customer!DecideDispute(v)
      PROVE  worker'[w].stage = "mark" => worker'[w].company # None
  <2> PICK found : found = Customer!Resolve(worker[v].message, FALSE) OBVIOUS
  <2>1. found \subseteq Companies
    BY DEF Customer!Resolve, Customer!Target, Customer!Single, Customer!ByGst, Customer!ByName,
           Customer!SenderCompany, Customer!PhoneCompanies, IdentityInv
  <2>2. worker[v].stage # "idle" BY <1>5 DEF Customer!DecideDispute, Customer!At
  <2>3. \/ Customer!Decided(v, IF found = {} THEN "classify" ELSE "mark", found)
        \/ Customer!Decided(v, "classify", {})
    BY <1>5 DEF Customer!DecideDispute
  <2>4. CASE Customer!Decided(v, IF found = {} THEN "classify" ELSE "mark", found)
    <3> PICK s : s = (IF found = {} THEN "classify" ELSE "mark") OBVIOUS
    <3> QED BY <1>2, <2>1, <2>2, <2>4
  <2>5. CASE Customer!Decided(v, "classify", {})
    <3> PICK s : s = "classify" OBVIOUS
    <3> QED BY <1>2, <2>2, <2>5
  <2> QED BY <2>3, <2>4, <2>5
<1>6. ASSUME NEW v \in CustomerWorkers, Customer!MarkDisputed(v)
      PROVE  worker'[w].stage = "mark" => worker'[w].company # None
  <2> PICK s : s = "classify" OBVIOUS
  <2> QED BY <1>2, <1>6 DEF Customer!MarkDisputed, Customer!At
<1>7. ASSUME NEW v \in CustomerWorkers, Customer!Classify(v)
      PROVE  worker'[w].stage = "mark" => worker'[w].company # None
  <2> PICK g \in CustomerWorking : g = worker[v]
    BY <1>7 DEF IdentityInv, Customer!Idle, Customer!Classify, Customer!At
  <2>1. \E p : worker' = [worker EXCEPT ![v] = [g EXCEPT !.stage = "resolve", !.proxy = p]]
    <3>1. [g EXCEPT !.stage = "resolve"] = [g EXCEPT !.stage = "resolve", !.proxy = g.proxy]
      BY DEF CustomerWorking
    <3> QED BY <1>7, <3>1 DEF Customer!Classify, IdentityInv
  <2> PICK p : worker' = [worker EXCEPT ![v] = [g EXCEPT !.stage = "resolve", !.proxy = p]] BY <2>1
  <2> PICK h : h = [g EXCEPT !.stage = "resolve", !.proxy = p] OBVIOUS
  <2>2. h.stage # "mark" BY DEF CustomerWorking
  <2> QED BY <1>3, <2>2
<1>8. ASSUME NEW v \in CustomerWorkers, Customer!Decide(v)
      PROVE  worker'[w].stage = "mark" => worker'[w].company # None
  <2> PICK found, s : Customer!Decided(v, s, found) /\ s # "mark"
    BY <1>8 DEF Customer!Decide
  <2> PICK g \in CustomerWorking : g = worker[v]
    BY <1>8 DEF IdentityInv, Customer!Idle, Customer!Decide, Customer!At
  <2> PICK c : c = (IF found = {} THEN None ELSE CHOOSE x \in found : TRUE) OBVIOUS
  <2> PICK h : h = [g EXCEPT !.stage = s, !.company = c] OBVIOUS
  <2>1. worker' = [worker EXCEPT ![v] = h] BY DEF Customer!Decided, IdentityInv
  <2>2. h.stage # "mark" BY DEF CustomerWorking
  <2> QED BY <1>3, <2>1, <2>2
<1>9. ASSUME NEW v \in CustomerWorkers, Customer!ReadManager(v)
      PROVE  worker'[w].stage = "mark" => worker'[w].company # None
  <2> PICK g \in CustomerWorking : g = worker[v]
    BY <1>9 DEF IdentityInv, Customer!Idle, Customer!ReadManager, Customer!At
  <2> PICK h : h = [g EXCEPT !.stage = "answered"] OBVIOUS
  <2>1. worker' = [worker EXCEPT ![v] = h] BY <1>9 DEF Customer!ReadManager, IdentityInv
  <2>2. h.stage # "mark" BY DEF CustomerWorking
  <2> QED BY <1>3, <2>1, <2>2
<1>10. ASSUME NEW v \in CustomerWorkers, Customer!Finish(v)
       PROVE  worker'[w].stage = "mark" => worker'[w].company # None
  <2> PICK h : h = Customer!Idle OBVIOUS
  <2>1. worker' = [worker EXCEPT ![v] = h] BY <1>10 DEF Customer!Finish
  <2>2. h.stage # "mark" BY DEF Customer!Idle
  <2> QED BY <1>3, <2>1, <2>2
<1>11. CASE UNCHANGED Customer!vars BY <1>1, <1>11 DEF Customer!vars
<1>12. ASSUME NEW c \in Companies, NEW s \in Senders,
              Customer!Suspend(c) \/ Customer!Authorize(s, c) \/ Customer!Withdraw(s, c)
       PROVE  worker'[w].stage = "mark" => worker'[w].company # None
  BY <1>1, <1>12 DEF Customer!Suspend, Customer!Authorize, Customer!Withdraw, Customer!Rest
<1>13. ASSUME NEW c \in Companies, Customer!Suspend(c)
       PROVE  worker'[w].stage = "mark" => worker'[w].company # None
  BY <1>1, <1>13 DEF Customer!Suspend, Customer!Rest
<1> QED
  BY <1>4, <1>5, <1>6, <1>7, <1>8, <1>9, <1>10, <1>11, <1>12, <1>13 DEF Customer!Next

\* The tables beside the workers keep their types.
LEMMA IdentityTablesKeep ==
  ASSUME Customer!IdentityAssumption, IdentityInv, Customer!TypeOK,
         [Customer!Next]_(Customer!vars)
  PROVE  /\ auth' \in [Senders -> SUBSET Companies] /\ disputed' \subseteq Companies
         /\ faults' \in 0..CustomerMaxFaults /\ changes' \in 0..MaxChanges
<1>1. /\ auth \in [Senders -> SUBSET Companies] /\ disputed \subseteq Companies
      /\ faults \in 0..CustomerMaxFaults /\ changes \in 0..MaxChanges
      /\ CustomerMaxFaults \in Nat /\ MaxChanges \in Nat
  BY DEF Customer!TypeOK, Customer!IdentityAssumption
<1>2. CASE UNCHANGED Customer!vars BY <1>1, <1>2 DEF Customer!vars
<1>3. ASSUME NEW w \in CustomerWorkers, NEW m \in CustomerMessages, Customer!Accept(w, m)
      PROVE  UNCHANGED <<auth, disputed, faults, changes>>
  BY <1>3 DEF Customer!Accept, Customer!World, Customer!Works
<1>4. ASSUME NEW w \in CustomerWorkers,
             \/ Customer!DecideDispute(w) \/ Customer!Classify(w) \/ Customer!Decide(w)
             \/ Customer!ReadManager(w) \/ Customer!Finish(w)
      PROVE  UNCHANGED <<auth, disputed, changes>> /\ (Customer!Works \/ Customer!Fault)
  BY <1>4
  DEF Customer!DecideDispute, Customer!Classify, Customer!Decide, Customer!ReadManager,
      Customer!Finish, Customer!World
<1>5. ASSUME NEW w \in CustomerWorkers, Customer!MarkDisputed(w)
      PROVE  /\ UNCHANGED <<auth, changes>> /\ (Customer!Works \/ Customer!Fault)
             /\ disputed' \subseteq Companies
  <2>1. worker[w].stage = "mark" /\ worker[w] # Customer!Idle
    BY <1>5 DEF Customer!MarkDisputed, Customer!At, Customer!Idle
  <2>2. worker[w].company \in Companies BY <2>1 DEF Customer!TypeOK
  <2> QED BY <1>1, <1>5, <2>2 DEF Customer!MarkDisputed, Customer!World
<1>6. Customer!Works \/ Customer!Fault => faults' \in 0..CustomerMaxFaults
  BY <1>1 DEF Customer!Works, Customer!Fault
<1>7. ASSUME NEW c \in Companies, Customer!Suspend(c)
      PROVE  UNCHANGED <<auth, disputed, faults>> /\ changes' \in 0..MaxChanges
  BY <1>1, <1>7 DEF Customer!Suspend, Customer!Change, Customer!Rest
<1>8. ASSUME NEW c \in Companies, NEW s \in Senders, Customer!Authorize(s, c) \/ Customer!Withdraw(s, c)
      PROVE  /\ auth' \in [Senders -> SUBSET Companies]
             /\ UNCHANGED <<disputed, faults>> /\ changes' \in 0..MaxChanges
  BY <1>1, <1>8 DEF Customer!Authorize, Customer!Withdraw, Customer!Change, Customer!Rest
<1> QED BY <1>1, <1>2, <1>3, <1>4, <1>5, <1>6, <1>7, <1>8 DEF Customer!Next

\* The webhook keeps its types: a ledger is only marked for a company.
THEOREM IdentityTypeCorrect ==
  ASSUME Customer!IdentityAssumption PROVE Customer!Spec => []Customer!TypeOK
<1> USE Customer!IdentityAssumption
<1>1. Customer!Init => IdentityInv /\ Customer!TypeOK
  BY DEF Customer!Init, Customer!IdentityAssumption, IdentityInv, AnswerFits, Customer!TypeOK
<1>2. IdentityInv /\ Customer!TypeOK /\ [Customer!Next]_(Customer!vars) => (IdentityInv /\ Customer!TypeOK)'
  <2> SUFFICES ASSUME IdentityInv, Customer!TypeOK, [Customer!Next]_(Customer!vars)
               PROVE  (IdentityInv /\ Customer!TypeOK)'
    OBVIOUS
  <2>1. IdentityInv' BY IdentityKeeps
  <2>2. \A w \in CustomerWorkers : worker'[w] # Customer!Idle =>
          /\ worker'[w].stage \in Customer!Stages /\ worker'[w].message \in CustomerMessages
          /\ worker'[w].proxy \in BOOLEAN /\ worker'[w].company \in Companies \cup {None}
    BY <2>1 DEF IdentityInv, CustomerWorking
  <2> QED BY <2>1, <2>2, MarksAreCompanies, IdentityTablesKeep DEF IdentityInv, Customer!TypeOK
<1> QED BY <1>1, <1>2, PTL DEF Customer!Spec
-----------------------------------------------------------------------------
(* admin-provision-user: staff granting identities and roles.              *)

(* The service counts as this module does.                                 *)
LEMMA ProvisionCounts ==
  \A S : (Provision!IsFiniteSet(S) <=> IsFiniteSet(S)) /\ Provision!Cardinality(S) = Cardinality(S)
BY DEF IsFiniteSet, Cardinality, Provision!IsFiniteSet, Provision!Cardinality

ProvisionWorking == [stage: Provision!Stages, request: ProvisionRequests, page: Nat \ {0},
                     inspected: Nat, existed: BOOLEAN, password: {"none", "generated"}]

\* The identities on the pages before the n-th.
UsersBefore(n) == (n - 1) * PerPage

\* What is known of a worker: what it has passed, and that the identity it looks for,
\* if there was one, is on a page it has not read.
HandlerFits(h) ==
  h # Provision!Idle => LET r == h.request IN
    /\ r.actor \in Actors
    /\ h.stage # "may_grant" => Provision!Outranks(r.actor, r.role)
    /\ h.stage \in {"scan", "create", "grant", "respond"} /\ r.role \in StepUp => r.aal2
    /\ h.stage \notin {"grant", "respond"} => h.password = "none"
    /\ h.stage \in {"may_grant", "step_up"} => h.page = 1
    /\ h.stage \in {"may_grant", "step_up", "scan"} => h.inspected = UsersBefore(h.page)
    /\ faults = 0 /\ h.stage = "scan" /\ h.existed =>
         \E i \in 1..Len(identities) : i > h.inspected /\ identities[i] = r.email
    /\ faults = 0 /\ h.stage = "create" => ~h.existed

\* The worker with the password of a new identity.
Holds(h, email) ==
  h # Provision!Idle /\ h.request.email = email /\ h.password = "generated"
  /\ h.stage \in {"grant", "respond"}

ProvisionInv ==
  /\ worker \in [Workers -> ProvisionWorking \cup {Provision!Idle}]
  /\ identities \in Seq(Emails \cup Others)
  /\ faults \in Nat
  /\ \A w \in Workers : HandlerFits(worker[w])
  /\ faults = 0 => active = Actors
  /\ Provision!StepUpIsHeld
  /\ faults = 0 => \A email \in orphaned : \E w \in Workers : Holds(worker[w], email)

\* No identity of the list comes nearer to its beginning.
Known ==
  \A i \in 1..Len(identities) :
    \E j \in 1..Len(identities') : j >= i /\ identities'[j] = identities[i]

\* A list that stays as it is loses nobody.
LEMMA Same ==
  ASSUME identities \in Seq(Emails \cup Others), UNCHANGED identities PROVE Known
<1>1. Len(identities) \in Nat BY LenProperties
<1> QED BY <1>1 DEF Known

\* A worker that takes no part in a step still fits.
LEMMA OthersFit ==
  ASSUME ProvisionInv, faults' \in Nat, faults <= faults', faults' = 0 => Known,
         identities' \in Seq(Emails \cup Others),
         NEW h \in ProvisionWorking \cup {Provision!Idle}, HandlerFits(h)
  PROVE  HandlerFits(h)'
<1>1. CASE h = Provision!Idle BY <1>1 DEF HandlerFits
<1>2. CASE h # Provision!Idle
  <2>1. h \in ProvisionWorking /\ h.inspected \in Nat BY <1>2 DEF ProvisionWorking
  <2>2. faults \in Nat /\ Len(identities) \in Nat /\ Len(identities') \in Nat
    BY LenProperties DEF ProvisionInv
  <2>3. faults' = 0 => faults = 0 BY <2>2
  <2>4. ASSUME faults' = 0, h.stage = "scan", h.existed
        PROVE  \E i \in 1..Len(identities') : i > h.inspected /\ identities'[i] = h.request.email
    <3>1. PICK i \in 1..Len(identities) : i > h.inspected /\ identities[i] = h.request.email
      BY <1>2, <2>3, <2>4 DEF HandlerFits
    <3>2. PICK j \in 1..Len(identities') : j >= i /\ identities'[j] = identities[i]
      BY <2>4 DEF Known
    <3> QED BY <2>1, <2>2, <3>1, <3>2
  <2> QED BY <1>2, <2>3, <2>4 DEF HandlerFits
<1> QED BY <1>1, <1>2

\* One worker steps to h.
LEMMA HandlerStep ==
  ASSUME Provision!ProvisionAssumption, ProvisionInv, NEW w \in Workers,
         NEW h \in ProvisionWorking \cup {Provision!Idle},
         worker' = [worker EXCEPT ![w] = h], HandlerFits(h)', Provision!Works \/ Provision!Fault,
         identities' \in Seq(Emails \cup Others), faults' = 0 => Known, active' = active,
         Provision!StepUpIsHeld',
         faults' = 0 => \A email \in orphaned' :
           \/ Holds(h, email)
           \/ email \in orphaned /\ ~Holds(worker[w], email)
  PROVE  ProvisionInv'
<1>1. faults' \in Nat /\ faults <= faults' /\ faults \in Nat
  BY DEF Provision!Works, Provision!Fault, ProvisionInv
<1>2. worker' \in [Workers -> ProvisionWorking \cup {Provision!Idle}] BY DEF ProvisionInv
<1>3. ASSUME NEW v \in Workers PROVE HandlerFits(worker[v])'
  <2>1. CASE v = w BY <2>1 DEF ProvisionInv, HandlerFits, Provision!Outranks
  <2>2. CASE v # w
    <3> PICK k \in ProvisionWorking \cup {Provision!Idle} : k = worker[v] BY DEF ProvisionInv
    <3>1. HandlerFits(k) BY DEF ProvisionInv
    <3>2. HandlerFits(k)' BY <1>1, <3>1, OthersFit
    <3>3. worker'[v] = k BY <2>2 DEF ProvisionInv
    <3> QED BY <3>2, <3>3 DEF HandlerFits, Provision!Outranks
  <2> QED BY <2>1, <2>2
<1>4. ASSUME faults' = 0, NEW email \in orphaned' PROVE \E v \in Workers : Holds(worker'[v], email)
  <2>1. CASE Holds(h, email) BY <2>1 DEF ProvisionInv
  <2>2. CASE email \in orphaned /\ ~Holds(worker[w], email)
    <3>1. faults = 0 BY <1>1, <1>4
    <3>2. PICK v \in Workers : Holds(worker[v], email) BY <2>2, <3>1 DEF ProvisionInv
    <3>3. worker'[v] = worker[v] BY <2>2, <3>2 DEF ProvisionInv
    <3> QED BY <3>2, <3>3
  <2> QED BY <1>4, <2>1, <2>2
<1>5. faults' = 0 => active' = Actors BY <1>1 DEF ProvisionInv
<1> QED BY <1>1, <1>2, <1>3, <1>4, <1>5 DEF ProvisionInv, HandlerFits, Holds

\* A step that leaves the list and the grants alone, of a worker that holds no password.
LEMMA QuietStep ==
  ASSUME Provision!ProvisionAssumption, ProvisionInv, NEW w \in Workers,
         NEW h \in ProvisionWorking \cup {Provision!Idle},
         worker' = [worker EXCEPT ![w] = h], HandlerFits(h)', Provision!Works \/ Provision!Fault,
         UNCHANGED <<active, identities, grants, orphaned>>,
         faults' = 0 => \A email \in orphaned : Holds(worker[w], email) => Holds(h, email)
  PROVE  ProvisionInv'
<1>1. identities' \in Seq(Emails \cup Others) /\ Known BY Same DEF ProvisionInv
<1>2. Provision!StepUpIsHeld' BY DEF ProvisionInv, Provision!StepUpIsHeld
<1> QED BY <1>1, <1>2, HandlerStep

\* A working invocation has a request and a stage.
LEMMA HandlerType ==
  ASSUME ProvisionInv, NEW w \in Workers, worker[w].stage # "idle"
  PROVE  worker[w] \in ProvisionWorking /\ worker[w] # Provision!Idle /\ HandlerFits(worker[w])
BY DEF ProvisionInv, Provision!Idle, ProvisionWorking

\* A failure ends a worker, and so does a refusal before it has made anything.
LEMMA EndStep ==
  ASSUME Provision!ProvisionAssumption, ProvisionInv, NEW w \in Workers, worker[w].stage # "idle",
         Provision!End(w), UNCHANGED <<active, identities, grants, orphaned>>,
         Provision!Fault \/ (Provision!Works /\ worker[w].stage \notin {"grant", "respond"})
  PROVE  ProvisionInv'
<1>1. worker' = [worker EXCEPT ![w] = Provision!Idle] /\ HandlerFits(Provision!Idle)'
  BY DEF Provision!End, HandlerFits
<1>2. Provision!Fault => faults' # 0 BY DEF Provision!Fault, ProvisionInv
<1>3. worker[w].stage \notin {"grant", "respond"} => \A e \in orphaned : ~Holds(worker[w], e)
  BY DEF Holds
<1> QED BY <1>1, <1>2, <1>3, QuietStep

\* A request is taken by an idle invocation.
LEMMA ProvisionAcceptKeeps ==
  ASSUME Provision!ProvisionAssumption, ProvisionInv, NEW w \in Workers,
         NEW r \in ProvisionRequests, Provision!Accept(w, r)
  PROVE  ProvisionInv'
<1> DEFINE h == [stage |-> "may_grant", request |-> r, page |-> 1, inspected |-> 0,
                 existed |-> FALSE, password |-> "none"]
<1>1. h \in ProvisionWorking BY DEF ProvisionWorking, Provision!Stages
<1>2. r.actor \in Actors
  BY DEF Provision!Accept, Provision!GateStatus, Provision!ProvisionAssumption,
         Provision!RequestType
<1>3. UsersBefore(1) = 0 BY DEF Provision!ProvisionAssumption, UsersBefore
<1>4. HandlerFits(h)' BY <1>2, <1>3 DEF HandlerFits
<1>5. worker' = [worker EXCEPT ![w] = h] /\ worker[w].stage = "idle" /\ Provision!Works
      /\ UNCHANGED <<active, identities, grants, orphaned>>
  BY DEF Provision!Accept, Provision!At
<1>6. \A e \in orphaned : ~Holds(worker[w], e) BY <1>5 DEF Holds
<1> HIDE DEF h
<1> QED BY <1>1, <1>4, <1>5, <1>6, QuietStep

\* Only who outranks the role goes on.
LEMMA MayGrantKeeps ==
  ASSUME Provision!ProvisionAssumption, ProvisionInv, NEW w \in Workers, Provision!MayGrant(w)
  PROVE  ProvisionInv'
<1>1. worker[w].stage = "may_grant" /\ UNCHANGED <<active, identities, grants, orphaned>>
  BY DEF Provision!MayGrant, Provision!At
<1> PICK g \in ProvisionWorking : g = worker[w] /\ g # Provision!Idle /\ HandlerFits(g)
  BY <1>1, HandlerType
<1>2. CASE Provision!End(w) BY <1>1, <1>2, EndStep DEF Provision!MayGrant
<1>3. CASE Provision!CanGrant(g.request.actor, g.request.role) /\ Provision!Works /\ Provision!Goto(w, "step_up")
  <2> DEFINE h == [g EXCEPT !.stage = "step_up"]
  <2>1. /\ h \in ProvisionWorking /\ h.stage = "step_up" /\ h.request = g.request /\ h.page = g.page
        /\ h.inspected = g.inspected /\ h.password = g.password
    BY DEF ProvisionWorking, Provision!Stages
  <2>2. worker' = [worker EXCEPT ![w] = h] BY <1>3 DEF Provision!Goto, ProvisionInv
  <2> HIDE DEF h
  <2>3. HandlerFits(h)' BY <1>1, <1>3, <2>1 DEF HandlerFits, Provision!CanGrant
  <2>4. \A e \in orphaned : ~Holds(worker[w], e) BY <1>1 DEF Holds
  <2> QED BY <1>1, <1>3, <2>1, <2>2, <2>3, <2>4, QuietStep
<1> QED BY <1>2, <1>3 DEF Provision!MayGrant, Provision!Asked

\* A role that needs an AAL2 session goes on with one alone.
LEMMA CheckStepUpKeeps ==
  ASSUME Provision!ProvisionAssumption, ProvisionInv, NEW w \in Workers,
         Provision!CheckStepUp(w)
  PROVE  ProvisionInv'
<1>1. worker[w].stage = "step_up" /\ UNCHANGED <<active, identities, grants, orphaned>>
      /\ (Provision!Works \/ Provision!Fault)
  BY DEF Provision!CheckStepUp, Provision!At
<1> PICK g \in ProvisionWorking : g = worker[w] /\ g # Provision!Idle /\ HandlerFits(g)
  BY <1>1, HandlerType
<1>2. CASE Provision!End(w) BY <1>1, <1>2, EndStep
<1>3. CASE ~Provision!End(w)
  <2> DEFINE there(x) == [g EXCEPT !.stage = "scan", !.existed = x]
  <2>1. g.request.role \in StepUp => g.request.aal2
    BY <1>3 DEF Provision!CheckStepUp, Provision!RequiresStepUp, Provision!Asked
  <2>2. worker' = [worker EXCEPT ![w] = there(Provision!Exists(g.request.email))]
    BY <1>3 DEF Provision!CheckStepUp, Provision!Asked, ProvisionInv
  <2>3. Provision!Exists(g.request.email) = TRUE \/ Provision!Exists(g.request.email) = FALSE
    BY DEF Provision!Exists
  <2>4. PICK x \in BOOLEAN : worker' = [worker EXCEPT ![w] = there(x)]
                             /\ (x <=> Provision!Exists(g.request.email))
    BY <2>2, <2>3, Zenon
  <2> DEFINE h == there(x)
  <2>5. /\ h \in ProvisionWorking /\ h.stage = "scan" /\ h.request = g.request /\ h.page = g.page
        /\ h.inspected = g.inspected /\ h.password = g.password /\ h.existed = x
    BY DEF ProvisionWorking, Provision!Stages
  <2> HIDE DEF h
  <2>6. HandlerFits(h)'
    <3>1. g.page = 1 /\ g.inspected = UsersBefore(g.page) /\ g.inspected = 0
      <4>1. UsersBefore(1) = 0 BY DEF Provision!ProvisionAssumption, UsersBefore
      <4> QED BY <1>1, <4>1 DEF HandlerFits
    <3>2. x => \E i \in 1..Len(identities') : i > h.inspected /\ identities'[i] = h.request.email
      BY <1>1, <2>4, <2>5, <3>1 DEF Provision!Exists
    <3> QED BY <1>1, <2>1, <2>5, <3>1, <3>2 DEF HandlerFits
  <2>7. \A e \in orphaned : ~Holds(worker[w], e) BY <1>1 DEF Holds
  <2> QED BY <1>1, <2>4, <2>5, <2>6, <2>7, QuietStep DEF h
<1> QED BY <1>2, <1>3

\* What a page of the list holds that begins after a identities.
Cut(s, a) == SubSeq(s, a + 1, IF a + PerPage > Len(s) THEN Len(s) ELSE a + PerPage)
\* A page holds what its positions of the list hold.
LEMMA CutHolds ==
  ASSUME PerPage \in Nat \ {0}, NEW S, NEW s \in Seq(S), NEW a \in Nat
  PROVE  /\ Len(Cut(s, a)) \in 0..PerPage
         /\ a + PerPage <= Len(s) => Len(Cut(s, a)) = PerPage
         /\ \A j \in 1..Len(s) : j > a /\ j <= a + PerPage =>
              \E i \in 1..Len(Cut(s, a)) : Cut(s, a)[i] = s[j]
         /\ a + PerPage > Len(s) => Len(Cut(s, a)) < PerPage
<1> PICK L \in Nat : L = Len(s) BY LenProperties
<1>1. \A i \in 1..L : s[i] \in S BY ElementOfSeq
<1> DEFINE end == IF a + PerPage > L THEN L ELSE a + PerPage
<1>2. end \in Nat OBVIOUS
<1> PICK final \in Nat : final = end BY <1>2
<1> PICK cut : cut = Cut(s, a) OBVIOUS
<1>3. final <= L /\ final <= a + PerPage OBVIOUS
<1>4. final \in Int /\ \A i \in (a + 1)..final : s[i] \in S BY <1>1, <1>3
<1>5. /\ Len(cut) = IF a + 1 <= final THEN final - (a + 1) + 1 ELSE 0
      /\ \A i \in 1..(final - (a + 1) + 1) : cut[i] = s[(a + 1) + i - 1]
  <2>1. a + 1 \in Int /\ cut = SubSeq(s, a + 1, final) BY DEF Cut
  <2> QED BY <1>4, <2>1, SubSeqProperties
<1>6. ASSUME NEW j \in 1..L, j > a, j <= a + PerPage
      PROVE  \E i \in 1..Len(cut) : cut[i] = s[j]
  <2>1. j <= final BY <1>6
  <2>2. j - a \in 1..(final - (a + 1) + 1) /\ a + 1 <= final /\ (a + 1) + (j - a) - 1 = j
    BY <1>6, <2>1
  <2>3. cut[j - a] = s[j] BY <1>5, <2>2
  <2> QED BY <1>5, <2>2, <2>3
<1>7. /\ Len(cut) \in 0..PerPage
      /\ a + PerPage <= L => Len(cut) = PerPage
      /\ a + PerPage > L => Len(cut) < PerPage
  <2> PICK k : k = Len(cut) OBVIOUS
  <2>1. k = IF a + 1 <= final THEN final - (a + 1) + 1 ELSE 0 BY <1>5
  <2>2. k \in 0..PerPage /\ (a + PerPage <= L => k = PerPage) /\ (a + PerPage > L => k < PerPage)
    <3>1. CASE a + PerPage > L BY <2>1, <3>1
    <3>2. CASE a + PerPage <= L BY <2>1, <3>2
    <3> QED BY <3>1, <3>2
  <2> QED BY <2>2
<1> QED BY <1>6, <1>7

\* The n-th page holds what comes after the pages before it.
LEMMA PageHolds ==
  ASSUME Provision!ProvisionAssumption, NEW n \in Nat \ {0}, NEW a \in Nat, a = UsersBefore(n)
  PROVE  UsersBefore(n + 1) = a + PerPage /\ Provision!Page(n) = Cut(identities, a)
<1>1. PerPage \in Nat \ {0} BY DEF Provision!ProvisionAssumption
<1>2. n * PerPage = a + PerPage /\ UsersBefore(n + 1) = n * PerPage
  <2>1. \A m \in Int : m * PerPage = (m - 1) * PerPage + PerPage BY <1>1
  <2>2. (n + 1) - 1 = n OBVIOUS
  <2> QED BY <2>1, <2>2 DEF UsersBefore
<1> QED BY <1>2 DEF Provision!Page, UsersBefore, Cut

\* The scan goes on until it has found the identity or read the whole list.
LEMMA ScanPageKeeps ==
  ASSUME Provision!ProvisionAssumption, ProvisionInv, NEW w \in Workers, Provision!ScanPage(w)
  PROVE  ProvisionInv'
<1>1. worker[w].stage = "scan" /\ UNCHANGED <<active, identities, grants, orphaned>>
  BY DEF Provision!ScanPage, Provision!At
<1> PICK g \in ProvisionWorking : g = worker[w] /\ g # Provision!Idle /\ HandlerFits(g)
  BY <1>1, HandlerType
<1> DEFINE users == Provision!Page(g.page)
           read == g.inspected + Len(users)
           found == \E i \in 1..Len(users) : users[i] = g.request.email
<1>2. g.page \in Nat \ {0} /\ g.inspected \in Nat /\ g.inspected = UsersBefore(g.page)
      /\ PerPage \in Nat \ {0} /\ Len(identities) \in Nat
  BY <1>1, LenProperties
  DEF HandlerFits, ProvisionWorking, ProvisionInv, Provision!ProvisionAssumption
<1>3. /\ UsersBefore(g.page + 1) = g.inspected + PerPage
      /\ Len(users) \in 0..PerPage
      /\ g.inspected + PerPage <= Len(identities) => Len(users) = PerPage
      /\ \A j \in 1..Len(identities) : j > g.inspected /\ j <= g.inspected + PerPage =>
           \E i \in 1..Len(users) : users[i] = identities[j]
      /\ g.inspected + PerPage > Len(identities) => Len(users) < PerPage
  <2>1. PICK S : S = Emails \cup Others OBVIOUS
  <2>2. identities \in Seq(S) BY <2>1 DEF ProvisionInv
  <2>3. UsersBefore(g.page + 1) = g.inspected + PerPage /\ users = Cut(identities, g.inspected)
    BY <1>2, PageHolds
  <2> HIDE DEF users, read, found
  <2>4. LET cut == Cut(identities, g.inspected)
        IN  /\ Len(cut) \in 0..PerPage
            /\ g.inspected + PerPage <= Len(identities) => Len(cut) = PerPage
            /\ \A j \in 1..Len(identities) : j > g.inspected /\ j <= g.inspected + PerPage =>
                 \E i \in 1..Len(cut) : cut[i] = identities[j]
            /\ g.inspected + PerPage > Len(identities) => Len(cut) < PerPage
    BY <1>2, <2>2, CutHolds
  <2> QED BY <2>3, <2>4
<1> HIDE DEF users
<1>4. ASSUME faults = 0, g.existed, ~found
      PROVE  \E i \in 1..Len(identities) :
               i > g.inspected + PerPage /\ identities[i] = g.request.email
  <2>1. PICK i \in 1..Len(identities) : i > g.inspected /\ identities[i] = g.request.email
    BY <1>1, <1>4 DEF HandlerFits
  <2>2. ~(i <= g.inspected + PerPage) BY <1>3, <1>4, <2>1
  <2> QED BY <1>2, <2>1, <2>2
<1>5. Provision!LastPage(users, read) /\ ~found /\ faults = 0 => ~g.existed
  BY <1>2, <1>3, <1>4 DEF Provision!LastPage
<1>6. \A e \in orphaned : ~Holds(worker[w], e) BY <1>1 DEF Holds
<1>7. CASE Provision!End(w) /\ Provision!Fault BY <1>1, <1>7, EndStep
<1>8. ASSUME NEW s \in {"grant", "create"}, Provision!Goto(w, s), Provision!Works,
             s = "create" => ~found /\ Provision!LastPage(users, read)
      PROVE  ProvisionInv'
  <2> DEFINE h == [g EXCEPT !.stage = s]
  <2>1. /\ h \in ProvisionWorking /\ h.stage = s /\ h.request = g.request /\ h.password = g.password
        /\ h.existed = g.existed
    BY DEF ProvisionWorking, Provision!Stages
  <2>2. worker' = [worker EXCEPT ![w] = h] BY <1>8 DEF Provision!Goto, ProvisionInv
  <2> HIDE DEF h, found
  <2>3. s = "create" /\ faults' = 0 => ~h.existed BY <1>5, <1>8, <2>1 DEF Provision!Works
  <2>4. HandlerFits(h)' BY <1>1, <2>1, <2>3 DEF HandlerFits, Provision!Outranks
  <2> QED BY <1>1, <1>6, <1>8, <2>1, <2>2, <2>4, QuietStep
<1>9. CASE /\ ~found /\ ~Provision!LastPage(users, read) /\ Provision!Works
           /\ worker' = [worker EXCEPT ![w].page = @ + 1, ![w].inspected = read]
  <2>1. read = g.inspected + PerPage /\ read \in Nat /\ read = UsersBefore(g.page + 1)
    BY <1>2, <1>3, <1>9 DEF Provision!LastPage
  <2>2. g.page + 1 \in Nat \ {0} BY <1>2
  <2> PICK n \in Nat : n = read BY <2>1
  <2> DEFINE h == [g EXCEPT !.page = g.page + 1, !.inspected = n]
  <2>3. worker' = [worker EXCEPT ![w] = h] BY <1>9 DEF ProvisionInv
  <2> HIDE DEF read
  <2>4. /\ h \in ProvisionWorking /\ h.stage = "scan" /\ h.request = g.request /\ h.password = g.password
        /\ h.existed = g.existed /\ h.page = g.page + 1 /\ h.inspected = n
    BY <1>1, <2>1, <2>2 DEF ProvisionWorking
  <2> HIDE DEF h
  <2>5. faults' = 0 /\ h.existed =>
          \E i \in 1..Len(identities') : i > h.inspected /\ identities'[i] = h.request.email
    BY <1>1, <1>4, <1>9, <2>1, <2>4 DEF Provision!Works
  <2>6. h.inspected = UsersBefore(h.page) BY <2>1, <2>4
  <2>7. HandlerFits(h)' BY <1>1, <2>4, <2>5, <2>6 DEF HandlerFits, Provision!Outranks, UsersBefore
  <2>8. Provision!Works BY <1>9
  <2> QED BY <1>1, <1>6, <2>3, <2>4, <2>7, <2>8, QuietStep
<1> HIDE DEF read, found
<1>10. \/ found /\ Provision!Works /\ Provision!Goto(w, "grant")
       \/ ~found /\ Provision!LastPage(users, read) /\ Provision!Works /\ Provision!Goto(w, "create")
       \/ /\ ~found /\ ~Provision!LastPage(users, read) /\ Provision!Works
          /\ worker' = [worker EXCEPT ![w].page = @ + 1, ![w].inspected = read]
       \/ Provision!End(w) /\ Provision!Fault
  BY DEF Provision!ScanPage, Provision!Asked, users, read, found
<1> QED BY <1>7, <1>8, <1>9, <1>10

\* Whether it is put first or last, a new identity hides none.
LEMMA CreationKeepsList ==
  ASSUME ProvisionInv, NEW email \in Emails,
         identities' = <<email>> \o identities \/ identities' = Append(identities, email)
  PROVE  identities' \in Seq(Emails \cup Others) /\ Known
<1> DEFINE S == Emails \cup Others
<1>1. identities \in Seq(S) /\ Len(identities) \in Nat BY LenProperties DEF ProvisionInv
<1>2. email \in S /\ <<email>> \in Seq(S) /\ Len(<<email>>) = 1 OBVIOUS
<1> HIDE DEF S
<1>3. CASE identities' = <<email>> \o identities
  <2>1. /\ identities' \in Seq(S) /\ Len(identities') = 1 + Len(identities)
        /\ \A i \in 1..1 + Len(identities) :
             identities'[i] = IF i <= 1 THEN <<email>>[i] ELSE identities[i - 1]
    BY <1>1, <1>2, <1>3, ConcatProperties
  <2>2. ASSUME NEW i \in 1..Len(identities)
        PROVE  \E j \in 1..Len(identities') : j >= i /\ identities'[j] = identities[i]
    <3>1. i + 1 \in 1..1 + Len(identities) /\ ~(i + 1 <= 1) /\ (i + 1) - 1 = i /\ i + 1 >= i
      BY <1>1
    <3>2. identities'[i + 1] = identities[i] BY <2>1, <3>1
    <3> QED BY <2>1, <3>1, <3>2
  <2> QED BY <2>1, <2>2 DEF Known, S
<1>4. CASE identities' = Append(identities, email)
  <2>1. /\ identities' \in Seq(S) /\ Len(identities') = Len(identities) + 1
        /\ \A i \in 1..Len(identities) : identities'[i] = identities[i]
    BY <1>1, <1>2, <1>4, AppendProperties
  <2>2. ASSUME NEW i \in 1..Len(identities)
        PROVE  i \in 1..Len(identities') /\ i >= i
    BY <1>1, <2>1
  <2> QED BY <2>1, <2>2 DEF Known, S
<1> QED BY <1>3, <1>4

\* A new identity's password is with its worker.
LEMMA CreateKeeps ==
  ASSUME Provision!ProvisionAssumption, ProvisionInv, NEW w \in Workers, Provision!Create(w)
  PROVE  ProvisionInv'
<1>1. worker[w].stage = "create" /\ UNCHANGED <<active, grants>>
  BY DEF Provision!Create, Provision!At
<1> PICK g \in ProvisionWorking : g = worker[w] /\ g # Provision!Idle /\ HandlerFits(g)
  BY <1>1, HandlerType
<1> DEFINE email == g.request.email
<1>2. email \in Emails BY DEF ProvisionWorking, Provision!ProvisionAssumption, Provision!RequestType
<1>3. CASE Provision!End(w) /\ (Provision!Works \/ Provision!Fault) /\ UNCHANGED <<identities, orphaned>>
  BY <1>1, <1>3, EndStep
<1>4. CASE /\ identities' = <<email>> \o identities \/ identities' = Append(identities, email)
           /\ worker' = [worker EXCEPT ![w].stage = "grant",
                                       ![w].password = Provision!NewPassword(g.request.mode)]
           /\ orphaned' = IF g.request.mode = "service_credential"
                          THEN orphaned \cup {email} ELSE orphaned
           /\ Provision!Works
  <2> DEFINE word == Provision!NewPassword(g.request.mode)
             h == [g EXCEPT !.stage = "grant", !.password = word]
  <2>1. word \in {"none", "generated"} /\ (g.request.mode = "service_credential" => word = "generated")
    BY DEF Provision!NewPassword
  <2>2. worker' = [worker EXCEPT ![w] = h] BY <1>4 DEF ProvisionInv
  <2> HIDE DEF word
  <2>3. h \in ProvisionWorking /\ h.stage = "grant" /\ h.request = g.request /\ h.password = word
    BY <2>1 DEF ProvisionWorking, Provision!Stages
  <2> HIDE DEF h
  <2>4. HandlerFits(h)' BY <1>1, <2>3 DEF HandlerFits, Provision!Outranks
  <2>5. identities' \in Seq(Emails \cup Others) /\ Known BY <1>2, <1>4, CreationKeepsList
  <2>6. Provision!StepUpIsHeld' BY <1>1 DEF ProvisionInv, Provision!StepUpIsHeld
  <2>7. h # Provision!Idle BY <2>3 DEF Provision!Idle
  <2>8. \A e \in orphaned' : Holds(h, e) \/ (e \in orphaned /\ ~Holds(worker[w], e))
    BY <1>1, <1>4, <2>1, <2>3, <2>7 DEF Holds
  <2> QED BY <1>1, <1>4, <2>2, <2>3, <2>4, <2>5, <2>6, <2>8, HandlerStep
<1> QED BY <1>3, <1>4 DEF Provision!Create, Provision!Asked, Provision!Taken

\* Only a revocation, which is counted, makes the database refuse.
LEMMA GrantRoleKeeps ==
  ASSUME Provision!ProvisionAssumption, ProvisionInv, NEW w \in Workers, Provision!GrantRole(w)
  PROVE  ProvisionInv'
<1>1. worker[w].stage = "grant" /\ UNCHANGED <<active, identities, orphaned>>
  BY DEF Provision!GrantRole, Provision!At
<1> PICK g \in ProvisionWorking : g = worker[w] /\ g # Provision!Idle /\ HandlerFits(g)
  BY <1>1, HandlerType
<1> DEFINE r == g.request
           granted == [email |-> r.email, role |-> r.role, actor |-> r.actor, aal2 |-> r.aal2]
<1>2. Provision!StepUpIsHeld'
  <2>1. grants' \subseteq grants \cup {granted} BY DEF Provision!GrantRole, Provision!Asked
  <2>2. granted.role \in StepUp => granted.aal2 BY <1>1 DEF HandlerFits
  <2> HIDE DEF granted
  <2> QED BY <2>1, <2>2 DEF ProvisionInv, Provision!StepUpIsHeld
<1>3. identities' \in Seq(Emails \cup Others) /\ Known BY <1>1, Same DEF ProvisionInv
<1>4. (Provision!Works \/ Provision!Fault) /\ (Provision!End(w) \/ Provision!Goto(w, "respond"))
  BY DEF Provision!GrantRole
<1>5. CASE Provision!End(w)
  <2>1. faults' # 0
    <3>1. CASE Provision!Fault BY <3>1 DEF Provision!Fault, ProvisionInv
    <3>2. CASE Provision!Refused(w)
      <4>1. ~(r.actor \in active)
        BY <1>1, <3>2
        DEF Provision!Refused, Provision!CanGrant, Provision!Asked, HandlerFits
      <4>2. faults # 0 BY <4>1 DEF ProvisionInv, HandlerFits
      <4> QED BY <1>4, <4>2 DEF Provision!Works, Provision!Fault, ProvisionInv
    <3>3. ~Provision!Goto(w, "respond")
      <4>1. worker'[w] = Provision!Idle BY <1>5 DEF Provision!End, ProvisionInv
      <4>2. Provision!Goto(w, "respond") => worker'[w].stage = "respond"
        BY DEF Provision!Goto, ProvisionInv, ProvisionWorking
      <4> QED BY <4>1, <4>2 DEF Provision!Idle
    <3> QED BY <3>1, <3>2, <3>3 DEF Provision!GrantRole
  <2>2. worker' = [worker EXCEPT ![w] = Provision!Idle] /\ HandlerFits(Provision!Idle)'
    BY <1>5
    DEF Provision!End, HandlerFits
  <2> QED BY <1>1, <1>2, <1>3, <1>4, <2>1, <2>2, HandlerStep
<1>6. CASE Provision!Goto(w, "respond")
  <2> DEFINE h == [g EXCEPT !.stage = "respond"]
  <2>1. h \in ProvisionWorking /\ h.stage = "respond" /\ h.request = g.request /\ h.password = g.password
    BY DEF ProvisionWorking, Provision!Stages
  <2>2. worker' = [worker EXCEPT ![w] = h] BY <1>6 DEF Provision!Goto, ProvisionInv
  <2> HIDE DEF h
  <2>3. HandlerFits(h)' BY <1>1, <2>1 DEF HandlerFits, Provision!Outranks
  <2>4. \A e \in orphaned' : Holds(h, e) \/ (e \in orphaned /\ ~Holds(worker[w], e))
    BY <1>1, <2>1 DEF Holds, Provision!Idle
  <2> QED BY <1>1, <1>2, <1>3, <1>4, <2>1, <2>2, <2>3, <2>4, HandlerStep
<1> QED BY <1>4, <1>5, <1>6

\* An answer ends the invocation.
LEMMA RespondKeeps ==
  ASSUME Provision!ProvisionAssumption, ProvisionInv, NEW w \in Workers, Provision!Respond(w)
  PROVE  ProvisionInv'
<1>1. /\ UNCHANGED <<active, identities, grants>> /\ Provision!Works /\ worker[w].stage = "respond"
      /\ worker' = [worker EXCEPT ![w] = Provision!Idle]
      /\ orphaned' = IF worker[w].password = "none" THEN orphaned
                     ELSE orphaned \ {worker[w].request.email}
  BY DEF Provision!Respond, Provision!At, Provision!End, Provision!Asked
<1>2. HandlerFits(Provision!Idle)' BY DEF HandlerFits
<1>3. identities' \in Seq(Emails \cup Others) /\ Known BY <1>1, Same DEF ProvisionInv
<1>4. Provision!StepUpIsHeld' BY <1>1 DEF ProvisionInv, Provision!StepUpIsHeld
<1>5. \A e \in orphaned' : e \in orphaned /\ ~Holds(worker[w], e) BY <1>1 DEF Holds
<1> QED BY <1>1, <1>2, <1>3, <1>4, <1>5, HandlerStep

\* A lost invocation leaves the list as it was.
LEMMA ProvisionCrashKeeps ==
  ASSUME Provision!ProvisionAssumption, ProvisionInv, NEW w \in Workers, Provision!Crash(w)
  PROVE  ProvisionInv'
BY EndStep DEF Provision!Crash, Provision!At

\* Revocations and deletions are counted.
LEMMA OthersKeep ==
  ASSUME ProvisionInv, Provision!Fault, UNCHANGED <<worker, grants>>,
         identities' \in Seq(Emails \cup Others)
  PROVE  ProvisionInv'
<1>1. faults' \in Nat /\ faults <= faults' /\ faults' # 0 BY DEF Provision!Fault, ProvisionInv
<1>2. ASSUME NEW v \in Workers PROVE HandlerFits(worker[v])'
  <2> PICK k \in ProvisionWorking \cup {Provision!Idle} : k = worker[v] BY DEF ProvisionInv
  <2>1. HandlerFits(k) BY DEF ProvisionInv
  <2>2. HandlerFits(k)' BY <1>1, <2>1, OthersFit
  <2>3. worker'[v] = k OBVIOUS
  <2> QED BY <2>2, <2>3 DEF HandlerFits, Provision!Outranks
<1> QED BY <1>1, <1>2 DEF ProvisionInv, Provision!StepUpIsHeld

\* A list without one of its identities has the others once.
LEMMA DeleteKeepsList ==
  ASSUME ProvisionInv, NEW i \in Nat, Provision!Delete(i)
  PROVE  identities' \in Seq(Emails \cup Others)
<1> DEFINE S == Emails \cup Others
           L == Len(identities)
<1>1. L \in Nat /\ \A j \in 1..L : identities[j] \in S
  BY LenProperties, ElementOfSeq DEF ProvisionInv
<1>2. i \in 1..L BY DEF Provision!Delete
<1>3. i - 1 \in Int /\ i + 1 \in Int /\ L \in Int /\ 1 \in Int BY <1>1
<1>4. \A j \in 1..(i - 1) : identities[j] \in S BY <1>1, <1>2
<1>5. \A j \in (i + 1)..L : identities[j] \in S BY <1>1, <1>2
<1> HIDE DEF S, L
<1>6. SubSeq(identities, 1, i - 1) \in Seq(S) BY <1>3, <1>4, SubSeqProperties
<1>7. SubSeq(identities, i + 1, L) \in Seq(S) BY <1>3, <1>5, SubSeqProperties
<1> QED BY <1>6, <1>7, ConcatProperties DEF Provision!Delete, S, L

\* Every step keeps the invariant.
LEMMA ProvisionKeeps ==
  ASSUME Provision!ProvisionAssumption, ProvisionInv, [Provision!Next]_(Provision!vars)
  PROVE  ProvisionInv'
<1>1. ASSUME NEW a \in Actors, Provision!Revoke(a) PROVE ProvisionInv'
  BY <1>1, OthersKeep DEF Provision!Revoke, ProvisionInv
<1>2. ASSUME NEW i \in 1..Provision!Cardinality(Emails \cup Others), Provision!Delete(i)
      PROVE  ProvisionInv'
  <2>1. i \in Nat BY <1>2, LenProperties DEF Provision!Delete, ProvisionInv
  <2> QED BY <1>2, <2>1, DeleteKeepsList, OthersKeep DEF Provision!Delete
<1>3. ASSUME NEW r \in ProvisionRequests, Provision!Served(r) PROVE ProvisionInv'
  BY <1>3, ProvisionAcceptKeeps DEF Provision!Served
<1>4. ASSUME NEW w \in Workers, Provision!Step(w) \/ Provision!Crash(w) PROVE ProvisionInv'
  BY <1>4, MayGrantKeeps, CheckStepUpKeeps, ScanPageKeeps, CreateKeeps, GrantRoleKeeps,
     RespondKeeps, ProvisionCrashKeeps
  DEF Provision!Step
<1>5. CASE UNCHANGED Provision!vars
  <2>1. UNCHANGED <<active, identities, worker, grants, orphaned, faults>>
    BY <1>5
    DEF Provision!vars
  <2>2. ASSUME NEW v \in Workers PROVE HandlerFits(worker[v])'
    <3>1. HandlerFits(worker[v]) BY DEF ProvisionInv
    <3> QED BY <2>1, <3>1 DEF HandlerFits, Provision!Outranks
  <2> QED BY <2>1, <2>2 DEF ProvisionInv, Provision!StepUpIsHeld, Holds
<1> QED BY <1>1, <1>2, <1>3, <1>4, <1>5 DEF Provision!Next

\* The list holds the others, each once, at first.
LEMMA ProvisionStarts == ASSUME Provision!ProvisionAssumption, Provision!Init PROVE ProvisionInv
<1>1. PICK n \in Nat : n = Cardinality(Others) /\ ExistsBijection(1..n, Others)
  BY FS_CardinalityType, ProvisionCounts DEF Provision!ProvisionAssumption
<1>2. PICK f \in Bijection(1..n, Others) : TRUE BY <1>1 DEF ExistsBijection
<1>3. f \in [1..n -> Others] /\ \A i, j \in 1..n : f[i] = f[j] => i = j
  BY <1>2 DEF Bijection, Injection, IsInjective
<1>4. Provision!Listed(Others) \in [1..n -> Others]
  BY <1>1, <1>3, ProvisionCounts
  DEF Provision!Listed
<1>5. Provision!Listed(Others) \in Seq(Emails \cup Others) BY <1>4 DEF Seq
<1> QED BY <1>5 DEF Provision!Init, ProvisionInv, HandlerFits, Provision!StepUpIsHeld

\* Neither an identity that exists, nor a new one's password, nor the step-up check is
\* lost.
THEOREM ProvisioningStaysSafe ==
  Provision!ProvisionAssumption /\ Provision!Init /\ [][Provision!Next]_(Provision!vars) =>
    []Provision!ProvisioningIsSafe
<1>1. Provision!ProvisionAssumption /\ Provision!Init => ProvisionInv BY ProvisionStarts
<1>2. Provision!ProvisionAssumption /\ ProvisionInv /\ [Provision!Next]_(Provision!vars) => ProvisionInv'
  BY ProvisionKeeps
<1>3. ProvisionInv => Provision!ProvisioningIsSafe
  <2> SUFFICES ASSUME ProvisionInv PROVE Provision!ProvisioningIsSafe OBVIOUS
  <2>1. Provision!IdentityIsReused
    BY DEF ProvisionInv, HandlerFits, Provision!IdentityIsReused, Provision!At, Provision!Idle
  <2>2. Provision!PasswordIsHandedOver
    BY DEF ProvisionInv, Provision!PasswordIsHandedOver, Holds, Provision!Asked
  <2> QED BY <2>1, <2>2 DEF ProvisionInv, Provision!ProvisioningIsSafe
<1>4. Provision!ProvisionAssumption /\ Provision!Init /\ [][Provision!Next]_(Provision!vars) => []ProvisionInv
  <2> SUFFICES ASSUME Provision!ProvisionAssumption
               PROVE  Provision!Init /\ [][Provision!Next]_(Provision!vars) => []ProvisionInv
    OBVIOUS
  <2> QED BY <1>1, <1>2, PTL
<1> QED BY <1>3, <1>4, PTL

\* What admin-provision-user keeps beside its invocations, and what it counts.
TablesTyped ==
  /\ active \subseteq Actors /\ grants \subseteq Provision!Grant
  /\ orphaned \subseteq Emails /\ faults \in 0..ProvisionMaxFaults

\* A grant is of what was asked for.
LEMMA RequestsTyped ==
  ASSUME Provision!ProvisionAssumption, ProvisionInv, NEW w \in Workers, worker[w].stage # "idle"
  PROVE  LET r == Provision!Asked(w)
         IN  /\ r.email \in Emails
             /\ [email |-> r.email, role |-> r.role, actor |-> r.actor, aal2 |-> r.aal2]
                  \in Provision!Grant
<1>1. worker[w] \in ProvisionWorking /\ worker[w] # Provision!Idle /\ HandlerFits(worker[w])
  BY HandlerType
<1>2. worker[w].request \in ProvisionRequests BY <1>1 DEF ProvisionWorking
<1>3. worker[w].request \in Provision!RequestType BY <1>2 DEF Provision!ProvisionAssumption
<1>4. worker[w].request.actor \in Actors BY <1>1 DEF HandlerFits
<1> QED BY <1>3, <1>4 DEF Provision!RequestType, Provision!Grant, Provision!Asked

LEMMA TablesKeep ==
  ASSUME Provision!ProvisionAssumption, ProvisionInv, TablesTyped,
         [Provision!Next]_(Provision!vars)
  PROVE  TablesTyped'
<1>1. Provision!Works \/ Provision!Fault => faults' \in 0..ProvisionMaxFaults
  BY DEF Provision!Works, Provision!Fault, TablesTyped, Provision!ProvisionAssumption
<1>2. CASE UNCHANGED Provision!vars BY <1>2 DEF Provision!vars, TablesTyped
<1>3. ASSUME NEW r \in ProvisionRequests, Provision!Served(r) PROVE TablesTyped'
  BY <1>1, <1>3 DEF Provision!Served, Provision!Accept, TablesTyped
<1>4. ASSUME NEW w \in Workers, Provision!Crash(w) \/ Provision!MayGrant(w) \/ Provision!ScanPage(w)
      PROVE  TablesTyped'
  BY <1>1, <1>4 DEF Provision!Crash, Provision!MayGrant, Provision!ScanPage, TablesTyped
<1>5. ASSUME NEW w \in Workers, Provision!CheckStepUp(w) PROVE TablesTyped'
  BY <1>1, <1>5 DEF Provision!CheckStepUp, TablesTyped
<1>6. ASSUME NEW w \in Workers, Provision!Create(w) PROVE TablesTyped'
  <2>1. Provision!Asked(w).email \in Emails
    BY <1>6, RequestsTyped DEF Provision!Create, Provision!At
  <2>2. orphaned' \subseteq orphaned \cup {Provision!Asked(w).email} BY <1>6 DEF Provision!Create
  <2>3. UNCHANGED <<active, grants>> /\ (Provision!Works \/ Provision!Fault)
    BY <1>6 DEF Provision!Create
  <2> QED BY <1>1, <2>1, <2>2, <2>3 DEF TablesTyped
<1>7. ASSUME NEW w \in Workers, Provision!GrantRole(w) PROVE TablesTyped'
  <2> PICK granted \in Provision!Grant :
         granted = [email |-> Provision!Asked(w).email, role |-> Provision!Asked(w).role,
                    actor |-> Provision!Asked(w).actor, aal2 |-> Provision!Asked(w).aal2]
    BY <1>7, RequestsTyped DEF Provision!GrantRole, Provision!At
  <2>1. grants' \subseteq grants \cup {granted} BY <1>7 DEF Provision!GrantRole
  <2>2. UNCHANGED <<active, orphaned>> /\ (Provision!Works \/ Provision!Fault)
    BY <1>7 DEF Provision!GrantRole
  <2> QED BY <1>1, <2>1, <2>2 DEF TablesTyped
<1>8. ASSUME NEW w \in Workers, Provision!Respond(w) PROVE TablesTyped'
  BY <1>1, <1>8 DEF Provision!Respond, TablesTyped
<1>9. ASSUME NEW a \in Actors, Provision!Revoke(a) PROVE TablesTyped'
  BY <1>1, <1>9 DEF Provision!Revoke, TablesTyped
<1>10. ASSUME NEW i \in 1..Provision!Cardinality(Emails \cup Others), Provision!Delete(i)
       PROVE  TablesTyped'
  BY <1>1, <1>10 DEF Provision!Delete, TablesTyped
<1> QED
  BY <1>2, <1>3, <1>4, <1>5, <1>6, <1>7, <1>8, <1>9, <1>10 DEF Provision!Next, Provision!Step

\* admin-provision-user keeps its types: a role is only granted by a member of staff, and
\* only to an email that was asked for.
THEOREM ProvisionTypeCorrect ==
  ASSUME Provision!ProvisionAssumption
  PROVE  Provision!Init /\ [][Provision!Next]_(Provision!vars) => []Provision!TypeOK
<1> USE Provision!ProvisionAssumption
<1>1. Provision!Init => ProvisionInv /\ TablesTyped
  BY ProvisionStarts DEF Provision!Init, Provision!ProvisionAssumption, TablesTyped
<1>2. ProvisionInv /\ TablesTyped /\ [Provision!Next]_(Provision!vars) =>
        (ProvisionInv /\ TablesTyped)'
  BY ProvisionKeeps, TablesKeep
<1>3. ProvisionInv /\ TablesTyped => Provision!TypeOK
  <2> SUFFICES ASSUME ProvisionInv, TablesTyped PROVE Provision!TypeOK OBVIOUS
  <2>1. \A i \in 1..Len(identities) : identities[i] \in Emails \cup Others
    BY ElementOfSeq DEF ProvisionInv
  <2>2. ASSUME NEW w \in Workers, worker[w] # Provision!Idle
        PROVE  /\ worker[w].stage \in Provision!Stages /\ worker[w].page \in Nat \ {0}
               /\ worker[w].password \in {"none", "generated"}
    <3>1. worker[w] \in ProvisionWorking BY <2>2 DEF ProvisionInv
    <3> QED BY <3>1 DEF ProvisionWorking
  <2> QED BY <2>1, <2>2 DEF TablesTyped, Provision!TypeOK
<1> QED BY <1>1, <1>2, <1>3, PTL
-----------------------------------------------------------------------------
(* The hourly search for messages that went nowhere.                       *)

\* When hour h's scheduled run is due.
DueAt(h) == h * Hour + Phase
LastHour == HourlyHorizon \div Hour
\* The hours whose run came after the message, or was missed.
After(m) == {h \in scheduled : DueAt(h) > came[m]}
First(m, f) == f \in After(m) /\ \A g \in After(m) : f <= g
CronKey(h) == [by |-> Hourly!Cron, hour |-> h]
OnRecord(m) == \E e \in exceptions : e.message = m

\* Runs take place when they are due: no hour is passed over.
RunsAreDue ==
  /\ now \in 0..HourlyHorizon /\ scheduled \subseteq 0..LastHour
  /\ \A h \in scheduled : DueAt(h) <= now
  /\ \A h \in Nat : DueAt(h) < now => h \in scheduled
  /\ \A h \in 0..LastHour : runs[CronKey(h)] # "none" => h \in scheduled
MessagesCame ==
  /\ state \in [HourlyMessages -> Hourly!States]
  /\ sent \in [HourlyMessages -> Nat] /\ came \in [HourlyMessages -> Nat]
  /\ \A m \in HourlyMessages : sent[m] <= came[m] /\ came[m] <= now
ReconciliationInv ==
  /\ RunsAreDue /\ MessagesCame
  /\ DOMAIN runs = Hourly!Keys
  /\ exceptions \subseteq Hourly!Exceptions
  /\ \A m \in HourlyMessages : After(m) # {} =>
       \E f \in After(m) :
         /\ First(m, f)
         /\ Hourly!Unsettled(m) /\ came[m] - sent[m] <= Window - Hour /\ runs[CronKey(f)] # "none" =>
              OnRecord(m)

(* Hours.                                                                    *)

\* The constants one by one.
LEMMA HourlyConstants ==
  ASSUME Hourly!ReconciliationAssumption
  PROVE  /\ Hour \in Nat \ {0} /\ Phase \in 0..Hour - 1 /\ Window \in Nat /\ HourlyHorizon \in Nat
         /\ MinAge \in Nat /\ HourlyMaxLate \in Nat /\ Hour <= Window /\ Windows \subseteq Nat \ {0}
BY DEF Hourly!ReconciliationAssumption

\* A number is its hour and what is over.
LEMMA Division ==
  ASSUME Hourly!ReconciliationAssumption, NEW n \in Nat
  PROVE  \E q \in Nat : \E r \in 0..Hour - 1 :
           q = n \div Hour /\ r = n % Hour /\ n = q * Hour + r
<1>1. Hour \in Nat \ {0} BY HourlyConstants
<1>2. n % Hour = n - Hour * (n \div Hour) BY <1>1
<1> PICK q \in Nat : q = n \div Hour BY <1>1
<1> PICK r \in 0..Hour - 1 : r = n % Hour BY <1>1
<1> PICK x \in Int : x = Hour * q BY <1>1
<1>3. q * Hour = x BY <1>1
<1>4. r = n - x BY <1>2
<1>5. n = x + r BY <1>1, <1>4
<1> QED BY <1>3, <1>5

\* Later hours begin an hour later at least.
LEMMA HourMultiples ==
  ASSUME Hourly!ReconciliationAssumption, NEW g \in Nat, NEW h \in Nat
  PROVE  /\ g * Hour \in Nat /\ h * Hour \in Nat
         /\ g < h => g * Hour + Hour <= h * Hour
         /\ (g + 1) * Hour = g * Hour + Hour
<1>1. Hour \in Nat \ {0} BY HourlyConstants
<1>2. (g + 1) * Hour = g * Hour + Hour BY <1>1
<1>3. g * Hour \in Nat /\ h * Hour \in Nat BY <1>1
<1>4. ASSUME g < h PROVE g * Hour + Hour <= h * Hour
  <2>1. PICK d \in Nat : h = g + 1 + d BY <1>4
  <2> PICK x \in Nat : x = (g + 1) * Hour BY <1>1
  <2> PICK y \in Nat : y = d * Hour BY <1>1
  <2>2. h * Hour = x + y BY <1>1, <2>1
  <2>3. x + y >= x OBVIOUS
  <2> QED BY <1>2, <2>2, <2>3
<1> QED BY <1>2, <1>3, <1>4

\* A number is in one hour.
LEMMA HourOf ==
  ASSUME Hourly!ReconciliationAssumption, NEW n \in Nat, NEW h \in Nat
  PROVE  /\ n = DueAt(h) <=> n % Hour = Phase /\ n \div Hour = h
         /\ n <= HourlyHorizon => n \div Hour \in 0..LastHour
<1>0. \A i, j \in Nat : i < j \/ j < i \/ i = j OBVIOUS
<1> PICK q \in Nat, r \in 0..Hour - 1 : q = n \div Hour /\ r = n % Hour /\ n = q * Hour + r
  BY Division
<1> PICK x \in Nat : x = q * Hour BY HourMultiples
<1> PICK y \in Nat : y = h * Hour BY HourMultiples
<1>1. n = x + r OBVIOUS
<1>2. Hour \in Nat \ {0} /\ Phase \in 0..Hour - 1 /\ HourlyHorizon \in Nat BY HourlyConstants
<1>3. (q < h => x + Hour <= y) /\ (h < q => y + Hour <= x) BY HourMultiples
<1>4. n = y + Phase => q = h
  <2>1. n = y + Phase => ~(q < h) /\ ~(h < q) BY <1>1, <1>2, <1>3
  <2> QED BY <1>0, <2>1
<1>5. n = y + Phase => r = Phase
  <2>1. q = h => x = y OBVIOUS
  <2> QED BY <1>1, <1>2, <1>4, <2>1
<1>6. q = h /\ r = Phase => n = y + Phase
  <2>1. q = h => x = y OBVIOUS
  <2> QED BY <1>1, <2>1
<1>7. n <= HourlyHorizon => q <= LastHour
  <2> PICK l \in Nat, s \in 0..Hour - 1 : l = LastHour /\ HourlyHorizon = l * Hour + s
    BY <1>2, Division DEF LastHour
  <2> PICK z \in Nat : z = l * Hour BY HourMultiples
  <2>1. HourlyHorizon = z + s OBVIOUS
  <2>2. l < q => z + Hour <= x BY HourMultiples
  <2> QED BY <1>1, <1>2, <2>1, <2>2
<1>8. LastHour \in Nat BY <1>2, Division DEF LastHour
<1> QED BY <1>4, <1>5, <1>6, <1>7, <1>8 DEF DueAt

\* Hours fall due in their order, one hour apart.
LEMMA HoursInOrder ==
  ASSUME Hourly!ReconciliationAssumption, NEW g \in Nat, NEW h \in Nat
  PROVE  /\ DueAt(g) \in Nat /\ DueAt(h) \in Nat
         /\ g < h <=> DueAt(g) < DueAt(h)
         /\ g <= h <=> DueAt(g) <= DueAt(h)
         /\ DueAt(g + 1) = DueAt(g) + Hour
         /\ g >= 1 => DueAt(g - 1) = DueAt(g) - Hour
<1>1. Hour \in Nat \ {0} /\ Phase \in Nat BY HourlyConstants
<1> PICK x \in Nat : x = g * Hour BY HourMultiples
<1> PICK y \in Nat : y = h * Hour BY HourMultiples
<1>2. (g < h => x + Hour <= y) /\ (h < g => y + Hour <= x) /\ (g = h => x = y) BY HourMultiples
<1>3. (g + 1) * Hour = x + Hour BY HourMultiples
<1>4. g >= 1 => (g - 1) * Hour + Hour = x /\ (g - 1) * Hour \in Nat
  <2>1. ASSUME g >= 1 PROVE g - 1 \in Nat /\ (g - 1) + 1 = g BY <2>1
  <2> QED BY <2>1, HourMultiples
<1> QED BY <1>1, <1>2, <1>3, <1>4 DEF DueAt

\* A message stays on record, and what is known of its runs stays, while nothing but
\* later runs is added.
LEMMA RecordsKeep ==
  ASSUME Hourly!ReconciliationAssumption, ReconciliationInv, RunsAreDue', MessagesCame',
         DOMAIN runs' = Hourly!Keys,
         exceptions' \subseteq Hourly!Exceptions,
         \A m \in HourlyMessages : OnRecord(m) => OnRecord(m)',
         NEW new \in SUBSET Nat, scheduled' = scheduled \cup new,
         \A h \in new, g \in scheduled : g < h,
         \A h \in scheduled : runs[CronKey(h)] = "none" => runs'[CronKey(h)] = "none",
         \A m \in HourlyMessages : came'[m] # came[m] => After(m)' = {},
         \A m \in HourlyMessages : came'[m] = came[m] =>
           sent'[m] = sent[m] /\ (Hourly!Unsettled(m)' => Hourly!Unsettled(m)),
         \A m \in HourlyMessages : After(m) = {} /\ After(m)' # {} =>
           \E f \in After(m)' :
             /\ First(m, f)'
             /\ Hourly!Unsettled(m)' /\ came'[m] - sent'[m] <= Window - Hour /\ runs'[CronKey(f)] # "none" =>
                  OnRecord(m)'
  PROVE  ReconciliationInv'
<1> SUFFICES ASSUME NEW m \in HourlyMessages, After(m)' # {}
             PROVE  \E f \in After(m)' :
                      /\ First(m, f)'
                      /\ Hourly!Unsettled(m)' /\ came'[m] - sent'[m] <= Window - Hour
                           /\ runs'[CronKey(f)] # "none" => OnRecord(m)'
  BY DEF ReconciliationInv, CronKey
<1>1. came'[m] = came[m] OBVIOUS
<1>2. CASE After(m) # {}
  <2>1. PICK f \in After(m) :
          /\ First(m, f)
          /\ Hourly!Unsettled(m) /\ came[m] - sent[m] <= Window - Hour /\ runs[CronKey(f)] # "none" =>
               OnRecord(m)
    BY <1>2 DEF ReconciliationInv
  <2>2. f \in scheduled /\ f \in Nat /\ f \in After(m)'
    BY <1>1, <2>1 DEF After, ReconciliationInv, RunsAreDue, DueAt
  <2>3. ASSUME NEW g \in After(m)' PROVE f <= g
    <3>1. g \in scheduled \/ g \in new BY <2>3 DEF After
    <3>2. g \in scheduled => g \in After(m) BY <1>1, <2>3 DEF After, DueAt
    <3>3. g \in new => f < g /\ g \in Nat BY <2>2
    <3>4. g \in new => f <= g BY <2>2, <3>3
    <3>5. g \in After(m) => f <= g BY <2>1 DEF First
    <3> QED BY <3>1, <3>2, <3>4, <3>5
  <2>4. First(m, f)' BY <2>2, <2>3 DEF First
  <2> QED BY <1>1, <2>1, <2>2, <2>4
<1> QED BY <1>2

\* Nothing is said of time and runs.
LEMMA HourlyQuietKeeps ==
  ASSUME Hourly!ReconciliationAssumption, ReconciliationInv, UNCHANGED <<now, scheduled>>,
         DOMAIN runs' = Hourly!Keys,
         \A h \in 0..LastHour : runs'[CronKey(h)] # "none" <=> runs[CronKey(h)] # "none",
         MessagesCame', exceptions' \subseteq Hourly!Exceptions,
         \A m \in HourlyMessages : OnRecord(m) => OnRecord(m)',
         \A m \in HourlyMessages : came'[m] # came[m] => After(m)' = {},
         \A m \in HourlyMessages : came'[m] = came[m] =>
           sent'[m] = sent[m] /\ (Hourly!Unsettled(m)' => Hourly!Unsettled(m))
  PROVE  ReconciliationInv'
<1>1. RunsAreDue' BY DEF ReconciliationInv, RunsAreDue, DueAt, CronKey
<1>2. \A m \in HourlyMessages : came'[m] = came[m] => After(m)' = After(m)
  BY DEF After, DueAt
<1>3. \A h \in scheduled : runs[CronKey(h)] = "none" => runs'[CronKey(h)] = "none"
  BY DEF ReconciliationInv, RunsAreDue
<1>4. \A m \in HourlyMessages : ~(After(m) = {} /\ After(m)' # {}) BY <1>2
<1>5. scheduled' = scheduled \cup {} /\ {} \in SUBSET Nat OBVIOUS
<1> QED BY <1>1, <1>3, <1>4, <1>5, RecordsKeep

\* Until a due run took place, time stands still.
LEMMA TickKeeps ==
  ASSUME Hourly!ReconciliationAssumption, ReconciliationInv, Hourly!Tick PROVE ReconciliationInv'
<1>1. /\ now \in Nat /\ now' = now + 1 /\ now + 1 \in 0..HourlyHorizon /\ now <= HourlyHorizon
      /\ UNCHANGED <<state, sent, came, runs, exceptions, scheduled>>
  BY HourlyConstants DEF Hourly!Tick, ReconciliationInv, RunsAreDue
<1>2. ASSUME NEW h \in Nat, DueAt(h) < now + 1 PROVE h \in scheduled
  <2>1. DueAt(h) \in Nat BY HoursInOrder
  <2>2. DueAt(h) < now => h \in scheduled BY DEF ReconciliationInv, RunsAreDue
  <2>3. DueAt(h) = now => h \in scheduled
    BY <1>1, HourOf DEF Hourly!Tick, Hourly!Due, Hourly!ThisHour
  <2> QED BY <1>1, <1>2, <2>1, <2>2, <2>3
<1>3. \A h \in scheduled : DueAt(h) <= now /\ DueAt(h) \in Nat
  <2>1. \A h \in scheduled : h \in Nat /\ DueAt(h) <= now BY DEF ReconciliationInv, RunsAreDue
  <2> QED BY <2>1, HoursInOrder
<1>4. \A h \in scheduled : DueAt(h) <= now + 1 BY <1>1, <1>3
<1>5. RunsAreDue' BY <1>1, <1>2, <1>4 DEF ReconciliationInv, RunsAreDue, DueAt, CronKey
<1>6. \A m \in HourlyMessages : came[m] \in Nat /\ came[m] <= now
  BY DEF ReconciliationInv, MessagesCame
<1>7. MessagesCame' BY <1>1, <1>6 DEF ReconciliationInv, MessagesCame
<1>8. \A m \in HourlyMessages : After(m)' = After(m) BY <1>1 DEF After, DueAt
<1>9. \A h \in scheduled : runs[CronKey(h)] = "none" => runs'[CronKey(h)] = "none" BY <1>1
<1>10. \A m \in HourlyMessages : OnRecord(m) => OnRecord(m)' BY <1>1 DEF OnRecord
<1>11. scheduled' = scheduled \cup {} /\ {} \in SUBSET Nat BY <1>1
<1>12. DOMAIN runs' = Hourly!Keys /\ exceptions' \subseteq Hourly!Exceptions
  BY <1>1
  DEF ReconciliationInv
<1>13. \A m \in HourlyMessages : came'[m] = came[m] /\ sent'[m] = sent[m]
         /\ (Hourly!Unsettled(m)' => Hourly!Unsettled(m))
  BY <1>1 DEF Hourly!Unsettled
<1> QED BY <1>5, <1>7, <1>8, <1>9, <1>10, <1>11, <1>12, <1>13, RecordsKeep

\* A message that arrives has no run after it yet; one that is settled needs no record.
LEMMA ArriveKeeps ==
  ASSUME Hourly!ReconciliationAssumption, ReconciliationInv, NEW m \in HourlyMessages,
         Hourly!Arrive(m) \/ Hourly!Settle(m)
  PROVE  ReconciliationInv'
<1>1. UNCHANGED <<now, runs, exceptions, scheduled>> BY DEF Hourly!Arrive, Hourly!Settle
<1>2. now \in Nat BY HourlyConstants DEF ReconciliationInv, RunsAreDue
<1>3. CASE Hourly!Settle(m)
  <2>1. UNCHANGED <<sent, came>> BY <1>3 DEF Hourly!Settle
  <2>2. MessagesCame'
    BY <1>1, <1>3, <2>1
    DEF Hourly!Settle, ReconciliationInv, MessagesCame, Hourly!States
  <2>3. \A n \in HourlyMessages : Hourly!Unsettled(n)' => Hourly!Unsettled(n)
    BY <1>3 DEF Hourly!Settle, Hourly!Unsettled, ReconciliationInv, MessagesCame
  <2> QED BY <1>1, <2>1, <2>2, <2>3, HourlyQuietKeeps DEF ReconciliationInv, OnRecord
<1>4. CASE Hourly!Arrive(m)
  <2>1. PICK s \in 0..now : sent' = [sent EXCEPT ![m] = s] BY <1>4 DEF Hourly!Arrive
  <2>2. PICK t \in {"orphan", "loose"} : state' = [state EXCEPT ![m] = t] BY <1>4 DEF Hourly!Arrive
  <2>3. came' = [came EXCEPT ![m] = now] BY <1>4 DEF Hourly!Arrive
  <2>4. MessagesCame'
    BY <1>1, <1>2, <2>1, <2>2, <2>3 DEF ReconciliationInv, MessagesCame, Hourly!States
  <2>5. After(m)' = {}
    <3>1. came'[m] = now BY <2>3 DEF ReconciliationInv, MessagesCame
    <3>2. \A h \in scheduled : DueAt(h) \in Nat /\ DueAt(h) <= now
      <4>1. \A h \in scheduled : h \in Nat /\ DueAt(h) <= now BY DEF ReconciliationInv, RunsAreDue
      <4> QED BY <4>1, HoursInOrder
    <3>3. \A h \in scheduled : ~(DueAt(h) > now) BY <1>2, <3>2
    <3> QED BY <1>1, <3>1, <3>3 DEF After, DueAt
  <2>6. ASSUME NEW n \in HourlyMessages, n # m
        PROVE  came'[n] = came[n] /\ sent'[n] = sent[n] /\ state'[n] = state[n]
    BY <2>1, <2>2, <2>3, <2>6 DEF ReconciliationInv, MessagesCame
  <2>7. CASE came'[m] # came[m]
    BY <1>1, <2>4, <2>5, <2>6, <2>7, HourlyQuietKeeps
    DEF ReconciliationInv, OnRecord, Hourly!Unsettled
  <2>8. CASE came'[m] = came[m]
    <3>1. \A n \in HourlyMessages : After(n)' = After(n) BY <1>1, <2>6, <2>8 DEF After, DueAt
    <3>2. RunsAreDue' BY <1>1 DEF ReconciliationInv, RunsAreDue, DueAt, CronKey
    <3>3. ASSUME NEW n \in HourlyMessages, After(n)' # {}
          PROVE  n # m /\ OnRecord(n)' = OnRecord(n) /\ came'[n] = came[n] /\ sent'[n] = sent[n]
                 /\ state'[n] = state[n] /\ After(n) # {}
      BY <1>1, <2>5, <2>6, <3>1, <3>3 DEF OnRecord
    <3> QED
      BY <1>1, <2>4, <3>1, <3>2, <3>3 DEF ReconciliationInv, First, Hourly!Unsettled, CronKey
  <2> QED BY <2>7, <2>8
<1> QED BY <1>3, <1>4

\* What is due is the run of this hour, after all that took place.
LEMMA DueNow ==
  ASSUME Hourly!ReconciliationAssumption, ReconciliationInv, Hourly!Due
  PROVE  \E h \in 0..LastHour :
           /\ h = Hourly!ThisHour /\ now = DueAt(h) /\ h \notin scheduled /\ h \in Nat
           /\ Hourly!Key(Hourly!Cron) = CronKey(h) /\ CronKey(h) \in Hourly!Keys
           /\ runs[CronKey(h)] = "none"
           /\ \A g \in scheduled : g \in Nat /\ g < h
<1>1. now \in Nat /\ now <= HourlyHorizon BY HourlyConstants DEF ReconciliationInv, RunsAreDue
<1> PICK h \in 0..LastHour : h = Hourly!ThisHour BY <1>1, HourOf DEF Hourly!ThisHour
<1>2. h \in Nat /\ now = DueAt(h) /\ h \notin scheduled
  BY <1>1, HourOf DEF Hourly!Due, Hourly!ThisHour
<1>3. Hourly!Key(Hourly!Cron) = CronKey(h) /\ CronKey(h) \in Hourly!Keys
  BY DEF Hourly!Key, CronKey, Hourly!Keys, LastHour
<1>4. runs[CronKey(h)] = "none" BY <1>2 DEF ReconciliationInv, RunsAreDue
<1>5. ASSUME NEW g \in scheduled PROVE g \in Nat /\ g < h
  <2>1. g \in Nat /\ DueAt(g) <= now BY DEF ReconciliationInv, RunsAreDue
  <2>2. g <= h BY <1>2, <2>1, HoursInOrder
  <2>3. g # h BY <1>2
  <2> QED BY <1>2, <2>1, <2>2, <2>3
<1> QED BY <1>2, <1>3, <1>4, <1>5

\* The first run after a message's arrival looks back far enough to see it.
LEMMA FirstRunSees ==
  ASSUME Hourly!ReconciliationAssumption, ReconciliationInv, NEW h \in Nat, now = DueAt(h),
         NEW m \in HourlyMessages, After(m) = {}, DueAt(h) > came[m],
         Hourly!Unsettled(m), came[m] - sent[m] <= Window - Hour
  PROVE  m \in Hourly!Found(Window)
<1>1. /\ sent[m] \in Nat /\ came[m] \in Nat /\ sent[m] <= came[m] /\ now \in Nat
      /\ Hour \in Nat /\ Window \in Nat /\ Phase \in 0..Hour - 1
  BY HourlyConstants DEF ReconciliationInv, MessagesCame, RunsAreDue
<1>2. came[m] >= now - Hour
  <2>1. CASE h >= 1
    <3>1. h - 1 \in Nat /\ DueAt(h - 1) = now - Hour /\ DueAt(h - 1) < now
      BY <1>1, <2>1, HourlyConstants, HoursInOrder
    <3>2. h - 1 \in scheduled BY <3>1 DEF ReconciliationInv, RunsAreDue
    <3> QED BY <1>1, <3>1, <3>2 DEF After
  <2>2. CASE h = 0
    <3>1. DueAt(0) = Phase BY <1>1 DEF DueAt
    <3> QED BY <1>1, <2>2, <3>1
  <2> QED BY <2>1, <2>2
<1>3. sent[m] >= now - Window /\ sent[m] < now BY <1>1, <1>2
<1> QED BY <1>3 DEF Hourly!Found

\* What a run records has a type, and says something of every message it found.
LEMMA RecordsFit ==
  ASSUME ReconciliationInv, NEW k \in Hourly!Keys, NEW width, runs[k] = "none" 
  PROVE  /\ Hourly!Recorded(k, Hourly!Found(width)) \subseteq Hourly!Exceptions
         /\ \A m \in Hourly!Found(width) :
              \E e \in Hourly!Recorded(k, Hourly!Found(width)) : e.message = m
<1>1. \A m \in Hourly!Found(width) : m \in HourlyMessages /\ state[m] \in {"orphan", "loose"}
  BY DEF Hourly!Found, Hourly!Unsettled
<1>2. Hourly!Recorded(k, Hourly!Found(width)) =
        {[key |-> k, message |-> m, kind |-> state[m], open |-> TRUE] : m \in Hourly!Found(width)}
  BY DEF Hourly!Recorded
<1>3. \A m \in Hourly!Found(width) :
        [key |-> k, message |-> m, kind |-> state[m], open |-> TRUE] \in Hourly!Exceptions
  BY <1>1 DEF Hourly!Exceptions
<1> PICK found : found = Hourly!Found(width) OBVIOUS
<1>4. \A m \in found : \E e \in Hourly!Recorded(k, found) : e.message = m
  <2> SUFFICES ASSUME NEW m \in found PROVE \E e \in Hourly!Recorded(k, found) : e.message = m OBVIOUS
  <2>1. [key |-> k, message |-> m, kind |-> state[m], open |-> TRUE] \in Hourly!Recorded(k, found)
    BY <1>2
  <2> QED BY <2>1
<1> QED BY <1>2, <1>3, <1>4

\* A due run takes place or is missed; either way its hour is over.
LEMMA DueKeeps ==
  ASSUME Hourly!ReconciliationAssumption, ReconciliationInv, Hourly!CronRun \/ Hourly!CronMissed
  PROVE  ReconciliationInv'
<1> PICK h \in 0..LastHour :
       /\ h = Hourly!ThisHour /\ now = DueAt(h) /\ h \notin scheduled /\ h \in Nat
       /\ Hourly!Key(Hourly!Cron) = CronKey(h) /\ CronKey(h) \in Hourly!Keys /\ runs[CronKey(h)] = "none"
       /\ \A g \in scheduled : g \in Nat /\ g < h
  BY DueNow DEF Hourly!CronRun, Hourly!CronMissed
<1>1. UNCHANGED <<now, sent, came>> /\ scheduled' = scheduled \cup {h}
  BY DEF Hourly!CronRun, Hourly!CronMissed
<1>2. now \in Nat BY HourlyConstants DEF ReconciliationInv, RunsAreDue
<1>3. \A k \in Hourly!Keys : k # CronKey(h) => runs'[k] = runs[k]
  BY DEF Hourly!CronRun, Hourly!CronMissed, Hourly!Scheduled, Hourly!Run, ReconciliationInv
<1>4. DOMAIN runs' = Hourly!Keys
  BY DEF Hourly!CronRun, Hourly!CronMissed, Hourly!Scheduled, Hourly!Run, ReconciliationInv
<1>5. \A g \in 0..LastHour : CronKey(g) \in Hourly!Keys /\ (g # h => CronKey(g) # CronKey(h))
  BY DEF CronKey, Hourly!Keys, LastHour
<1>6. RunsAreDue'
  <2>1. \A g \in scheduled' : DueAt(g) <= now BY <1>1, <1>2 DEF ReconciliationInv, RunsAreDue
  <2>2. \A g \in 0..LastHour : runs'[CronKey(g)] # "none" => g \in scheduled'
    BY <1>1, <1>3, <1>5 DEF ReconciliationInv, RunsAreDue
  <2> QED BY <1>1, <2>1, <2>2 DEF ReconciliationInv, RunsAreDue, DueAt, CronKey
<1>7. /\ state' \in [HourlyMessages -> Hourly!States]
      /\ \A m \in HourlyMessages : Hourly!Unsettled(m)' => Hourly!Unsettled(m)
  <2>1. CASE Hourly!CronMissed
    BY <2>1
    DEF Hourly!CronMissed, ReconciliationInv, MessagesCame, Hourly!Unsettled
  <2>2. CASE Hourly!CronRun
    <3>1. PICK given : state' = [m \in HourlyMessages |-> IF m \in given THEN "cased" ELSE state[m]]
      BY <2>2 DEF Hourly!CronRun, Hourly!Scheduled
    <3>2. \A m \in HourlyMessages : state'[m] = "cased" \/ state'[m] = state[m] BY <3>1
    <3>3. state' \in [HourlyMessages -> Hourly!States]
      BY <3>1 DEF ReconciliationInv, MessagesCame, Hourly!States
    <3> QED BY <3>2, <3>3 DEF Hourly!Unsettled
  <2> QED BY <2>1, <2>2
<1>8. MessagesCame' BY <1>1, <1>7 DEF ReconciliationInv, MessagesCame
<1>9. /\ \A m \in HourlyMessages : OnRecord(m) => OnRecord(m)'
      /\ Hourly!CronRun => \A m \in Hourly!Found(Window) : OnRecord(m)'
      /\ exceptions' \subseteq Hourly!Exceptions
  <2>1. CASE Hourly!CronMissed /\ ~Hourly!CronRun
    BY <2>1
    DEF Hourly!CronMissed, OnRecord, ReconciliationInv
  <2>2. CASE Hourly!CronRun
    <3> PICK noted : noted = exceptions \cup Hourly!Recorded(CronKey(h), Hourly!Found(Window)) OBVIOUS
    <3>1. PICK given : exceptions' =
            {[e EXCEPT !.open = @ /\ ~(e.kind = "loose" /\ e.message \in given)] : e \in noted}
      BY <2>2 DEF Hourly!CronRun, Hourly!Scheduled
    <3>2. Hourly!Recorded(CronKey(h), Hourly!Found(Window)) \subseteq Hourly!Exceptions
      BY RecordsFit
    <3>3. noted \subseteq Hourly!Exceptions BY <3>2 DEF ReconciliationInv
    <3>4. ASSUME NEW e \in noted, NEW o \in BOOLEAN
          PROVE  [e EXCEPT !.open = o] \in Hourly!Exceptions /\ [e EXCEPT !.open = o].message = e.message
      BY <3>3 DEF Hourly!Exceptions
    <3>5. exceptions' \subseteq Hourly!Exceptions
      <4> SUFFICES ASSUME NEW e \in noted
                   PROVE  [e EXCEPT !.open = @ /\ ~(e.kind = "loose" /\ e.message \in given)]
                            \in Hourly!Exceptions
        BY <3>1
      <4> PICK o \in BOOLEAN : o = (e.open /\ ~(e.kind = "loose" /\ e.message \in given)) OBVIOUS
      <4> QED BY <3>4
    <3>6. ASSUME NEW e \in noted PROVE \E x \in exceptions' : x.message = e.message
      <4> PICK o \in BOOLEAN : o = (e.open /\ ~(e.kind = "loose" /\ e.message \in given)) OBVIOUS
      <4>1. [e EXCEPT !.open = o] \in exceptions' BY <3>1
      <4> QED BY <3>4, <4>1
    <3>7. ASSUME NEW m \in Hourly!Found(Window) PROVE \E e \in noted : e.message = m
      BY RecordsFit
    <3>8. \A m \in HourlyMessages : OnRecord(m) => OnRecord(m)' BY <3>6 DEF OnRecord
    <3>9. \A m \in Hourly!Found(Window) : OnRecord(m)' BY <3>6, <3>7 DEF OnRecord
    <3> QED BY <3>5, <3>8, <3>9
  <2> QED BY <2>1, <2>2
<1>10. \A m \in HourlyMessages : After(m) = {} /\ After(m)' # {} =>
         \E f \in After(m)' :
           /\ First(m, f)'
           /\ Hourly!Unsettled(m)' /\ came'[m] - sent'[m] <= Window - Hour /\ runs'[CronKey(f)] # "none" =>
                OnRecord(m)'
  <2> SUFFICES ASSUME NEW m \in HourlyMessages, After(m) = {}, After(m)' # {}
               PROVE  /\ h \in After(m)' /\ First(m, h)'
                      /\ Hourly!Unsettled(m)' /\ came'[m] - sent'[m] <= Window - Hour
                           /\ runs'[CronKey(h)] # "none" => OnRecord(m)'
    OBVIOUS
  <2>1. After(m)' = {h} /\ DueAt(h) > came[m] BY <1>1 DEF After, DueAt
  <2>2. First(m, h)' BY <2>1 DEF First
  <2>3. CASE Hourly!CronMissed BY <2>1, <2>2, <2>3 DEF Hourly!CronMissed
  <2>4. CASE Hourly!CronRun
    <3>1. Hourly!Unsettled(m)' /\ came'[m] - sent'[m] <= Window - Hour => m \in Hourly!Found(Window)
      BY <1>1, <1>7, <2>1, FirstRunSees
    <3> QED BY <1>9, <2>1, <2>2, <2>4, <3>1
  <2> QED BY <2>3, <2>4
<1>11. \A g \in scheduled : runs[CronKey(g)] = "none" => runs'[CronKey(g)] = "none"
  BY <1>3, <1>5 DEF ReconciliationInv, RunsAreDue
<1>12. {h} \in SUBSET Nat /\ \A x \in {h}, g \in scheduled : g < x OBVIOUS
<1> QED BY <1>1, <1>4, <1>6, <1>7, <1>8, <1>9, <1>10, <1>11, <1>12, RecordsKeep

\* A service's run adds records under a key of its own.
LEMMA ServiceKeeps ==
  ASSUME Hourly!ReconciliationAssumption, ReconciliationInv, NEW width \in Windows,
         Hourly!ServiceRun(width)
  PROVE  ReconciliationInv'
<1>1. now \in Nat /\ now <= HourlyHorizon BY HourlyConstants DEF ReconciliationInv, RunsAreDue
<1>2. Hourly!Key(width) \in Hourly!Keys /\ Hourly!Key(width).by # Hourly!Cron
  <2>1. Hourly!ThisHour \in 0..LastHour BY <1>1, HourOf DEF Hourly!ThisHour
  <2> QED BY <2>1, HourlyConstants DEF Hourly!Key, Hourly!Keys, LastHour, Hourly!Cron
<1>3. \A h \in 0..LastHour : CronKey(h) # Hourly!Key(width) BY <1>2 DEF CronKey
<1>4. \A k \in Hourly!Keys : k # Hourly!Key(width) => runs'[k] = runs[k]
  BY DEF Hourly!ServiceRun, Hourly!Run, ReconciliationInv
<1>5. DOMAIN runs' = Hourly!Keys BY DEF Hourly!ServiceRun, Hourly!Run, ReconciliationInv
<1>6. \A h \in 0..LastHour : runs'[CronKey(h)] = runs[CronKey(h)]
  BY <1>3, <1>4 DEF CronKey, Hourly!Keys, LastHour
<1>7. exceptions \subseteq exceptions' /\ exceptions' \subseteq Hourly!Exceptions
  <2>1. CASE runs[Hourly!Key(width)] = "none"
    BY <1>2, <2>1, RecordsFit DEF Hourly!ServiceRun, ReconciliationInv
  <2>2. CASE runs[Hourly!Key(width)] # "none"
    BY <2>2
    DEF Hourly!ServiceRun, Hourly!Recorded, ReconciliationInv
  <2> QED BY <2>1, <2>2
<1>8. UNCHANGED <<now, state, sent, came, scheduled>> BY DEF Hourly!ServiceRun
<1>9. MessagesCame' BY <1>8 DEF ReconciliationInv, MessagesCame
<1> QED BY <1>5, <1>6, <1>7, <1>8, <1>9, HourlyQuietKeeps DEF OnRecord, Hourly!Unsettled

\* A resolved exception stays on record.
LEMMA ResolveKeeps ==
  ASSUME Hourly!ReconciliationAssumption, ReconciliationInv, NEW e \in exceptions, Hourly!Resolve(e)
  PROVE  ReconciliationInv'
<1>1. UNCHANGED <<now, state, sent, came, runs, scheduled>> BY DEF Hourly!Resolve
<1>2. e \in Hourly!Exceptions BY DEF ReconciliationInv
<1>3. [e EXCEPT !.open = FALSE] \in Hourly!Exceptions /\ [e EXCEPT !.open = FALSE].message = e.message
  BY <1>2 DEF Hourly!Exceptions
<1>4. exceptions' = (exceptions \ {e}) \cup {[e EXCEPT !.open = FALSE]} BY DEF Hourly!Resolve
<1>5. exceptions' \subseteq Hourly!Exceptions BY <1>3, <1>4 DEF ReconciliationInv
<1>6. \A m \in HourlyMessages : OnRecord(m) => OnRecord(m)' BY <1>3, <1>4 DEF OnRecord
<1>7. MessagesCame' BY <1>1 DEF ReconciliationInv, MessagesCame
<1> QED BY <1>1, <1>5, <1>6, <1>7, HourlyQuietKeeps DEF ReconciliationInv, Hourly!Unsettled

\* A run signed off has taken place.
LEMMA SignOffKeeps ==
  ASSUME Hourly!ReconciliationAssumption, ReconciliationInv, NEW k \in Hourly!Keys,
         Hourly!SignOff(k)
  PROVE  ReconciliationInv'
<1>1. UNCHANGED <<now, state, sent, came, exceptions, scheduled>> BY DEF Hourly!SignOff
<1>2. DOMAIN runs' = Hourly!Keys BY DEF Hourly!SignOff, ReconciliationInv
<1>3. \A h \in 0..LastHour : runs'[CronKey(h)] # "none" <=> runs[CronKey(h)] # "none"
  <2>1. \A h \in 0..LastHour : CronKey(h) \in Hourly!Keys BY DEF CronKey, Hourly!Keys, LastHour
  <2> QED BY <2>1 DEF Hourly!SignOff, ReconciliationInv
<1>4. MessagesCame' BY <1>1 DEF ReconciliationInv, MessagesCame
<1> QED
  BY <1>1, <1>2, <1>3, <1>4, HourlyQuietKeeps
  DEF ReconciliationInv, OnRecord, Hourly!Unsettled

\* No run has taken place at first.
LEMMA ReconciliationStarts ==
  ASSUME Hourly!ReconciliationAssumption, Hourly!Init PROVE ReconciliationInv
<1>1. now = 0 /\ scheduled = {} /\ HourlyHorizon \in Nat /\ \A h \in Nat : DueAt(h) \in Nat
  BY HourlyConstants, HoursInOrder DEF Hourly!Init
<1>2. \A m \in HourlyMessages : After(m) = {} BY <1>1 DEF After
<1>3. RunsAreDue
  <2>1. \A h \in 0..LastHour : runs[CronKey(h)] = "none"
    BY DEF Hourly!Init, CronKey, Hourly!Keys, LastHour
  <2> QED BY <1>1, <2>1 DEF RunsAreDue
<1> QED BY <1>2, <1>3 DEF Hourly!Init, ReconciliationInv, MessagesCame, Hourly!States

\* Every step keeps the invariant.
LEMMA ReconciliationKeeps ==
  ASSUME Hourly!ReconciliationAssumption, ReconciliationInv, [Hourly!Next]_(Hourly!vars)
  PROVE  ReconciliationInv'
<1>1. CASE Hourly!Next
  BY <1>1, TickKeeps, DueKeeps, ArriveKeeps, ServiceKeeps, ResolveKeeps, SignOffKeeps
  DEF Hourly!Next
<1>2. CASE UNCHANGED Hourly!vars
  <2>1. UNCHANGED <<now, state, sent, came, runs, exceptions, scheduled>> BY <1>2 DEF Hourly!vars
  <2>2. MessagesCame' BY <2>1 DEF ReconciliationInv, MessagesCame
  <2> QED BY <2>1, <2>2, HourlyQuietKeeps DEF ReconciliationInv, OnRecord, Hourly!Unsettled
<1> QED BY <1>1, <1>2

\* The first run after a message is the one the invariant speaks of.
LEMMA RecordsSuffice ==
  ASSUME Hourly!ReconciliationAssumption, ReconciliationInv PROVE Hourly!LossesAreOnRecord
<1> SUFFICES ASSUME NEW m \in HourlyMessages,
                    NEW after, after = {h \in scheduled : h * Hour + Phase > came[m]},
                    NEW first, first = CHOOSE h \in after : \A g \in after : h <= g,
                    Hourly!Unsettled(m), came[m] - sent[m] <= Window - Hour, after # {},
                    runs[[by |-> Hourly!Cron, hour |-> first]] # "none"
             PROVE  \E e \in exceptions : e.message = m
  BY DEF Hourly!LossesAreOnRecord
<1>1. after = After(m) BY DEF After, DueAt
<1>2. PICK f \in after :
        /\ \A g \in after : f <= g
        /\ Hourly!Unsettled(m) /\ came[m] - sent[m] <= Window - Hour /\ runs[CronKey(f)] # "none" =>
             OnRecord(m)
  BY <1>1 DEF ReconciliationInv, First
<1>3. first \in after /\ \A g \in after : first <= g BY <1>2
<1>4. \A g \in after : g \in Nat BY DEF ReconciliationInv, RunsAreDue
<1>5. first = f BY <1>2, <1>3, <1>4
<1> QED BY <1>2, <1>5 DEF OnRecord, CronKey

\* A message still unsettled after the scheduled runs of its hours is on record, if it
\* was under way no longer than the windows overlap and the first run after its arrival
\* took place; for every hour, phase, window and number of messages.
THEOREM LossesStayOnRecord ==
  Hourly!ReconciliationAssumption /\ Hourly!Spec => []Hourly!LossesAreOnRecord
<1> SUFFICES ASSUME Hourly!ReconciliationAssumption
             PROVE  Hourly!Spec => []Hourly!LossesAreOnRecord
  OBVIOUS
<1>1. Hourly!Init => ReconciliationInv BY ReconciliationStarts
<1>2. ReconciliationInv /\ [Hourly!Next]_(Hourly!vars) => ReconciliationInv' BY ReconciliationKeeps
<1>3. ReconciliationInv => Hourly!LossesAreOnRecord BY RecordsSuffice
<1> QED BY <1>1, <1>2, <1>3, PTL DEF Hourly!Spec

\* What is on record belongs to a run, and what is open to a run nobody has signed off;
\* no message is from the future.
RecordsTyped ==
  /\ sent \in [HourlyMessages -> 0..HourlyHorizon] /\ came \in [HourlyMessages -> 0..HourlyHorizon]
  /\ runs \in [Hourly!Keys -> {"none", "aligned", "exceptions", "signed_off"}]
  /\ \A e \in exceptions : runs[e.key] # "none" /\ (e.open => runs[e.key] = "exceptions")

\* A run that found messages is one with exceptions.
LEMMA RunsTyped ==
  ASSUME RecordsTyped, ReconciliationInv, NEW k \in Hourly!Keys, NEW found, Hourly!Run(k, found)
  PROVE  /\ runs' \in [Hourly!Keys -> {"none", "aligned", "exceptions", "signed_off"}]
         /\ \A e \in exceptions \cup Hourly!Recorded(k, found) :
              runs'[e.key] # "none" /\ (e.open => runs'[e.key] = "exceptions")
<1>1. runs' \in [Hourly!Keys -> {"none", "aligned", "exceptions", "signed_off"}]
  BY DEF RecordsTyped, Hourly!Run
<1>2. \A e \in exceptions : e.key \in Hourly!Keys BY DEF ReconciliationInv, Hourly!Exceptions
<1>3. \A e \in exceptions : runs'[e.key] = runs[e.key] BY <1>2 DEF RecordsTyped, Hourly!Run
<1>4. ASSUME NEW e \in Hourly!Recorded(k, found)
      PROVE  runs'[e.key] = "exceptions"
  <2>1. runs[k] = "none" /\ found # {} /\ e.key = k BY <1>4 DEF Hourly!Recorded
  <2> QED BY <2>1 DEF Hourly!Run, RecordsTyped
<1> QED BY <1>1, <1>3, <1>4 DEF RecordsTyped

LEMMA RecordsTypedKeep ==
  ASSUME Hourly!ReconciliationAssumption, ReconciliationInv, RecordsTyped,
         [Hourly!Next]_(Hourly!vars)
  PROVE  RecordsTyped'
<1>1. CASE UNCHANGED <<sent, came, runs, exceptions>> BY <1>1 DEF RecordsTyped
<1>2. CASE Hourly!Tick \/ Hourly!CronMissed \/ UNCHANGED Hourly!vars
  BY <1>1, <1>2 DEF Hourly!Tick, Hourly!CronMissed, Hourly!vars
<1>3. ASSUME NEW m \in HourlyMessages, Hourly!Settle(m) PROVE RecordsTyped'
  BY <1>1, <1>3 DEF Hourly!Settle
<1>4. ASSUME NEW m \in HourlyMessages, Hourly!Arrive(m) PROVE RecordsTyped'
  <2>1. now \in Nat /\ now <= HourlyHorizon /\ HourlyHorizon \in Nat
    BY HourlyConstants DEF ReconciliationInv, RunsAreDue
  <2>2. UNCHANGED <<runs, exceptions>> /\ came' = [came EXCEPT ![m] = now]
    BY <1>4 DEF Hourly!Arrive
  <2>3. PICK s \in 0..now : sent' = [sent EXCEPT ![m] = s] BY <1>4 DEF Hourly!Arrive
  <2> QED BY <2>1, <2>2, <2>3 DEF RecordsTyped
<1>5. CASE Hourly!CronRun
  <2> PICK h \in 0..LastHour : Hourly!Key(Hourly!Cron) = CronKey(h) /\ CronKey(h) \in Hourly!Keys
    BY <1>5, DueNow DEF Hourly!CronRun
  <2> PICK k \in Hourly!Keys : k = Hourly!Key(Hourly!Cron) OBVIOUS
  <2> PICK found : found = Hourly!Found(Window) OBVIOUS
  <2> PICK noted : noted = exceptions \cup Hourly!Recorded(k, found) OBVIOUS
  <2>1. UNCHANGED <<sent, came>> /\ Hourly!Run(k, found) BY <1>5 DEF Hourly!CronRun, Hourly!Scheduled
  <2>2. PICK given : exceptions' =
          {[e EXCEPT !.open = @ /\ ~(e.kind = "loose" /\ e.message \in given)] : e \in noted}
    BY <1>5 DEF Hourly!CronRun, Hourly!Scheduled
  <2>3. noted \subseteq Hourly!Exceptions
    <3>1. Hourly!Recorded(k, found) \subseteq Hourly!Exceptions
      <4>1. runs[k] # "none" => Hourly!Recorded(k, found) = {} BY DEF Hourly!Recorded
      <4> QED BY <4>1, RecordsFit
    <3> QED BY <3>1 DEF ReconciliationInv
  <2>4. \A e \in noted : runs'[e.key] # "none" /\ (e.open => runs'[e.key] = "exceptions")
    BY <2>1, RunsTyped
  <2>5. ASSUME NEW x \in exceptions'
        PROVE  runs'[x.key] # "none" /\ (x.open => runs'[x.key] = "exceptions")
    <3> PICK e \in noted : x = [e EXCEPT !.open = @ /\ ~(e.kind = "loose" /\ e.message \in given)]
      BY <2>2
    <3>1. x.key = e.key /\ (x.open => e.open) BY <2>3 DEF Hourly!Exceptions
    <3> QED BY <2>4, <3>1
  <2>6. runs' \in [Hourly!Keys -> {"none", "aligned", "exceptions", "signed_off"}]
    BY <2>1, RunsTyped
  <2> QED BY <2>1, <2>5, <2>6 DEF RecordsTyped
<1>6. ASSUME NEW width \in Windows, Hourly!ServiceRun(width) PROVE RecordsTyped'
  <2>1. now \in Nat /\ now <= HourlyHorizon BY HourlyConstants DEF ReconciliationInv, RunsAreDue
  <2>2. Hourly!Key(width) \in Hourly!Keys
    <3>1. Hourly!ThisHour \in 0..LastHour BY <2>1, HourOf DEF Hourly!ThisHour
    <3> QED BY <3>1 DEF Hourly!Key, Hourly!Keys, LastHour
  <2> PICK k \in Hourly!Keys : k = Hourly!Key(width) BY <2>2
  <2> PICK found : found = Hourly!Found(width) OBVIOUS
  <2>3. /\ UNCHANGED <<sent, came>> /\ Hourly!Run(k, found)
        /\ exceptions' = exceptions \cup Hourly!Recorded(k, found)
    BY <1>6 DEF Hourly!ServiceRun
  <2> QED BY <2>3, RunsTyped DEF RecordsTyped
<1>7. ASSUME NEW e \in exceptions, Hourly!Resolve(e) PROVE RecordsTyped'
  <2> PICK x : x = [e EXCEPT !.open = FALSE] OBVIOUS
  <2>1. x.key = e.key /\ ~x.open BY DEF ReconciliationInv, Hourly!Exceptions
  <2>2. UNCHANGED <<sent, came, runs>> /\ exceptions' = (exceptions \ {e}) \cup {x}
    BY <1>7 DEF Hourly!Resolve
  <2> QED BY <2>1, <2>2 DEF RecordsTyped
<1>8. ASSUME NEW k \in Hourly!Keys, Hourly!SignOff(k) PROVE RecordsTyped'
  <2>1. UNCHANGED <<sent, came, exceptions>> /\ runs' = [runs EXCEPT ![k] = "signed_off"]
        /\ \A e \in exceptions : e.key = k => ~e.open
    BY <1>8 DEF Hourly!SignOff
  <2>2. \A e \in exceptions : e.key \in Hourly!Keys BY DEF ReconciliationInv, Hourly!Exceptions
  <2> QED BY <2>1, <2>2 DEF RecordsTyped
<1> QED BY <1>2, <1>3, <1>4, <1>5, <1>6, <1>7, <1>8 DEF Hourly!Next

\* The reconciliation keeps its types: an exception belongs to a run, and a run is only
\* signed off once none of its exceptions is open.
THEOREM ReconciliationTypeCorrect ==
  ASSUME Hourly!ReconciliationAssumption PROVE Hourly!Spec => []Hourly!TypeOK
<1> USE Hourly!ReconciliationAssumption
<1>1. Hourly!Init => ReconciliationInv /\ RecordsTyped
  <2>1. HourlyHorizon \in Nat BY HourlyConstants
  <2> QED BY <2>1, ReconciliationStarts DEF Hourly!Init, RecordsTyped
<1>2. ReconciliationInv /\ RecordsTyped /\ [Hourly!Next]_(Hourly!vars) =>
        (ReconciliationInv /\ RecordsTyped)'
  BY ReconciliationKeeps, RecordsTypedKeep
<1>3. ReconciliationInv /\ RecordsTyped => Hourly!TypeOK
  BY DEF ReconciliationInv, RunsAreDue, MessagesCame, RecordsTyped, LastHour, Hourly!TypeOK
<1> QED BY <1>1, <1>2, <1>3, PTL DEF Hourly!Spec
-----------------------------------------------------------------------------
(* A preview's certification.                                             *)

(* A sequence holds what its type says, and nothing but its elements.      *)
LEMMA ElementsOf ==
  ASSUME NEW S, NEW s \in Seq(S)
  PROVE  /\ Preview!ToSet(s) \subseteq S /\ DOMAIN s = 1..Len(s) /\ Len(s) \in Nat
         /\ s = <<>> <=> Preview!ToSet(s) = {}
         /\ \A i \in 1..Len(s) : s[i] \in Preview!ToSet(s)
<1>1. DOMAIN s = 1..Len(s) /\ Len(s) \in Nat /\ \A i \in 1..Len(s) : s[i] \in S
  BY LenProperties, ElementOfSeq
<1>2. s = <<>> <=> Len(s) = 0 BY EmptySeq
<1>3. \A i \in 1..Len(s) : s[i] \in Preview!ToSet(s) BY <1>1 DEF Preview!ToSet
<1>4. Preview!ToSet(s) \subseteq S BY <1>1 DEF Preview!ToSet
<1>5. Len(s) # 0 => s[1] \in Preview!ToSet(s) BY <1>1, <1>3
<1>6. Len(s) = 0 => Preview!ToSet(s) = {} BY <1>1 DEF Preview!ToSet
<1> QED BY <1>1, <1>2, <1>3, <1>4, <1>5, <1>6

LEMMA Retyped ==
  ASSUME NEW S, NEW s \in Seq(S), NEW T, Preview!ToSet(s) \subseteq T PROVE s \in Seq(T)
<1>1. DOMAIN s = 1..Len(s) /\ Len(s) \in Nat /\ \A i \in 1..Len(s) : s[i] \in T
  BY ElementsOf
<1>2. s \in [1..Len(s) -> T] BY <1>1, LenProperties
<1> QED BY <1>1, <1>2, IsASeq

(* The first element of a sequence, and the others.                        *)
LEMMA HeadAndTail ==
  ASSUME NEW S, NEW s \in Seq(S), s # <<>>
  PROVE  /\ Head(s) \in S /\ Tail(s) \in Seq(S) /\ Preview!ToSet(s) = {Head(s)} \cup Preview!ToSet(Tail(s))
         /\ Preview!IsInjective(s) => Preview!IsInjective(Tail(s)) /\ Head(s) \notin Preview!ToSet(Tail(s))
         /\ Tail(s) = <<>> => s[Len(s)] = Head(s)
         /\ Tail(s) # <<>> => Tail(s)[Len(Tail(s))] = s[Len(s)]
<1> DEFINE t == Tail(s)
<1>1. /\ Head(s) \in S /\ t \in Seq(S) /\ Len(t) = Len(s) - 1
      /\ \A i \in 1..Len(t) : t[i] = s[i + 1]
  BY HeadTailProperties
<1>2. Len(s) \in Nat \ {0} /\ DOMAIN s = 1..Len(s) /\ Head(s) = s[1]
  BY ElementsOf, EmptySeq
<1>3. Len(t) \in Nat /\ DOMAIN t = 1..Len(t) /\ (t = <<>> <=> Len(t) = 0)
  BY <1>1, ElementsOf, EmptySeq
<1> HIDE DEF t
<1>4. ASSUME NEW x \in Preview!ToSet(s) PROVE x \in {Head(s)} \cup Preview!ToSet(t)
  <2>1. PICK i \in 1..Len(s) : x = s[i] BY <1>2 DEF Preview!ToSet
  <2>2. CASE i = 1 BY <2>1, <2>2, <1>2
  <2>3. CASE i # 1
    <3>1. i - 1 \in 1..Len(t) /\ t[i - 1] = s[i] BY <1>1, <1>2, <1>3, <2>3
    <3> QED BY <3>1, <2>1, <1>3 DEF Preview!ToSet
  <2> QED BY <2>2, <2>3
<1>5. ASSUME NEW x \in Preview!ToSet(t) PROVE x \in Preview!ToSet(s)
  <2>1. PICK i \in 1..Len(t) : x = t[i] BY <1>3 DEF Preview!ToSet
  <2>2. i + 1 \in 1..Len(s) /\ x = s[i + 1] BY <2>1, <1>1, <1>2, <1>3
  <2> QED BY <2>2, <1>2 DEF Preview!ToSet
<1>6. Head(s) \in Preview!ToSet(s) BY <1>2 DEF Preview!ToSet
<1>7. ASSUME Preview!IsInjective(s) PROVE Preview!IsInjective(t) /\ Head(s) \notin Preview!ToSet(t)
  <2>1. \A i, j \in 1..Len(s) : s[i] = s[j] => i = j BY <1>7, <1>2 DEF Preview!IsInjective
  <2>2. \A i, j \in 1..Len(t) : t[i] = t[j] => i = j
    <3> TAKE i, j \in 1..Len(t)
    <3>1. i + 1 \in 1..Len(s) /\ j + 1 \in 1..Len(s) /\ t[i] = s[i + 1] /\ t[j] = s[j + 1]
      BY <1>1, <1>2, <1>3
    <3>2. s[i + 1] = s[j + 1] => i + 1 = j + 1 BY <2>1, <3>1
    <3> QED BY <3>1, <3>2
  <2>3. ASSUME Head(s) \in Preview!ToSet(t) PROVE FALSE
    <3>1. PICK i \in 1..Len(t) : Head(s) = t[i] BY <2>3, <1>3 DEF Preview!ToSet
    <3>2. i + 1 \in 1..Len(s) /\ s[1] = s[i + 1] BY <3>1, <1>1, <1>2, <1>3
    <3>3. 1 = i + 1 BY <3>2, <2>1, <1>2
    <3> QED BY <3>3
  <2> QED BY <2>2, <2>3, <1>3 DEF Preview!IsInjective
<1>8. t = <<>> => s[Len(s)] = Head(s) BY <1>1, <1>2, <1>3
<1>9. t # <<>> => t[Len(t)] = s[Len(s)] BY <1>1, <1>2, <1>3
<1> QED BY <1>1, <1>4, <1>5, <1>6, <1>7, <1>8, <1>9 DEF t

(* Joining two sequences that share no element.                            *)
LEMMA Joined ==
  ASSUME NEW S, NEW s \in Seq(S), NEW t \in Seq(S)
  PROVE  /\ s \o t \in Seq(S) /\ Preview!ToSet(s \o t) = Preview!ToSet(s) \cup Preview!ToSet(t)
         /\ Preview!IsInjective(s) /\ Preview!IsInjective(t) /\ Preview!ToSet(s) \cap Preview!ToSet(t) = {}
            => Preview!IsInjective(s \o t)
         /\ t # <<>> => s \o t # <<>> /\ (s \o t)[Len(s \o t)] = t[Len(t)]
<1> DEFINE u == s \o t
<1>1. u \in Seq(S) /\ Len(u) = Len(s) + Len(t)
      /\ \A i \in 1..Len(s) + Len(t) : u[i] = IF i <= Len(s) THEN s[i] ELSE t[i - Len(s)]
  BY ConcatProperties
<1>2. /\ Len(s) \in Nat /\ Len(t) \in Nat /\ DOMAIN s = 1..Len(s) /\ DOMAIN t = 1..Len(t)
      /\ DOMAIN u = 1..Len(u) /\ (t = <<>> <=> Len(t) = 0) /\ (u = <<>> <=> Len(u) = 0)
  BY <1>1, ElementsOf, EmptySeq
<1> HIDE DEF u
<1>3. \A i \in 1..Len(s) : i \in 1..Len(u) /\ u[i] = s[i] BY <1>1, <1>2
<1>4. \A i \in 1..Len(t) : Len(s) + i \in 1..Len(u) /\ u[Len(s) + i] = t[i] BY <1>1, <1>2
<1>5. \A i \in 1..Len(u) : \/ i \in 1..Len(s) /\ u[i] = s[i]
                           \/ i > Len(s) /\ i - Len(s) \in 1..Len(t) /\ u[i] = t[i - Len(s)]
  BY <1>1, <1>2
<1>6. Preview!ToSet(u) = Preview!ToSet(s) \cup Preview!ToSet(t)
  <2>1. ASSUME NEW x \in Preview!ToSet(u) PROVE x \in Preview!ToSet(s) \cup Preview!ToSet(t)
    <3>1. PICK i \in 1..Len(u) : x = u[i] BY <1>2 DEF Preview!ToSet
    <3> QED BY <3>1, <1>2, <1>5 DEF Preview!ToSet
  <2>2. ASSUME NEW x \in Preview!ToSet(s) PROVE x \in Preview!ToSet(u)
    <3>1. PICK i \in 1..Len(s) : x = s[i] BY <1>2 DEF Preview!ToSet
    <3> QED BY <3>1, <1>2, <1>3 DEF Preview!ToSet
  <2>3. ASSUME NEW x \in Preview!ToSet(t) PROVE x \in Preview!ToSet(u)
    <3>1. PICK i \in 1..Len(t) : x = t[i] BY <1>2 DEF Preview!ToSet
    <3>2. Len(s) + i \in 1..Len(u) /\ u[Len(s) + i] = x BY <3>1, <1>4
    <3> QED BY <3>2, <1>2 DEF Preview!ToSet
  <2> QED BY <2>1, <2>2, <2>3
<1>7. ASSUME Preview!IsInjective(s), Preview!IsInjective(t),
             Preview!ToSet(s) \cap Preview!ToSet(t) = {}
      PROVE  Preview!IsInjective(u)
  <2>1. \A i, j \in 1..Len(s) : s[i] = s[j] => i = j BY <1>7, <1>2 DEF Preview!IsInjective
  <2>2. \A i, j \in 1..Len(t) : t[i] = t[j] => i = j BY <1>7, <1>2 DEF Preview!IsInjective
  <2>3. \A i \in 1..Len(s), j \in 1..Len(t) : s[i] # t[j] BY <1>7, <1>2 DEF Preview!ToSet
  <2> SUFFICES ASSUME NEW i \in 1..Len(u), NEW j \in 1..Len(u), u[i] = u[j] PROVE i = j
    BY <1>2 DEF Preview!IsInjective
  <2>4. CASE i <= Len(s) /\ j <= Len(s) BY <2>1, <2>4, <1>5
  <2>5. CASE i > Len(s) /\ j > Len(s)
    <3>1. /\ i - Len(s) \in 1..Len(t) /\ j - Len(s) \in 1..Len(t)
          /\ t[i - Len(s)] = t[j - Len(s)]
      BY <2>5, <1>5, <1>2
    <3>2. i - Len(s) = j - Len(s) BY <3>1, <2>2
    <3> QED BY <3>2, <1>2
  <2>6. CASE i <= Len(s) /\ j > Len(s) BY <2>3, <2>6, <1>5, <1>2
  <2>7. CASE i > Len(s) /\ j <= Len(s) BY <2>3, <2>7, <1>5, <1>2
  <2> QED BY <2>4, <2>5, <2>6, <2>7, <1>2
<1>8. t # <<>> => u # <<>> /\ u[Len(u)] = t[Len(t)]
  <2> SUFFICES ASSUME t # <<>> PROVE u # <<>> /\ u[Len(u)] = t[Len(t)] OBVIOUS
  <2>1. Len(t) \in 1..Len(t) /\ Len(u) = Len(s) + Len(t) BY <1>1, <1>2
  <2> QED BY <2>1, <1>2, <1>4
<1> QED BY <1>1, <1>6, <1>7, <1>8 DEF u

LEMMA Alone ==
  ASSUME NEW S, NEW e \in S
  PROVE  /\ <<e>> \in Seq(S) /\ Preview!ToSet(<<e>>) = {e} /\ Preview!IsInjective(<<e>>)
         /\ <<e>> # <<>> /\ Len(<<e>>) = 1 /\ <<e>>[1] = e
  BY DEF Preview!ToSet, Preview!IsInjective

LEMMA Appended ==
  ASSUME NEW S, NEW s \in Seq(S), NEW e \in S
  PROVE  /\ Append(s, e) \in Seq(S) /\ Preview!ToSet(Append(s, e)) = Preview!ToSet(s) \cup {e}
         /\ Preview!IsInjective(s) /\ e \notin Preview!ToSet(s) => Preview!IsInjective(Append(s, e))
         /\ Append(s, e) # <<>>
<1> DEFINE l == <<e>>
<1>1. Append(s, e) = s \o l BY AppendIsConcat
<1>2. l \in Seq(S) /\ Preview!ToSet(l) = {e} /\ Preview!IsInjective(l) /\ l # <<>> BY Alone
<1> HIDE DEF l
<1>3. /\ s \o l \in Seq(S) /\ Preview!ToSet(s \o l) = Preview!ToSet(s) \cup Preview!ToSet(l)
      /\ Preview!IsInjective(s) /\ Preview!IsInjective(l) /\ Preview!ToSet(s) \cap Preview!ToSet(l) = {} => Preview!IsInjective(s \o l)
      /\ s \o l # <<>>
  BY <1>2, Joined
<1> QED BY <1>1, <1>2, <1>3

(* Both sides of a cut.                                                    *)
LEMMA Halves ==
  ASSUME NEW S, NEW s \in Seq(S), NEW i \in 1..Len(s) + 1
  PROVE  /\ SubSeq(s, 1, i - 1) \in Seq(S) /\ SubSeq(s, i, Len(s)) \in Seq(S)
         /\ Preview!ToSet(SubSeq(s, 1, i - 1)) \cup Preview!ToSet(SubSeq(s, i, Len(s))) = Preview!ToSet(s)
         /\ Preview!IsInjective(s) =>
              /\ Preview!IsInjective(SubSeq(s, 1, i - 1)) /\ Preview!IsInjective(SubSeq(s, i, Len(s)))
              /\ Preview!ToSet(SubSeq(s, 1, i - 1)) \cap Preview!ToSet(SubSeq(s, i, Len(s))) = {}
<1> DEFINE a == SubSeq(s, 1, i - 1)
           b == SubSeq(s, i, Len(s))
<1>1. Len(s) \in Nat /\ DOMAIN s = 1..Len(s) /\ \A j \in 1..Len(s) : s[j] \in S
  BY ElementsOf, ElementOfSeq
<1>2. /\ a \in Seq(S) /\ Len(a) = i - 1 /\ \A j \in 1..i - 1 : a[j] = s[j]
  <2>1. /\ 1 \in Int /\ i - 1 \in Int /\ \A j \in 1..i - 1 : s[j] \in S BY <1>1
  <2>2. /\ a \in Seq(S) /\ Len(a) = IF 1 <= i - 1 THEN (i - 1) - 1 + 1 ELSE 0
        /\ \A j \in 1..(i - 1) - 1 + 1 : a[j] = s[1 + j - 1]
    BY <2>1, SubSeqProperties
  <2> QED BY <2>2
<1>3. /\ b \in Seq(S) /\ Len(b) = Len(s) - i + 1 /\ \A j \in 1..Len(s) - i + 1 : b[j] = s[i + j - 1]
  <2>1. /\ i \in Int /\ Len(s) \in Int /\ \A j \in i..Len(s) : s[j] \in S BY <1>1
  <2>2. /\ b \in Seq(S) /\ Len(b) = IF i <= Len(s) THEN Len(s) - i + 1 ELSE 0
        /\ \A j \in 1..Len(s) - i + 1 : b[j] = s[i + j - 1]
    BY <2>1, SubSeqProperties
  <2> QED BY <2>2, <1>1
<1>4. DOMAIN a = 1..i - 1 /\ DOMAIN b = 1..Len(s) - i + 1 BY <1>2, <1>3, ElementsOf
<1> HIDE DEF a, b
<1>5. \A j \in 1..Len(s) : \/ j \in 1..i - 1 /\ s[j] = a[j]
                           \/ j - i + 1 \in 1..Len(s) - i + 1 /\ s[j] = b[j - i + 1]
  <2> TAKE j \in 1..Len(s)
  <2>1. CASE j < i BY <2>1, <1>1, <1>2
  <2>2. CASE j >= i
    <3>1. j - i + 1 \in 1..Len(s) - i + 1 /\ i + (j - i + 1) - 1 = j BY <2>2, <1>1
    <3>2. b[j - i + 1] = s[i + (j - i + 1) - 1] BY <3>1, <1>3
    <3> QED BY <3>1, <3>2
  <2> QED BY <2>1, <2>2, <1>1
<1>6. \A j \in 1..i - 1 : j \in 1..Len(s) /\ a[j] = s[j] BY <1>1, <1>2
<1>7. \A j \in 1..Len(s) - i + 1 : i + j - 1 \in 1..Len(s) /\ b[j] = s[i + j - 1] BY <1>1, <1>3
<1>8. Preview!ToSet(a) \cup Preview!ToSet(b) = Preview!ToSet(s)
  <2>1. ASSUME NEW x \in Preview!ToSet(s) PROVE x \in Preview!ToSet(a) \cup Preview!ToSet(b)
    <3>1. PICK j \in 1..Len(s) : x = s[j] BY <1>1 DEF Preview!ToSet
    <3> QED BY <3>1, <1>4, <1>5 DEF Preview!ToSet
  <2>2. ASSUME NEW x \in Preview!ToSet(a) PROVE x \in Preview!ToSet(s)
    <3>1. PICK j \in 1..i - 1 : x = a[j] BY <1>4 DEF Preview!ToSet
    <3> QED BY <3>1, <1>1, <1>6 DEF Preview!ToSet
  <2>3. ASSUME NEW x \in Preview!ToSet(b) PROVE x \in Preview!ToSet(s)
    <3>1. PICK j \in 1..Len(s) - i + 1 : x = b[j] BY <1>4 DEF Preview!ToSet
    <3> QED BY <3>1, <1>1, <1>7 DEF Preview!ToSet
  <2> QED BY <2>1, <2>2, <2>3
<1>9. ASSUME Preview!IsInjective(s)
      PROVE  Preview!IsInjective(a) /\ Preview!IsInjective(b) /\ Preview!ToSet(a) \cap Preview!ToSet(b) = {}
  <2>1. \A j, k \in 1..Len(s) : s[j] = s[k] => j = k BY <1>9, <1>1 DEF Preview!IsInjective
  <2>2. \A j, k \in 1..i - 1 : a[j] = a[k] => j = k BY <2>1, <1>6
  <2>3. \A j, k \in 1..Len(s) - i + 1 : b[j] = b[k] => j = k
    <3> TAKE j, k \in 1..Len(s) - i + 1
    <3>1. s[i + j - 1] = s[i + k - 1] => i + j - 1 = i + k - 1 BY <2>1, <1>7
    <3> QED BY <3>1, <1>7, <1>1
  <2>4. \A j \in 1..i - 1, k \in 1..Len(s) - i + 1 : a[j] # b[k]
    <3> TAKE j \in 1..i - 1, k \in 1..Len(s) - i + 1
    <3>1. s[j] = s[i + k - 1] => j = i + k - 1 BY <2>1, <1>6, <1>7
    <3> QED BY <3>1, <1>6, <1>7, <1>1
  <2> QED BY <2>2, <2>3, <2>4, <1>4 DEF Preview!IsInjective, Preview!ToSet
<1> QED BY <1>2, <1>3, <1>8, <1>9 DEF a, b

LEMMA Inserted ==
  ASSUME NEW S, NEW s \in Seq(S), NEW e \in S, NEW i \in 1..Len(s) + 1
  PROVE  /\ Preview!InsertAt(s, i, e) \in Seq(S) /\ Preview!ToSet(Preview!InsertAt(s, i, e)) = Preview!ToSet(s) \cup {e}
         /\ Preview!IsInjective(s) /\ e \notin Preview!ToSet(s) => Preview!IsInjective(Preview!InsertAt(s, i, e))
<1> DEFINE a == SubSeq(s, 1, i - 1)
           b == SubSeq(s, i, Len(s))
           l == <<e>>
           c == a \o l
<1>1. /\ a \in Seq(S) /\ b \in Seq(S) /\ Preview!ToSet(a) \cup Preview!ToSet(b) = Preview!ToSet(s)
      /\ Preview!IsInjective(s) => Preview!IsInjective(a) /\ Preview!IsInjective(b) /\ Preview!ToSet(a) \cap Preview!ToSet(b) = {}
  BY Halves
<1>2. l \in Seq(S) /\ Preview!ToSet(l) = {e} /\ Preview!IsInjective(l) BY Alone
<1>3. Preview!InsertAt(s, i, e) = c \o b BY DEF Preview!InsertAt
<1> HIDE DEF a, b, l
<1>4. /\ c \in Seq(S) /\ Preview!ToSet(c) = Preview!ToSet(a) \cup Preview!ToSet(l)
      /\ Preview!IsInjective(a) /\ Preview!IsInjective(l) /\ Preview!ToSet(a) \cap Preview!ToSet(l) = {} => Preview!IsInjective(c)
  BY <1>1, <1>2, Joined
<1> HIDE DEF c
<1>5. /\ c \o b \in Seq(S) /\ Preview!ToSet(c \o b) = Preview!ToSet(c) \cup Preview!ToSet(b)
      /\ Preview!IsInjective(c) /\ Preview!IsInjective(b) /\ Preview!ToSet(c) \cap Preview!ToSet(b) = {} => Preview!IsInjective(c \o b)
  BY <1>1, <1>4, Joined
<1> QED BY <1>1, <1>2, <1>3, <1>4, <1>5

Stages == {"idle", "drain", "drain_claim", "drain_work", "replay", "seed", "claim",
           "work", "load", "direct", "verdict", "done"}

(* The run is a record of its parts.                                       *)
RunShape ==
  run \in [stage : Stages, todo : Seq(Preview!Packets), expect : Seq(Preview!Packets),
           held : Preview!Packets \cup {None}, drained : 0..MaxDrain,
           results : SUBSET (Preview!Fixtures \X Preview!Outcomes), worked : SUBSET Preview!Packets, ok : BOOLEAN]

(* What the run's lists are at each stage.                                 *)
StageFits ==
  /\ run.stage = "idle" => run = Preview!Idle /\ Preview!ToSet(queue) \cup leased \subseteq Outside
  /\ run.stage \in {"drain", "drain_claim", "drain_work", "replay", "seed"} => run.todo # <<>>
  /\ run.stage \in {"claim", "work", "load"} => run.expect # <<>>
  /\ run.stage = "load" => Head(run.expect) \in run.worked
  /\ run.stage \in {"direct", "verdict"} => run.todo = <<>> /\ run.expect = <<>>
  /\ run.stage \in {"work", "drain_work"} <=> run.held # None
  /\ run.held \in leased \cup {None}
  /\ run.stage \in {"drain_claim", "drain_work"} => run.drained < MaxDrain
  /\ run.todo # <<>> => run.todo[Len(run.todo)] = "second"

(* No packet is seeded twice, and one that was worked stays as it was left. *)
Apart ==
  /\ Preview!IsInjective(run.todo) /\ Preview!IsInjective(run.expect)
  /\ Preview!ToSet(run.todo) \cap (Preview!ToSet(run.expect) \cup run.worked \cup Preview!ToSet(queue) \cup leased) = {}
  /\ run.worked \cap (Preview!ToSet(queue) \cup leased) = {}
  /\ Preview!ToSet(run.todo) \cup Preview!ToSet(run.expect) \cup run.worked \subseteq Preview!Fixtures \cup Preview!Probes

(* Every packet due is still to be seeded, expected, or worked.            *)
Covered ==
  run.stage \notin {"idle", "done"} =>
    Mandatory \cup Preview!Probes \subseteq Preview!ToSet(run.todo) \cup Preview!ToSet(run.expect) \cup run.worked

(* What was worked has an outcome, and what was loaded is in the results.  *)
Scored ==
  \A p \in run.worked :
    /\ outcome[p] \in Preview!Outcomes
    /\ p \in Preview!ToSet(run.expect) \/ (p \in Preview!Fixtures => <<p, outcome[p]>> \in run.results)
    /\ p \in Preview!ToSet(run.expect) \/ (p = "clarify" /\ run.ok => outcome[p] = "right")

QueueFits ==
  /\ leased \subseteq Preview!Packets /\ queue \in Seq(Preview!Packets) /\ Preview!IsInjective(queue)
  /\ Preview!ToSet(queue) \cap leased = {}

WorldFits ==
  /\ outcome \in [Preview!Packets -> Preview!Outcomes \cup {"none"}]
  /\ verdict \in {"none", "PASS", "FAIL"} /\ faults \in 0..CertMaxFaults

CertInv ==
  /\ QueueFits /\ WorldFits /\ RunShape /\ StageFits /\ Apart /\ Covered /\ Scored
  /\ verdict = "PASS" => run.stage = "done"
  /\ Preview!VerdictIsEarned

LEMMA CertTypes == CertInv => Preview!TypeOK
<1> SUFFICES ASSUME CertInv PROVE Preview!TypeOK OBVIOUS
<1>1. queue \in Seq(Preview!Packets \ leased)
  <2>1. Preview!ToSet(queue) \subseteq Preview!Packets \ leased BY ElementsOf DEF CertInv, QueueFits
  <2> QED BY <2>1, Retyped DEF CertInv, QueueFits
<1> QED BY <1>1 DEF CertInv, QueueFits, WorldFits, RunShape, StageFits, Preview!TypeOK, Stages

(* What becomes of the others' jobs disturbs nothing.                      *)
LEMMA QueueOthersKeep ==
  ASSUME Preview!CertificationAssumption, CertInv, UNCHANGED <<run, verdict>>, QueueFits',
         WorldFits',
         Preview!Backlog' \subseteq Preview!Backlog \cup Outside, run.held \in leased' \cup {None},
         \A p \in Preview!Packets \ Preview!Backlog : outcome'[p] = outcome[p]
  PROVE  CertInv'
<1> USE DEF CertInv
<1>1. RunShape' /\ StageFits' /\ Covered' /\ (verdict' = "PASS" => run'.stage = "done")
  BY DEF RunShape, StageFits, Covered, Preview!Backlog
<1>2. Apart' BY DEF Apart, Preview!Backlog, Preview!CertificationAssumption
<1>3. \A p \in run.worked : outcome'[p] = outcome[p] BY DEF Apart, RunShape, Preview!Backlog
<1>4. Scored' BY <1>3 DEF Scored
<1>5. Preview!VerdictIsEarned' BY <1>3 DEF Preview!VerdictIsEarned, Preview!Probes
<1> QED BY <1>1, <1>2, <1>4, <1>5

(* A report ends the run; one of a failure is never a pass.                *)
LEMMA ReportKeeps ==
  ASSUME Preview!CertificationAssumption, CertInv,
         run' = [run EXCEPT !.stage = "done", !.held = None],
         QueueFits', WorldFits', Preview!Backlog' \subseteq Preview!Backlog,
         \A p \in Preview!Packets \ Preview!Backlog : outcome'[p] = outcome[p],
         Preview!VerdictIsEarned'
  PROVE  CertInv'
<1> USE DEF CertInv
<1>1. /\ run'.stage = "done" /\ run'.held = None /\ run'.todo = run.todo
      /\ run'.expect = run.expect /\ run'.worked = run.worked /\ run'.ok = run.ok
      /\ run'.results = run.results /\ RunShape'
  BY DEF RunShape, Stages
<1>2. StageFits' BY <1>1 DEF StageFits
<1>3. Apart' BY <1>1 DEF Apart, Preview!Backlog
<1>4. \A p \in run.worked : outcome'[p] = outcome[p] BY DEF Apart, RunShape, Preview!Backlog
<1>5. Scored' BY <1>1, <1>4 DEF Scored
<1>6. Covered' BY <1>1 DEF Covered
<1> QED BY <1>1, <1>2, <1>3, <1>5, <1>6

LEMMA FailureKeeps ==
  ASSUME Preview!CertificationAssumption, CertInv, run.stage # "done", Preview!Report("FAIL"),
         UNCHANGED <<queue, leased, outcome>>, faults' \in 0..CertMaxFaults
  PROVE  CertInv'
<1>1. verdict' # "PASS" BY DEF Preview!Report, CertInv
<1>2. Preview!VerdictIsEarned' BY <1>1 DEF Preview!VerdictIsEarned
<1>3. QueueFits' /\ WorldFits' BY DEF QueueFits, WorldFits, CertInv, Preview!Report
<1> QED BY <1>2, <1>3, ReportKeeps DEF Preview!Report, Preview!Backlog

(* The run goes on to another stage.                                       *)
LEMMA CertGoesOn ==
  ASSUME Preview!CertificationAssumption, CertInv, NEW s \in Stages, Preview!Goto(s),
         UNCHANGED <<queue, leased, outcome, verdict>>,
         faults' \in 0..CertMaxFaults, verdict = "PASS" => s = "done",
         run.stage # "idle", run.held = None,
         s = "done" \/ (run.stage \in {"drain", "drain_claim"} /\ s \in {"drain_claim", "seed"}),
         s = "drain_claim" => run.drained < MaxDrain
  PROVE  CertInv'
<1> USE DEF CertInv
<1>1. /\ run' = [run EXCEPT !.stage = s] /\ run'.stage = s /\ run'.held = None
      /\ run'.todo = run.todo
      /\ run'.expect = run.expect /\ run'.worked = run.worked /\ run'.ok = run.ok
      /\ run'.results = run.results /\ run'.drained = run.drained /\ RunShape'
  BY DEF RunShape, Stages, Preview!Goto
<1>2. QueueFits' /\ WorldFits' BY DEF QueueFits, WorldFits
<1>3. StageFits' BY <1>1 DEF StageFits
<1>4. Apart' BY <1>1 DEF Apart
<1>5. Scored' BY <1>1 DEF Scored
<1>6. Covered' BY <1>1 DEF Covered
<1>7. Preview!VerdictIsEarned' BY <1>1 DEF Preview!VerdictIsEarned
<1> QED BY <1>1, <1>2, <1>3, <1>4, <1>5, <1>6, <1>7

LEMMA CertStarts == ASSUME Preview!CertificationAssumption, Preview!Init PROVE CertInv
<1>1. QueueFits
  <2>1. <<>> \in Seq(Preview!Packets) /\ Preview!ToSet(<<>>) = {} /\ Preview!IsInjective(<<>>)
    BY DEF Preview!ToSet, Preview!IsInjective
  <2> QED BY <2>1 DEF Preview!Init, QueueFits
<1>2. WorldFits BY DEF Preview!Init, WorldFits, Preview!CertificationAssumption
<1>3. RunShape BY DEF Preview!Init, RunShape, Preview!Idle, Stages, Preview!CertificationAssumption
<1>4. StageFits /\ Covered /\ Scored
  <2>1. Preview!ToSet(<<>>) = {} BY DEF Preview!ToSet
  <2> QED BY <2>1 DEF Preview!Init, StageFits, Covered, Scored, Preview!Idle
<1>5. Apart
  <2>1. Preview!ToSet(<<>>) = {} /\ Preview!IsInjective(<<>>)
    BY DEF Preview!ToSet, Preview!IsInjective
  <2> QED BY <2>1 DEF Preview!Init, Apart, Preview!Idle
<1> QED BY <1>1, <1>2, <1>3, <1>4, <1>5 DEF CertInv, Preview!Init, Preview!VerdictIsEarned

(* The service counts as this module does.                                   *)
LEMMA PreviewCounts ==
  \A S : (Preview!IsFiniteSet(S) <=> IsFiniteSet(S)) /\ Preview!Cardinality(S) = Cardinality(S)
BY DEF IsFiniteSet, Cardinality, Preview!IsFiniteSet, Preview!Cardinality

(* The fixtures chosen, then the probes.                                   *)
LEMMA ChosenList ==
  ASSUME Preview!CertificationAssumption, NEW offered \in SUBSET Preview!Fixtures,
         NEW s \in Preview!Chosen(offered)
  PROVE  s \in Seq(Preview!Fixtures) /\ Preview!ToSet(s) = offered /\ Preview!IsInjective(s)
<1>1. /\ s \in [1..Cardinality(offered) -> offered] /\ Preview!ToSet(s) = offered
      /\ \A i, j \in DOMAIN s : i < j =>
           \E k, l \in DOMAIN Manifest : k < l /\ s[i] = Manifest[k] /\ s[j] = Manifest[l]
  BY PreviewCounts DEF Preview!Chosen
<1>2. \A i, j \in DOMAIN s : i < j => s[i] # s[j]
  <2>1. \A k, l \in DOMAIN Manifest : k < l => Manifest[k] # Manifest[l]
    BY LenProperties DEF Preview!CertificationAssumption, Preview!IsInjective
  <2> QED BY <1>1, <2>1
<1>3. Cardinality(offered) \in Nat
  <2>1. IsFiniteSet(offered)
    <3>1. IsFiniteSet(Preview!Fixtures)
      <4>1. Manifest \in Seq(Preview!Fixtures) /\ \A f \in Preview!Fixtures : \E n \in 1..Len(Manifest) : Manifest[n] = f
        BY ElementsOf DEF Preview!CertificationAssumption, Preview!Fixtures, Preview!ToSet
      <4> QED BY <4>1 DEF IsFiniteSet
    <3> QED BY <3>1, FS_Subset
  <2> QED BY <2>1, FS_CardinalityType
<1>4. s \in Seq(Preview!Fixtures) BY <1>1, <1>3, IsASeq
<1>5. Preview!IsInjective(s) BY <1>1, <1>2, <1>3 DEF Preview!IsInjective
<1> QED BY <1>1, <1>4, <1>5

LEMMA StartKeeps ==
  ASSUME Preview!CertificationAssumption, CertInv, NEW offered \in SUBSET Preview!Fixtures,
         Preview!Start(offered)
  PROVE  CertInv'
<1> USE DEF CertInv
<1>1. run = Preview!Idle /\ run.stage = "idle" BY DEF Preview!Start, Preview!At, StageFits
<1>2. CASE Mandatory \subseteq offered
  <2> DEFINE probes == <<"clarify", "first", "second">>
  <2>1. PICK chosen \in Preview!Chosen(offered) :
          run' = [run EXCEPT !.stage = "drain", !.todo = chosen \o probes]
    BY <1>2 DEF Preview!Start
  <2>2. chosen \in Seq(Preview!Fixtures) /\ Preview!ToSet(chosen) = offered /\ Preview!IsInjective(chosen)
    BY ChosenList
  <2>3. /\ probes \in Seq(Preview!Probes) /\ Preview!ToSet(probes) = Preview!Probes /\ Preview!IsInjective(probes)
        /\ probes # <<>> /\ Len(probes) = 3 /\ probes[3] = "second"
    BY DEF Preview!Probes, Preview!ToSet, Preview!IsInjective
  <2> DEFINE todo == chosen \o probes
  <2> HIDE DEF probes
  <2>4. chosen \in Seq(Preview!Packets) /\ probes \in Seq(Preview!Packets)
    BY <2>2, <2>3, Retyped DEF Preview!Packets
  <2>5. /\ todo \in Seq(Preview!Packets) /\ Preview!ToSet(todo) = Preview!ToSet(chosen) \cup Preview!ToSet(probes)
        /\ Preview!IsInjective(chosen) /\ Preview!IsInjective(probes) /\ Preview!ToSet(chosen) \cap Preview!ToSet(probes) = {}
           => Preview!IsInjective(todo)
        /\ probes # <<>> => todo # <<>> /\ todo[Len(todo)] = probes[Len(probes)]
    BY <2>4, Joined
  <2> HIDE DEF todo
  <2>6. /\ Preview!ToSet(todo) = offered \cup Preview!Probes /\ Preview!IsInjective(todo) /\ todo # <<>>
        /\ todo[Len(todo)] = "second"
    BY <2>2, <2>3, <2>5 DEF Preview!CertificationAssumption
  <2>7. run' = [run EXCEPT !.stage = "drain", !.todo = todo] BY <2>1 DEF todo
  <2>8. /\ run'.stage = "drain" /\ run'.held = None /\ run'.todo = todo
        /\ run'.expect = <<>> /\ run'.worked = {} /\ run'.results = {} /\ RunShape'
    BY <1>1, <2>5, <2>7 DEF RunShape, Stages, Preview!Idle
  <2>9. Preview!ToSet(run'.expect) = {} /\ Preview!IsInjective(run'.expect)
    BY <2>8 DEF Preview!ToSet, Preview!IsInjective
  <2>10. UNCHANGED <<queue, leased, outcome, verdict, faults>> BY <1>2 DEF Preview!Start
  <2>11. QueueFits' /\ WorldFits' BY <2>10 DEF QueueFits, WorldFits
  <2>12. StageFits' BY <2>6, <2>8 DEF StageFits
  <2>13. Preview!ToSet(todo) \cap (Preview!ToSet(queue) \cup leased) = {}
    <3>1. Preview!ToSet(queue) \cup leased \subseteq Outside BY <1>1 DEF StageFits
    <3> QED BY <3>1, <2>6 DEF Preview!CertificationAssumption
  <2>14. Apart' BY <2>6, <2>8, <2>9, <2>10, <2>13 DEF Apart
  <2>15. Covered' /\ Scored' BY <1>2, <2>6, <2>8 DEF Covered, Scored
  <2>16. verdict # "PASS" BY <1>1
  <2>17. Preview!VerdictIsEarned' BY <2>10, <2>16 DEF Preview!VerdictIsEarned
  <2> QED BY <2>8, <2>10, <2>11, <2>12, <2>14, <2>15, <2>16, <2>17
<1>3. CASE ~(Mandatory \subseteq offered)
  <2>1. Preview!Report("FAIL") /\ UNCHANGED <<queue, leased, outcome, faults>>
    BY <1>3
    DEF Preview!Start
  <2> QED BY <1>1, <2>1, FailureKeeps DEF WorldFits
<1> QED BY <1>2, <1>3

LEMMA EndDrainKeeps ==
  ASSUME Preview!CertificationAssumption, CertInv, run.stage \in {"drain", "drain_claim"},
         Preview!EndDrain,
         UNCHANGED <<queue, leased, outcome, faults>>
  PROVE  CertInv'
<1>1. CASE Preview!ForeignBacklog # {}
  BY <1>1, FailureKeeps
  DEF Preview!EndDrain, CertInv, WorldFits
<1>2. CASE Preview!ForeignBacklog = {}
  <2>1. Preview!Goto("seed") /\ UNCHANGED verdict BY <1>2 DEF Preview!EndDrain
  <2>2. run.held = None /\ verdict # "PASS" BY DEF CertInv, StageFits
  <2> QED BY <2>1, <2>2, CertGoesOn DEF Stages, CertInv, WorldFits
<1> QED BY <1>1, <1>2

LEMMA CheckBacklogKeeps ==
  ASSUME Preview!CertificationAssumption, CertInv, Preview!CheckBacklog PROVE CertInv'
<1>1. run.stage = "drain" /\ UNCHANGED <<queue, leased, outcome, faults>>
  BY DEF Preview!CheckBacklog, Preview!At
<1>2. CASE Preview!EndDrain BY <1>1, <1>2, EndDrainKeeps
<1>3. CASE Preview!Goto("drain_claim") /\ UNCHANGED verdict
  <2>1. run.held = None /\ verdict # "PASS" BY <1>1 DEF CertInv, StageFits
  <2>2. run.drained < MaxDrain \/ Preview!EndDrain
    BY DEF Preview!CheckBacklog, CertInv, RunShape, Preview!CertificationAssumption
  <2> QED BY <1>1, <1>2, <1>3, <2>1, <2>2, CertGoesOn DEF Stages, CertInv, WorldFits
<1> QED BY <1>2, <1>3 DEF Preview!CheckBacklog

LEMMA ReplayKeeps ==
  ASSUME Preview!CertificationAssumption, CertInv, Preview!Replay PROVE CertInv'
<1> USE DEF CertInv
<1>1. run.stage = "replay" /\ UNCHANGED <<queue, leased, outcome, verdict>> /\ verdict # "PASS"
  BY DEF Preview!Replay, Preview!At
<1>2. PICK accepted \in 0..Replays :
        run' = [run EXCEPT !.stage = "seed", !.ok = @ /\ accepted = 1]
  BY DEF Preview!Replay
<1>3. faults' \in 0..CertMaxFaults
  BY DEF Preview!Replay, Preview!Works, Preview!Fault, WorldFits,
         Preview!CertificationAssumption
<1>4. /\ run'.stage = "seed" /\ run'.held = run.held /\ run'.todo = run.todo
      /\ run'.expect = run.expect /\ run'.worked = run.worked /\ (run'.ok => run.ok)
      /\ run'.results = run.results
  BY <1>2 DEF RunShape
<1>5. RunShape'
  <2>1. (run.ok /\ accepted = 1) \in BOOLEAN OBVIOUS
  <2> DEFINE ok == run.ok /\ accepted = 1
  <2>2. run' = [run EXCEPT !.stage = "seed", !.ok = ok] BY <1>2
  <2> HIDE DEF ok
  <2>3. ok \in BOOLEAN BY <2>1 DEF ok
  <2> QED BY <2>2, <2>3 DEF RunShape, Stages
<1>6. QueueFits' /\ WorldFits' BY <1>1, <1>3 DEF QueueFits, WorldFits
<1>7. StageFits' BY <1>1, <1>4 DEF StageFits
<1>8. Apart' BY <1>1, <1>4 DEF Apart
<1>9. Covered' BY <1>1, <1>4 DEF Covered
<1>10. Scored' BY <1>1, <1>4 DEF Scored
<1>11. Preview!VerdictIsEarned' BY <1>1 DEF Preview!VerdictIsEarned
<1> QED BY <1>1, <1>5, <1>6, <1>7, <1>8, <1>9, <1>10, <1>11

LEMMA DirectKeeps ==
  ASSUME Preview!CertificationAssumption, CertInv, Preview!Direct PROVE CertInv'
<1> USE DEF CertInv
<1>1. /\ run.stage = "direct" /\ UNCHANGED <<queue, leased, outcome, verdict, faults>>
      /\ verdict # "PASS"
  BY DEF Preview!Direct, Preview!At, Preview!Works
<1>2. PICK duplicate \in BOOLEAN :
        run' = [run EXCEPT !.stage = "verdict", !.ok = @ /\ ~duplicate]
  BY DEF Preview!Direct
<1>3. /\ run'.stage = "verdict" /\ run'.held = run.held /\ run'.todo = run.todo
      /\ run'.expect = run.expect /\ run'.worked = run.worked /\ (run'.ok => run.ok)
      /\ run'.results = run.results
  BY <1>2 DEF RunShape
<1>4. RunShape'
  <2> DEFINE ok == run.ok /\ ~duplicate
  <2>1. run' = [run EXCEPT !.stage = "verdict", !.ok = ok] BY <1>2
  <2>2. ok \in BOOLEAN OBVIOUS
  <2> HIDE DEF ok
  <2> QED BY <2>1, <2>2 DEF RunShape, Stages
<1>5. QueueFits' /\ WorldFits' BY <1>1 DEF QueueFits, WorldFits
<1>6. StageFits' BY <1>1, <1>3 DEF StageFits
<1>7. Apart' BY <1>1, <1>3 DEF Apart
<1>8. Covered' BY <1>1, <1>3 DEF Covered
<1>9. Scored' BY <1>1, <1>3 DEF Scored
<1>10. Preview!VerdictIsEarned' BY <1>1 DEF Preview!VerdictIsEarned
<1> QED BY <1>1, <1>4, <1>5, <1>6, <1>7, <1>8, <1>9, <1>10

LEMMA SeedKeeps ==
  ASSUME Preview!CertificationAssumption, CertInv, Preview!Seed PROVE CertInv'
<1> USE DEF CertInv
<1> DEFINE p == Head(run.todo)
           next == IF p = "first" THEN "seed" ELSE "claim"
<1>1. /\ run.stage = "seed" /\ queue' = Append(queue, p)
      /\ run' = [run EXCEPT !.todo = Tail(run.todo), !.expect = Append(run.expect, p), !.stage = next]
      /\ UNCHANGED <<leased, outcome, verdict, faults>> /\ verdict # "PASS"
  BY DEF Preview!Seed, Preview!At
<1>2. /\ run.todo \in Seq(Preview!Packets) /\ run.todo # <<>> /\ run.expect \in Seq(Preview!Packets)
      /\ run.worked \subseteq Preview!Packets /\ Preview!IsInjective(run.todo) /\ Preview!IsInjective(run.expect)
  BY <1>1 DEF RunShape, StageFits, Apart
<1>3. /\ p \in Preview!Packets /\ Tail(run.todo) \in Seq(Preview!Packets)
      /\ Preview!ToSet(run.todo) = {p} \cup Preview!ToSet(Tail(run.todo))
      /\ Preview!IsInjective(Tail(run.todo)) /\ p \notin Preview!ToSet(Tail(run.todo))
      /\ Tail(run.todo) = <<>> => run.todo[Len(run.todo)] = p
      /\ Tail(run.todo) # <<>> => Tail(run.todo)[Len(Tail(run.todo))] = run.todo[Len(run.todo)]
  BY <1>2, HeadAndTail
<1> HIDE DEF p
<1>4. p \notin Preview!ToSet(run.expect) \cup run.worked \cup Preview!ToSet(queue) \cup leased
      /\ p \in Preview!Fixtures \cup Preview!Probes
  BY <1>3 DEF Apart
<1>5. /\ Append(run.expect, p) \in Seq(Preview!Packets) /\ Append(run.expect, p) # <<>>
      /\ Preview!ToSet(Append(run.expect, p)) = Preview!ToSet(run.expect) \cup {p}
      /\ Preview!IsInjective(Append(run.expect, p))
  BY <1>2, <1>3, <1>4, Appended
<1>6. /\ Append(queue, p) \in Seq(Preview!Packets) /\ Preview!ToSet(Append(queue, p)) = Preview!ToSet(queue) \cup {p}
      /\ Preview!IsInjective(Append(queue, p))
  BY <1>3, <1>4, Appended DEF QueueFits
<1>7. /\ run'.stage = next /\ run'.held = run.held /\ run'.todo = Tail(run.todo)
      /\ run'.expect = Append(run.expect, p) /\ run'.worked = run.worked /\ run'.ok = run.ok
      /\ run'.results = run.results /\ RunShape'
  BY <1>1, <1>3, <1>5 DEF RunShape, Stages
<1>8. QueueFits' /\ WorldFits' BY <1>1, <1>4, <1>6 DEF QueueFits, WorldFits
<1>9. p = "first" => Tail(run.todo) # <<>> BY <1>2, <1>3 DEF StageFits
<1>10. StageFits' BY <1>1, <1>2, <1>3, <1>5, <1>7, <1>9 DEF StageFits
<1>11. Apart' BY <1>1, <1>3, <1>4, <1>5, <1>6, <1>7 DEF Apart
<1>12. Covered' BY <1>1, <1>3, <1>5, <1>7 DEF Covered
<1>13. Scored' BY <1>1, <1>5, <1>7 DEF Scored
<1>14. Preview!VerdictIsEarned' BY <1>1 DEF Preview!VerdictIsEarned
<1> QED BY <1>1, <1>7, <1>8, <1>10, <1>11, <1>12, <1>13, <1>14

(* The job at the head of the queue goes to whoever claims it.             *)
LEMMA QueueClaimed ==
  ASSUME CertInv, queue # <<>>, queue' = Tail(queue), leased' = leased \cup {Head(queue)}
  PROVE  /\ QueueFits' /\ Preview!Backlog' = Preview!Backlog /\ Head(queue) \in Preview!Packets
<1>1. /\ Head(queue) \in Preview!Packets /\ Tail(queue) \in Seq(Preview!Packets) /\ Preview!IsInjective(Tail(queue))
      /\ Preview!ToSet(queue) = {Head(queue)} \cup Preview!ToSet(Tail(queue)) /\ Head(queue) \notin Preview!ToSet(Tail(queue))
  BY HeadAndTail DEF CertInv, QueueFits
<1> QED BY <1>1 DEF CertInv, QueueFits, Preview!Backlog

LEMMA ClaimKeeps ==
  ASSUME Preview!CertificationAssumption, CertInv, Preview!Claim PROVE CertInv'
<1> USE DEF CertInv
<1>1. run.stage \in {"claim", "drain_claim"} /\ UNCHANGED <<outcome, faults>> /\ verdict # "PASS"
  BY DEF Preview!Claim, Preview!At
<1>2. CASE queue # <<>>
  <2> DEFINE p == Head(queue)
             next == IF Preview!At("claim") THEN "work" ELSE "drain_work"
  <2>1. /\ run' = [run EXCEPT !.held = p, !.stage = next]
        /\ queue' = Tail(queue) /\ leased' = leased \cup {p} /\ UNCHANGED verdict
    BY <1>2 DEF Preview!Claim
  <2>2. QueueFits' /\ Preview!Backlog' = Preview!Backlog /\ p \in Preview!Packets
    BY <1>2, <2>1, QueueClaimed
  <2> HIDE DEF p
  <2>3. /\ run'.stage = next /\ run'.held = p /\ run'.todo = run.todo
        /\ run'.expect = run.expect /\ run'.worked = run.worked /\ run'.ok = run.ok
        /\ run'.results = run.results /\ run'.drained = run.drained /\ RunShape'
    BY <2>1, <2>2 DEF RunShape, Stages
  <2>4. WorldFits' BY <1>1, <2>1 DEF WorldFits
  <2>5. p \in leased' /\ p # None BY <2>1, <2>2 DEF Preview!CertificationAssumption
  <2>6. StageFits' BY <1>1, <2>3, <2>5 DEF StageFits, Preview!At
  <2>7. Apart' BY <2>2, <2>3 DEF Apart, Preview!Backlog
  <2>8. Covered' BY <1>1, <2>3 DEF Covered
  <2>9. Scored' BY <1>1, <2>3 DEF Scored
  <2>10. Preview!VerdictIsEarned' BY <1>1, <2>1 DEF Preview!VerdictIsEarned
  <2> QED BY <1>1, <2>1, <2>2, <2>3, <2>4, <2>6, <2>7, <2>8, <2>9, <2>10
<1>3. CASE queue = <<>>
  <2>1. (IF Preview!At("claim") THEN Preview!Report("FAIL") ELSE Preview!EndDrain) /\ UNCHANGED <<queue, leased>>
    BY <1>3 DEF Preview!Claim
  <2>2. CASE Preview!At("claim") BY <1>1, <2>1, <2>2, FailureKeeps DEF WorldFits
  <2>3. CASE ~Preview!At("claim") BY <1>1, <2>1, <2>3, EndDrainKeeps DEF Preview!At
  <2> QED BY <2>2, <2>3
<1> QED BY <1>2, <1>3

LEMMA FinishKeeps ==
  ASSUME Preview!CertificationAssumption, CertInv, Preview!Finish PROVE CertInv'
<1> USE DEF CertInv
<1> DEFINE p == run.held
<1>1. /\ run.stage \in {"work", "drain_work"} /\ leased' = leased \ {p}
      /\ UNCHANGED <<queue, faults>> /\ verdict # "PASS"
  BY DEF Preview!Finish, Preview!At
<1>2. p \in leased /\ p \in Preview!Packets BY <1>1 DEF StageFits, QueueFits
<1>3. PICK o \in MayLeave[p] : outcome' = [outcome EXCEPT ![p] = o] BY DEF Preview!Finish
<1>4. o \in Preview!Outcomes BY <1>2, <1>3 DEF Preview!CertificationAssumption
<1>5. /\ outcome' \in [Preview!Packets -> Preview!Outcomes \cup {"none"}] /\ outcome'[p] = o
      /\ \A q \in Preview!Packets \ {p} : outcome'[q] = outcome[q]
  BY <1>2, <1>3, <1>4 DEF WorldFits
<1>6. QueueFits' /\ Preview!Backlog' \subseteq Preview!Backlog
  BY <1>1
  DEF QueueFits, Preview!Backlog
<1>7. \A q \in Preview!Packets \ Preview!Backlog : outcome'[q] = outcome[q]
  BY <1>2, <1>5
  DEF Preview!Backlog
<1>8. \A q \in run.worked : q \in Preview!Packets /\ q # p /\ outcome'[q] = outcome[q]
  BY <1>2, <1>5 DEF Apart, RunShape
<1>9. CASE run.stage = "work" /\ ~Preview!Owned(p)
  <2>1. Preview!Report("FAIL") BY <1>9 DEF Preview!Finish, Preview!At
  <2>2. verdict' \in {"none", "PASS", "FAIL"} \ {"PASS"} BY <1>1, <2>1 DEF Preview!Report, WorldFits
  <2>3. Preview!VerdictIsEarned' /\ WorldFits'
    BY <1>1, <1>5, <2>2
    DEF Preview!VerdictIsEarned, WorldFits
  <2> QED BY <1>6, <1>7, <2>1, <2>3, ReportKeeps DEF Preview!Report
<1>10. CASE run.stage = "work" /\ Preview!Owned(p)
  <2>1. run' = [run EXCEPT !.stage = "load", !.held = None, !.worked = @ \cup {p}] /\ UNCHANGED verdict
    BY <1>10 DEF Preview!Finish, Preview!At
  <2>2. /\ p = Head(run.expect) /\ run.expect \in Seq(Preview!Packets) /\ run.expect # <<>>
    BY <1>10 DEF Preview!Owned, RunShape, StageFits
  <2>3. p \in Preview!ToSet(run.expect) BY <2>2, HeadAndTail
  <2>4. /\ run'.stage = "load" /\ run'.held = None /\ run'.todo = run.todo
        /\ run'.expect = run.expect /\ run'.worked = run.worked \cup {p} /\ run'.ok = run.ok
        /\ run'.results = run.results /\ RunShape'
    BY <1>2, <2>1 DEF RunShape, Stages
  <2>5. WorldFits' BY <1>1, <1>5, <2>1 DEF WorldFits
  <2>6. StageFits' BY <1>10, <2>2, <2>4 DEF StageFits
  <2>7. p \notin Preview!ToSet(queue') \cup leased' BY <1>1, <1>2 DEF QueueFits
  <2>8. Apart' BY <1>1, <1>2, <2>3, <2>4, <2>7 DEF Apart
  <2>9. Covered' BY <1>10, <2>4 DEF Covered
  <2>10. Scored' BY <1>4, <1>5, <1>8, <2>3, <2>4 DEF Scored
  <2>11. Preview!VerdictIsEarned' BY <1>1, <2>1 DEF Preview!VerdictIsEarned
  <2> QED BY <1>1, <1>6, <2>1, <2>4, <2>5, <2>6, <2>8, <2>9, <2>10, <2>11
<1>11. CASE run.stage = "drain_work"
  <2>1. run' = [run EXCEPT !.stage = "drain", !.held = None, !.drained = @ + 1] /\ UNCHANGED verdict
    BY <1>11 DEF Preview!Finish, Preview!At
  <2> DEFINE drained == run.drained + 1
  <2>2. drained \in 0..MaxDrain
    BY <1>11 DEF StageFits, RunShape, Preview!CertificationAssumption
  <2>3. run' = [run EXCEPT !.stage = "drain", !.held = None, !.drained = drained] BY <2>1
  <2> HIDE DEF drained
  <2>4. /\ run'.stage = "drain" /\ run'.held = None /\ run'.todo = run.todo
        /\ run'.expect = run.expect /\ run'.worked = run.worked /\ run'.ok = run.ok
        /\ run'.results = run.results /\ RunShape'
    BY <2>2, <2>3 DEF RunShape, Stages
  <2>5. WorldFits' BY <1>1, <1>5, <2>1 DEF WorldFits
  <2>6. StageFits' BY <1>11, <2>4 DEF StageFits
  <2>8. Apart' BY <1>1, <2>4 DEF Apart
  <2>9. Covered' BY <1>11, <2>4 DEF Covered
  <2>10. Scored' BY <1>8, <2>4 DEF Scored
  <2>11. Preview!VerdictIsEarned' BY <1>1, <2>1 DEF Preview!VerdictIsEarned
  <2> QED BY <1>1, <1>6, <2>1, <2>4, <2>5, <2>6, <2>8, <2>9, <2>10, <2>11
<1> QED BY <1>1, <1>9, <1>10, <1>11

LEMMA LoadKeeps ==
  ASSUME Preview!CertificationAssumption, CertInv, Preview!Load PROVE CertInv'
<1> USE DEF CertInv
<1> DEFINE p == Head(run.expect)
           rest == Tail(run.expect)
           results == IF p \in Preview!Fixtures THEN run.results \cup {<<p, outcome[p]>>} ELSE run.results
           ok == run.ok /\ (p = "clarify" => outcome[p] = "right")
           next == IF rest # <<>> THEN "claim" ELSE Preview!Onward
<1>1. /\ run.stage = "load" /\ UNCHANGED <<queue, leased, outcome, verdict, faults>>
      /\ verdict # "PASS"
  BY DEF Preview!Load, Preview!At
<1>2. run' = [run EXCEPT !.expect = rest, !.results = results, !.ok = ok, !.stage = next]
  BY DEF Preview!Load
<1>3. run.expect \in Seq(Preview!Packets) /\ run.expect # <<>> /\ p \in run.worked /\ Preview!IsInjective(run.expect)
  BY <1>1 DEF RunShape, StageFits, Apart
<1>4. /\ p \in Preview!Packets /\ rest \in Seq(Preview!Packets) /\ Preview!IsInjective(rest)
      /\ Preview!ToSet(run.expect) = {p} \cup Preview!ToSet(rest) /\ p \notin Preview!ToSet(rest)
  BY <1>3, HeadAndTail
<1>5. outcome[p] \in Preview!Outcomes BY <1>3 DEF Scored
<1>6. /\ next \in {"claim", "direct", "replay", "seed"}
      /\ next = "claim" <=> rest # <<>>
      /\ next = "direct" => run.todo = <<>>
      /\ next \in {"replay", "seed"} => run.todo # <<>>
  BY DEF Preview!Onward
<1>7. results \in SUBSET (Preview!Fixtures \X Preview!Outcomes) /\ ok \in BOOLEAN
  BY <1>5 DEF RunShape
<1>8. \A f \in run.worked : f \notin Preview!ToSet(rest) =>
        /\ f \in Preview!Fixtures => <<f, outcome[f]>> \in results
        /\ f = "clarify" /\ ok => outcome[f] = "right"
  <2> TAKE f \in run.worked
  <2>1. CASE f = p BY <2>1
  <2>2. CASE f # p BY <2>2, <1>4 DEF Scored
  <2> QED BY <2>1, <2>2
<1> HIDE DEF p, rest, results, ok, next
<1>9. /\ run'.stage = next /\ run'.held = run.held /\ run'.todo = run.todo
      /\ run'.expect = rest /\ run'.worked = run.worked /\ run'.ok = ok
      /\ run'.results = results /\ run'.drained = run.drained /\ RunShape'
  BY <1>2, <1>4, <1>6, <1>7 DEF RunShape, Stages
<1>10. QueueFits' /\ WorldFits' BY <1>1 DEF QueueFits, WorldFits
<1>11. StageFits' BY <1>1, <1>6, <1>9 DEF StageFits
<1>12. Apart' BY <1>1, <1>4, <1>9 DEF Apart
<1>13. Covered' BY <1>1, <1>3, <1>4, <1>9 DEF Covered
<1>14. Scored'
  <2> SUFFICES ASSUME NEW f \in run.worked
               PROVE  /\ outcome[f] \in Preview!Outcomes
                      /\ f \in Preview!ToSet(rest) \/ (f \in Preview!Fixtures => <<f, outcome[f]>> \in results)
                      /\ f \in Preview!ToSet(rest) \/ (f = "clarify" /\ ok => outcome[f] = "right")
    BY <1>1, <1>9 DEF Scored
  <2> QED BY <1>8 DEF Scored
<1>15. Preview!VerdictIsEarned' BY <1>1 DEF Preview!VerdictIsEarned
<1> QED BY <1>1, <1>9, <1>10, <1>11, <1>12, <1>13, <1>14, <1>15

(* The gates see every mandatory fixture and the answered probe.           *)
LEMMA GatesJudge ==
  ASSUME Preview!CertificationAssumption, CertInv, run.stage = "verdict", Preview!GateA,
         Preview!GateB, Preview!GateE
  PROVE  /\ Mandatory \cup Preview!Probes \subseteq run.worked
         /\ outcome["clarify"] = "right"
         /\ \A f \in Mandatory : \/ outcome[f] = "right"
                                 \/ outcome[f] = "wrong" /\ Kind[f] = "closed"
<1> USE DEF CertInv
<1>1. Preview!ToSet(run.todo) = {} /\ Preview!ToSet(run.expect) = {}
  <2>1. run.todo = <<>> /\ run.expect = <<>> BY DEF StageFits
  <2> QED BY <2>1 DEF Preview!ToSet
<1>2. Mandatory \cup Preview!Probes \subseteq run.worked BY <1>1 DEF Covered
<1>3. outcome["clarify"] = "right"
  <2>1. "clarify" \in run.worked /\ run.ok BY <1>2 DEF Preview!Probes, Preview!GateB
  <2> QED BY <1>1, <2>1 DEF Scored
<1>4. ASSUME NEW f \in Mandatory
      PROVE  outcome[f] = "right" \/ (outcome[f] = "wrong" /\ Kind[f] = "closed")
  <2> DEFINE x == <<f, outcome[f]>>
  <2>1. x \in run.results /\ outcome[f] \in Preview!Outcomes
    BY <1>1, <1>2 DEF Scored, Preview!CertificationAssumption
  <2>2. x[1] = f /\ x[2] = outcome[f] OBVIOUS
  <2> HIDE DEF x
  <2>3. x[2] \notin {"dangerous", "caseless", "none"} BY <2>1 DEF Preview!GateE
  <2>4. x[2] \in {"wrong", "none"} => Kind[x[1]] = "closed" BY <2>1 DEF Preview!GateA
  <2> QED BY <2>1, <2>2, <2>3, <2>4 DEF Preview!Outcomes
<1> QED BY <1>2, <1>3, <1>4

LEMMA JudgeKeeps ==
  ASSUME Preview!CertificationAssumption, CertInv, Preview!Judge PROVE CertInv'
<1> USE DEF CertInv
<1> DEFINE passed == Preview!GateA /\ Preview!GateB /\ Preview!GateD /\ Preview!GateE
           word == IF passed THEN "PASS" ELSE "FAIL"
<1>1. /\ run.stage = "verdict" /\ Preview!Report(word) /\ UNCHANGED <<queue, leased, outcome, faults>>
      /\ verdict # "PASS"
  BY DEF Preview!Judge, Preview!At
<1>2. /\ run' = [run EXCEPT !.stage = "done", !.held = None]
      /\ verdict' = IF verdict = "none" THEN word ELSE verdict
  BY <1>1 DEF Preview!Report
<1>3. word \in {"PASS", "FAIL"} /\ (word = "PASS" => passed) OBVIOUS
<1>4. passed => Preview!GateA /\ Preview!GateB /\ Preview!GateE OBVIOUS
<1> HIDE DEF passed, word
<1>5. QueueFits' /\ WorldFits' BY <1>1, <1>2, <1>3 DEF QueueFits, WorldFits
<1>6. run'.worked = run.worked BY <1>2 DEF RunShape
<1>7. Preview!VerdictIsEarned'
  <2> SUFFICES ASSUME verdict' = "PASS" PROVE Preview!VerdictIsEarned'
    BY DEF Preview!VerdictIsEarned
  <2>1. Preview!GateA /\ Preview!GateB /\ Preview!GateE BY <1>1, <1>2, <1>3, <1>4
  <2> QED BY <1>1, <1>6, <2>1, GatesJudge DEF Preview!VerdictIsEarned
<1> QED BY <1>1, <1>2, <1>5, <1>7, ReportKeeps DEF Preview!Backlog

LEMMA AbandonKeeps ==
  ASSUME Preview!CertificationAssumption, CertInv, Preview!Abandon PROVE CertInv'
<1> USE DEF CertInv
<1>1. UNCHANGED <<queue, leased, outcome, run>> /\ verdict' = "FAIL" /\ faults' = faults + 1
      /\ faults < CertMaxFaults
  BY DEF Preview!Abandon, Preview!Fault
<1>2. QueueFits' /\ WorldFits' BY <1>1 DEF QueueFits, WorldFits, Preview!CertificationAssumption
<1>3. RunShape' /\ StageFits' /\ Apart' /\ Covered' /\ Scored'
  BY <1>1 DEF RunShape, StageFits, Apart, Covered, Scored
<1> QED BY <1>1, <1>2, <1>3 DEF Preview!VerdictIsEarned

LEMMA EndsKeep ==
  ASSUME Preview!CertificationAssumption, CertInv, Preview!Break \/ Preview!Leave PROVE CertInv'
<1>1. CASE Preview!Break
  <2>1. faults' \in 0..CertMaxFaults
    BY <1>1 DEF Preview!Break, Preview!Fault, CertInv, WorldFits, Preview!CertificationAssumption
  <2> QED BY <1>1, <2>1, FailureKeeps DEF Preview!Break, Preview!At
<1>2. CASE Preview!Leave
  <2>1. run.stage = "seed" /\ Preview!Goto("done") /\ UNCHANGED <<queue, leased, outcome, verdict, faults>>
    BY <1>2 DEF Preview!Leave, Preview!At
  <2>2. run.held = None BY <2>1 DEF CertInv, StageFits
  <2> QED BY <2>1, <2>2, CertGoesOn DEF Stages, CertInv, WorldFits
<1> QED BY <1>1, <1>2

LEMMA PacketArriveKeeps ==
  ASSUME Preview!CertificationAssumption, CertInv, NEW p \in Preview!Packets, Preview!Arrive(p)
  PROVE  CertInv'
<1>1. /\ p \in Outside \ Preview!Backlog /\ queue' = Append(queue, p)
      /\ UNCHANGED <<run, verdict, faults, leased, outcome>>
  BY DEF Preview!Arrive, Preview!Others
<1>2. /\ Append(queue, p) \in Seq(Preview!Packets) /\ Preview!ToSet(Append(queue, p)) = Preview!ToSet(queue) \cup {p}
      /\ Preview!IsInjective(Append(queue, p))
  BY <1>1, Appended DEF CertInv, QueueFits, Preview!Backlog
<1>3. QueueFits' /\ WorldFits' BY <1>1, <1>2 DEF CertInv, QueueFits, WorldFits, Preview!Backlog
<1>4. Preview!Backlog' \subseteq Preview!Backlog \cup Outside BY <1>1, <1>2 DEF Preview!Backlog
<1> QED BY <1>1, <1>3, <1>4, QueueOthersKeep DEF CertInv, StageFits

LEMMA OtherClaimsKeeps ==
  ASSUME Preview!CertificationAssumption, CertInv, Preview!OtherClaims PROVE CertInv'
<1>1. /\ queue # <<>> /\ queue' = Tail(queue) /\ leased' = leased \cup {Head(queue)}
      /\ UNCHANGED <<run, verdict, faults, outcome>>
  BY DEF Preview!OtherClaims, Preview!Others
<1>2. QueueFits' /\ Preview!Backlog' = Preview!Backlog BY <1>1, QueueClaimed
<1>3. WorldFits' BY <1>1 DEF CertInv, WorldFits
<1>4. run.held \in leased' \cup {None} BY <1>1 DEF CertInv, StageFits
<1> QED BY <1>1, <1>2, <1>3, <1>4, QueueOthersKeep

LEMMA OtherFinishesKeeps ==
  ASSUME Preview!CertificationAssumption, CertInv, NEW p \in Preview!Packets,
         Preview!OtherFinishes(p)
  PROVE  CertInv'
<1>1. /\ p \in leased \ {run.held} /\ leased' = leased \ {p}
      /\ UNCHANGED <<run, verdict, faults, queue>>
  BY DEF Preview!OtherFinishes, Preview!Others
<1>2. PICK o \in MayLeave[p] : outcome' = [outcome EXCEPT ![p] = o] BY DEF Preview!OtherFinishes
<1>3. o \in Preview!Outcomes BY <1>2 DEF Preview!CertificationAssumption
<1>4. QueueFits' /\ WorldFits'
  BY <1>1, <1>2, <1>3 DEF CertInv, QueueFits, WorldFits
<1>5. Preview!Backlog' \subseteq Preview!Backlog BY <1>1 DEF Preview!Backlog
<1>6. \A q \in Preview!Packets \ Preview!Backlog : outcome'[q] = outcome[q]
  BY <1>1, <1>2 DEF CertInv, WorldFits, Preview!Backlog
<1>7. run.held \in leased' \cup {None} BY <1>1 DEF CertInv, StageFits
<1> QED BY <1>1, <1>4, <1>5, <1>6, <1>7, QueueOthersKeep

LEMMA AgainKeeps ==
  ASSUME Preview!CertificationAssumption, CertInv, NEW p \in Preview!Packets, Preview!Again(p)
  PROVE  CertInv'
<1>1. /\ p \in leased \ {run.held} /\ leased' = leased \ {p}
      /\ UNCHANGED <<run, verdict, faults, outcome>>
  BY DEF Preview!Again, Preview!Others
<1>2. PICK i \in 1..Len(queue) + 1 : queue' = Preview!InsertAt(queue, i, p) BY DEF Preview!Again
<1>3. /\ queue' \in Seq(Preview!Packets) /\ Preview!ToSet(queue') = Preview!ToSet(queue) \cup {p}
      /\ Preview!IsInjective(queue) /\ p \notin Preview!ToSet(queue) => Preview!IsInjective(queue')
  BY <1>2, Inserted DEF CertInv, QueueFits
<1>4. QueueFits' /\ WorldFits' BY <1>1, <1>3 DEF CertInv, QueueFits, WorldFits
<1>5. Preview!Backlog' \subseteq Preview!Backlog BY <1>1, <1>3 DEF Preview!Backlog
<1>6. run.held \in leased' \cup {None} BY <1>1 DEF CertInv, StageFits
<1> QED BY <1>1, <1>4, <1>5, <1>6, QueueOthersKeep

LEMMA CertKeeps ==
  ASSUME Preview!CertificationAssumption, CertInv, [Preview!Next]_(Preview!vars) PROVE CertInv'
<1>1. CASE UNCHANGED Preview!vars
  BY <1>1
  DEF Preview!vars, CertInv, QueueFits, WorldFits, RunShape, StageFits, Apart, Covered, Scored,
      Preview!VerdictIsEarned
<1>2. CASE Preview!Next
  <2>1. CASE \E offered \in SUBSET Preview!Fixtures : Preview!Start(offered) BY <2>1, StartKeeps
  <2>2. CASE Preview!CheckBacklog \/ Preview!Replay \/ Preview!Seed
    BY <2>2, CheckBacklogKeeps, ReplayKeeps, SeedKeeps
  <2>3. CASE Preview!Claim \/ Preview!Finish \/ Preview!Load \/ Preview!Direct \/ Preview!Judge
    BY <2>3, ClaimKeeps, FinishKeeps, LoadKeeps, DirectKeeps, JudgeKeeps
  <2>4. CASE Preview!Break \/ Preview!Abandon \/ Preview!Leave BY <2>4, EndsKeep, AbandonKeeps
  <2>5. CASE Preview!OtherClaims BY <2>5, OtherClaimsKeeps
  <2>6. CASE \E p \in Preview!Packets : Preview!Arrive(p) \/ Preview!OtherFinishes(p) \/ Preview!Again(p)
    BY <2>6, PacketArriveKeeps, OtherFinishesKeeps, AgainKeeps
  <2> QED BY <1>2, <2>1, <2>2, <2>3, <2>4, <2>5, <2>6 DEF Preview!Next
<1> QED BY <1>1, <1>2

(* The certification keeps its types: queue and leases stay apart, and its lists *)
(* hold packets.                                                             *)
THEOREM CertificationTypeCorrect == ASSUME Preview!CertificationAssumption
                                    PROVE  Preview!Spec => []Preview!TypeOK
<1> USE Preview!CertificationAssumption
<1>1. Preview!Init => CertInv BY CertStarts
<1>2. CertInv /\ [Preview!Next]_(Preview!vars) => CertInv' BY CertKeeps
<1> QED BY <1>1, <1>2, CertTypes, PTL DEF Preview!Spec

(* A PASS was earned by this run's own work, whatever the others on the queue   *)
(* did meanwhile.                                                            *)
THEOREM VerdictsAreEarned == ASSUME Preview!CertificationAssumption
                             PROVE  Preview!Spec => []Preview!VerdictIsEarned
<1> USE Preview!CertificationAssumption
<1>1. Preview!Init => CertInv BY CertStarts
<1>2. CertInv /\ [Preview!Next]_(Preview!vars) => CertInv' BY CertKeeps
<1>3. CertInv => Preview!VerdictIsEarned BY DEF CertInv
<1> QED BY <1>1, <1>2, <1>3, PTL DEF Preview!Spec
-----------------------------------------------------------------------------
(* The studio inbox bridge.                                                  *)

(* A set of naturals has a least element.                                  *)
LEMMA LeastOf ==
  ASSUME NEW T \in SUBSET Nat, T # {} PROVE \E n \in T : \A m \in T : n <= m
<1> DEFINE less == OpToRel(<, Nat)
<1>1. IsWellFoundedOn(less, Nat) BY NatLessThanWellFounded, Zenon
<1>2. ASSUME NEW x \in Nat, NEW y \in Nat, y < x PROVE <<y, x>> \in less
  <2>1. <<y, x>> \in Nat \X Nat /\ <<y, x>>[1] = y /\ <<y, x>>[2] = x BY <1>2
  <2>2. <<y, x>>[1] < <<y, x>>[2] BY <2>1, <1>2
  <2> QED BY <2>1, <2>2, Zenon DEF OpToRel
<1> HIDE DEF less
<1>3. \E x \in T : \A y \in T : ~(<<y, x>> \in less) BY <1>1, WFMin
<1>4. PICK x \in T : \A y \in T : ~(y < x) BY <1>2, <1>3
<1> QED BY <1>4

Ts(r) == Entry[r].ts
Owed == {r \in Inbox!Texts \cap arrived : ~Inbox!Settled(r)}

RunsFit ==
  run \in [Runs -> {Inbox!Idle} \cup [stage : {"read", "row", "save"}, batch : SUBSET arrived, after : Inbox!Times]]

BatchesFit ==
  \A u \in Runs :
     /\ Inbox!At(u, "read") => run[u].batch = {}
     /\ Inbox!At(u, "row") => run[u].batch # {} /\ Cardinality(run[u].batch) <= BatchLimit
     /\ Inbox!At(u, "save") => run[u].batch = {}

(* A cursor is not beyond the rows that came, unless an operator set it.   *)
Reached(c) == \A r \in Rows \ excused : Inbox!Ahead(r, c) \/ \E q \in arrived : Ts(q) >= Ts(r)

TiesExcused == \A q, r \in arrived : q # r /\ Ts(q) = Ts(r) => q \in excused

CursorFits == Reached(cursor) /\ \A r \in Owed : Inbox!Ahead(r, cursor)

RunFits(u) ==
  ~Inbox!At(u, "idle") =>
    /\ Reached(run[u].after)
    /\ \A r \in Owed : Inbox!Ahead(r, run[u].after)
    /\ Inbox!At(u, "row") => \A r \in Owed \ run[u].batch : \A q \in run[u].batch : Ts(q) < Ts(r)

InboxInv ==
  /\ arrived \subseteq Rows /\ excused \subseteq Rows /\ failed \subseteq Rows
  /\ inbox \subseteq Inbox!Keys /\ cursor \in Inbox!Times /\ faults \in 0..InboxMaxFaults
  /\ RunsFit /\ BatchesFit /\ TiesExcused /\ CursorFits /\ \A u \in Runs : RunFits(u)

(* The service counts as this module does.                                   *)
LEMMA InboxCounts ==
  \A S : (Inbox!IsFiniteSet(S) <=> IsFiniteSet(S)) /\ Inbox!Cardinality(S) = Cardinality(S)
BY DEF IsFiniteSet, Cardinality, Inbox!IsFiniteSet, Inbox!Cardinality

(* What the code reads of the rows.                                        *)
LEMMA RowTypes ==
  ASSUME Inbox!InboxAssumption
  PROVE  /\ \A r \in Rows : Ts(r) \in Nat /\ Entry[r].id \in Nat
         /\ Inbox!Times \subseteq Nat /\ \A r \in Rows : Ts(r) \in Inbox!Times
<1>1. \A r \in Rows : Ts(r) \in Nat /\ Entry[r].id \in Nat BY DEF Inbox!InboxAssumption, Ts
<1>2. Inbox!Times = {Ts(r) : r \in Rows} \cup {0} \cup Overrides BY DEF Inbox!Times, Ts
<1>3. Overrides \subseteq Nat BY DEF Inbox!InboxAssumption
<1> QED BY <1>1, <1>2, <1>3

(* A cursor never reads later than it is.                                  *)
LEMMA CursorReads ==
  ASSUME NEW c \in Nat PROVE Inbox!CursorToPg(c) \in Nat /\ Inbox!CursorToPg(c) <= c
  BY DEF Inbox!CursorToPg

(* A batch has a first row, before all others.                             *)
LEMMA FirstRow ==
  ASSUME Inbox!InboxAssumption, NEW S \in SUBSET Rows, S # {}
  PROVE  Inbox!First(S) \in S /\ \A q \in S \ {Inbox!First(S)} : Inbox!Before(Inbox!First(S), q)
<1> DEFINE T == {Ts(r) : r \in S}
<1>1. T \subseteq Nat /\ T # {} BY RowTypes
<1>2. PICK t \in T : \A m \in T : t <= m BY <1>1, LeastOf
<1> DEFINE I == {Entry[r].id : r \in {q \in S : Ts(q) = t}}
<1>3. I \subseteq Nat /\ I # {} BY <1>2, RowTypes
<1>4. PICK i \in I : \A m \in I : i <= m BY <1>3, LeastOf
<1>5. PICK r \in S : Ts(r) = t /\ Entry[r].id = i BY <1>4
<1>6. ASSUME NEW q \in S \ {r} PROVE Inbox!Before(r, q)
  <2>1. Ts(q) \in Nat /\ t \in Nat /\ t <= Ts(q) BY <1>2, RowTypes
  <2>2. Entry[q].id \in Nat /\ i \in Nat /\ Entry[q].id # i
    BY <1>5, <1>6, RowTypes DEF Inbox!InboxAssumption
  <2>3. Ts(q) = t => i <= Entry[q].id BY <1>4
  <2> QED BY <2>1, <2>2, <2>3, <1>5 DEF Inbox!Before, Ts
<1>7. \E x \in S : \A q \in S \ {x} : Inbox!Before(x, q) BY <1>5, <1>6
<1> QED BY <1>7 DEF Inbox!First

(* Rows before a row.                                                      *)
LEMMA Preceding ==
  ASSUME Inbox!InboxAssumption, NEW S \in SUBSET Rows, NEW q \in S, NEW r \in S
  PROVE  /\ Cardinality({p \in S : Inbox!Before(p, r)}) \in Nat
         /\ Inbox!Before(q, r) =>
              Cardinality({p \in S : Inbox!Before(p, q)}) < Cardinality({p \in S : Inbox!Before(p, r)})
<1> DEFINE Q == {p \in S : Inbox!Before(p, q)}
           R == {p \in S : Inbox!Before(p, r)}
<1>1. \A p \in S : Ts(p) \in Nat /\ Entry[p].id \in Nat BY RowTypes
<1>2. IsFiniteSet(S) BY FS_Subset, InboxCounts DEF Inbox!InboxAssumption
<1>3. IsFiniteSet(Q) /\ IsFiniteSet(R) /\ Q \subseteq S /\ R \subseteq S BY <1>2, FS_Subset
<1>4. Cardinality(Q) \in Nat /\ Cardinality(R) \in Nat BY <1>3, FS_CardinalityType
<1>5. ASSUME Inbox!Before(q, r) PROVE Cardinality(Q) < Cardinality(R)
  <2>1. q \notin Q BY <1>1 DEF Inbox!Before, Ts
  <2>2. Q \cup {q} \in SUBSET R
    <3> SUFFICES ASSUME NEW p \in Q PROVE Inbox!Before(p, r) BY <1>5
    <3> QED BY <1>1, <1>5 DEF Inbox!Before, Ts
  <2> HIDE DEF Q, R
  <2>3. Cardinality(Q \cup {q}) = Cardinality(Q) + 1 BY <1>3, <2>1, FS_AddElement
  <2>4. Cardinality(Q \cup {q}) <= Cardinality(R) BY <1>3, <2>2, FS_Subset
  <2> QED BY <1>4, <2>3, <2>4
<1> QED BY <1>4, <1>5

(* A batch holds no more rows than the limit.                              *)
LEMMA BatchIsLimited ==
  ASSUME Inbox!InboxAssumption, arrived \subseteq Rows, NEW c
  PROVE  Inbox!Batch(c) \subseteq arrived /\ Cardinality(Inbox!Batch(c)) <= BatchLimit
<1> DEFINE S == {r \in arrived : Inbox!Ahead(r, c)}
           B == Inbox!Batch(c)
           place == [r \in B |-> Cardinality({q \in S : Inbox!Before(q, r)})]
           N == 0..BatchLimit - 1
<1>1. S \in SUBSET Rows OBVIOUS
<1>2. B = {r \in S : Cardinality({q \in S : Inbox!Before(q, r)}) < BatchLimit}
  BY InboxCounts
  DEF Inbox!Batch
<1> HIDE DEF S, B
<1>3. BatchLimit \in Nat \ {0} BY DEF Inbox!InboxAssumption
<1>4. place \in [B -> N]
  <2> SUFFICES ASSUME NEW r \in B PROVE place[r] \in N OBVIOUS
  <2>1. place[r] \in Nat /\ place[r] < BatchLimit BY <1>1, <1>2, Preceding
  <2> QED BY <2>1, <1>3
<1>5. \A q, r \in B : place[q] = place[r] => q = r
  <2> SUFFICES ASSUME NEW q \in B, NEW r \in B, q # r PROVE place[q] # place[r] OBVIOUS
  <2>1. q \in S /\ r \in S BY <1>2
  <2>2. Inbox!Before(q, r) \/ Inbox!Before(r, q)
    <3>1. Ts(q) \in Nat /\ Ts(r) \in Nat /\ Entry[q].id \in Nat /\ Entry[r].id \in Nat
      BY <1>1, <2>1, RowTypes
    <3>2. Entry[q].id # Entry[r].id BY <1>1, <2>1 DEF Inbox!InboxAssumption
    <3> QED BY <3>1, <3>2 DEF Inbox!Before, Ts
  <2>3. place[q] \in Nat /\ place[r] \in Nat BY <1>4, <1>3
  <2>4. Inbox!Before(q, r) => place[q] < place[r] BY <1>1, <2>1, Preceding
  <2>5. Inbox!Before(r, q) => place[r] < place[q] BY <1>1, <2>1, Preceding
  <2> QED BY <2>2, <2>3, <2>4, <2>5
<1>6. place \in Injection(B, N) BY <1>4, <1>5 DEF Injection, IsInjective
<1> HIDE DEF place
<1>7. IsFiniteSet(N) /\ Cardinality(N) = BatchLimit BY <1>3, FS_Interval
<1>8. Cardinality(B) <= Cardinality(N) BY <1>6, <1>7, FS_Injection
<1> QED BY <1>7, <1>8 DEF Inbox!Batch, B

(* A row left out of a batch is not before any row in it.                  *)
LEMMA LeftOut ==
  ASSUME Inbox!InboxAssumption, arrived \subseteq Rows, NEW c, NEW q \in Inbox!Batch(c),
         NEW r \in arrived \ Inbox!Batch(c), Inbox!Ahead(r, c)
  PROVE  ~Inbox!Before(r, q)
<1> DEFINE S == {p \in arrived : Inbox!Ahead(p, c)}
<1>1. S \in SUBSET Rows OBVIOUS
<1>2. Inbox!Batch(c) = {p \in S : Cardinality({o \in S : Inbox!Before(o, p)}) < BatchLimit}
  BY InboxCounts
  DEF Inbox!Batch
<1>3. q \in S /\ r \in S BY <1>2
<1> HIDE DEF S
<1>4. /\ Cardinality({o \in S : Inbox!Before(o, q)}) \in Nat
      /\ Cardinality({o \in S : Inbox!Before(o, r)}) \in Nat
      /\ Inbox!Before(r, q) => Cardinality({o \in S : Inbox!Before(o, r)}) < Cardinality({o \in S : Inbox!Before(o, q)})
  BY <1>1, <1>3, Preceding
<1>5. BatchLimit \in Nat BY DEF Inbox!InboxAssumption
<1> QED BY <1>2, <1>3, <1>4, <1>5

(* A run that stays as it is, while the inbox and the excuses only grow.   *)
LEMMA RunsStay ==
  ASSUME InboxInv, NEW u \in Runs, run'[u] = run[u], arrived' = arrived,
         excused \subseteq excused', inbox \subseteq inbox'
  PROVE  RunFits(u)'
<1>1. \A r \in Rows : Inbox!Settled(r) => Inbox!Settled(r)' BY DEF Inbox!Settled
<1>2. Owed' \subseteq Owed BY <1>1 DEF Owed, Inbox!Texts
<1> QED BY <1>2 DEF InboxInv, RunFits, Inbox!At, Reached, Inbox!Ahead

LEMMA CursorStays ==
  ASSUME InboxInv, cursor' = cursor, arrived' = arrived, excused \subseteq excused',
         inbox \subseteq inbox'
  PROVE  CursorFits' /\ TiesExcused'
<1>1. \A r \in Rows : Inbox!Settled(r) => Inbox!Settled(r)' BY DEF Inbox!Settled
<1>2. Owed' \subseteq Owed BY <1>1 DEF Owed, Inbox!Texts
<1> QED BY <1>2 DEF InboxInv, CursorFits, TiesExcused, Reached, Inbox!Ahead

(* A run that goes to another stage with rows that came.                   *)
LEMMA RunGoes ==
  ASSUME InboxInv, NEW u \in Runs, NEW s \in {"read", "row", "save"}, NEW b \in SUBSET arrived,
         NEW c \in Inbox!Times,
         run' = [run EXCEPT ![u] = [stage |-> s, batch |-> b, after |-> c]],
         arrived' = arrived, Cardinality(b) <= BatchLimit, s = "row" <=> b # {}
  PROVE  /\ RunsFit' /\ BatchesFit' /\ \A v \in Runs \ {u} : run'[v] = run[v]
         /\ run'[u] = [stage |-> s, batch |-> b, after |-> c]
<1> DEFINE Active == [stage : {"read", "row", "save"}, batch : SUBSET arrived, after : Inbox!Times]
           h == [stage |-> s, batch |-> b, after |-> c]
<1>1. run \in [Runs -> {Inbox!Idle} \cup Active] BY DEF InboxInv, RunsFit
<1>2. h \in Active /\ h.stage = s /\ h.batch = b OBVIOUS
<1> HIDE DEF Active, h
<1>3. run' \in [Runs -> {Inbox!Idle} \cup Active] BY <1>1, <1>2 DEF h
<1>4. run'[u] = h /\ \A v \in Runs \ {u} : run'[v] = run[v] BY <1>1 DEF h
<1>5. Inbox!Times' = Inbox!Times BY DEF Inbox!Times
<1>6. RunsFit' BY <1>3, <1>5 DEF RunsFit, Active, Inbox!Idle
<1>7. BatchesFit' BY <1>2, <1>4 DEF InboxInv, BatchesFit, Inbox!At
<1> QED BY <1>4, <1>6, <1>7 DEF h

(* A run that ends, whatever it leaves.                                    *)
LEMMA RunEnds ==
  ASSUME InboxInv, NEW u \in Runs, run' = [run EXCEPT ![u] = Inbox!Idle], arrived' = arrived
  PROVE  /\ RunsFit' /\ BatchesFit' /\ \A v \in Runs \ {u} : run'[v] = run[v]
         /\ RunFits(u)'
<1> DEFINE Active == [stage : {"read", "row", "save"}, batch : SUBSET arrived, after : Inbox!Times]
<1>1. run \in [Runs -> {Inbox!Idle} \cup Active] BY DEF InboxInv, RunsFit
<1> HIDE DEF Active
<1>3. run' \in [Runs -> {Inbox!Idle} \cup Active] BY <1>1
<1>4. run'[u] = Inbox!Idle /\ \A v \in Runs \ {u} : run'[v] = run[v] BY <1>1
<1>5. Inbox!Times' = Inbox!Times BY DEF Inbox!Times
<1>6. RunsFit' BY <1>3, <1>5 DEF RunsFit, Active, Inbox!Idle
<1>7. BatchesFit' BY <1>4 DEF InboxInv, BatchesFit, Inbox!At, Inbox!Idle
<1>8. RunFits(u)' BY <1>4 DEF RunFits, Inbox!At, Inbox!Idle
<1> QED BY <1>4, <1>6, <1>7, <1>8

LEMMA InboxStartKeeps ==
  ASSUME Inbox!InboxAssumption, InboxInv, NEW u \in Runs, Inbox!Start(u)
  PROVE  InboxInv'
<1>1. PICK from \in {cursor} \cup Overrides :
        /\ IF from = cursor THEN Inbox!Works /\ UNCHANGED excused
           ELSE Inbox!Fault /\ excused' = excused \cup {r \in Rows : ~Inbox!Ahead(r, from)}
        /\ run' = [run EXCEPT ![u] = [stage |-> "read", batch |-> {}, after |-> from]]
        /\ UNCHANGED <<arrived, inbox, cursor, failed>>
  BY DEF Inbox!Start
<1>2. from \in Inbox!Times /\ Inbox!Times' = Inbox!Times BY DEF InboxInv, Inbox!Times
<1>3. faults' \in 0..InboxMaxFaults /\ excused \subseteq excused' /\ excused' \subseteq Rows
  BY <1>1 DEF Inbox!Works, Inbox!Fault, InboxInv, Inbox!InboxAssumption
<1>4. Cardinality({}) <= BatchLimit BY FS_EmptySet DEF Inbox!InboxAssumption
<1>5. /\ RunsFit' /\ BatchesFit' /\ \A v \in Runs \ {u} : run'[v] = run[v]
      /\ run'[u] = [stage |-> "read", batch |-> {}, after |-> from]
  <2> DEFINE s == "read"
             b == {}
  <2>1. /\ s \in {"read", "row", "save"} /\ b \in SUBSET arrived /\ Cardinality(b) <= BatchLimit
        /\ (s = "row" <=> b # {})
        /\ run' = [run EXCEPT ![u] = [stage |-> s, batch |-> b, after |-> from]]
    BY <1>1, <1>4
  <2> HIDE DEF s, b
  <2>2. /\ RunsFit' /\ BatchesFit' /\ \A v \in Runs \ {u} : run'[v] = run[v]
        /\ run'[u] = [stage |-> s, batch |-> b, after |-> from]
    <3>1. from \in Inbox!Times /\ arrived' = arrived BY <1>1, <1>2
    <3> QED BY <2>1, <3>1, RunGoes
  <2> QED BY <2>2 DEF s, b
<1>6. \A v \in Runs \ {u} : RunFits(v)' BY <1>1, <1>3, <1>5, RunsStay
<1>7. CursorFits' /\ TiesExcused' BY <1>1, <1>3, CursorStays
<1>8. RunFits(u)'
  <2>1. run'[u].stage = "read" /\ run'[u].after = from BY <1>5
  <2>2. CASE from = cursor
    <3>1. run'[u].after = cursor' /\ ~(Inbox!At(u, "row")') BY <2>1, <2>2, <1>1 DEF Inbox!At
    <3> QED BY <3>1, <1>7 DEF RunFits, CursorFits, Reached, Inbox!Ahead
  <2>3. CASE from # cursor
    <3>1. \A r \in Rows \ excused' : Inbox!Ahead(r, from) BY <1>1, <2>3
    <3>2. Owed' \subseteq Rows \ excused' BY DEF Owed, Inbox!Texts, Inbox!Settled
    <3>3. Reached(from)' /\ \A r \in Owed' : Inbox!Ahead(r, from)'
      BY <3>1, <3>2
      DEF Reached, Inbox!Ahead
    <3> QED BY <2>1, <3>3 DEF RunFits, Inbox!At, Reached, Inbox!Ahead
  <2> QED BY <2>2, <2>3
<1> QED BY <1>1, <1>2, <1>3, <1>5, <1>6, <1>7, <1>8 DEF InboxInv, Inbox!Keys

LEMMA InboxReadKeeps ==
  ASSUME Inbox!InboxAssumption, InboxInv, NEW u \in Runs, Inbox!ReadBatch(u)
  PROVE  InboxInv'
<1> DEFINE c == run[u].after
           b == Inbox!Batch(c)
           s == IF b = {} THEN "save" ELSE "row"
<1>1. Inbox!At(u, "read") /\ UNCHANGED <<arrived, inbox, cursor, excused, failed>>
  BY DEF Inbox!ReadBatch
<1>2. faults' \in 0..InboxMaxFaults
  BY DEF Inbox!ReadBatch, Inbox!Works, Inbox!Fault, InboxInv, Inbox!InboxAssumption
<1>3. CursorFits' /\ TiesExcused' BY <1>1, CursorStays
<1>4. Inbox!Times' = Inbox!Times BY DEF Inbox!Times
<1>5. CASE run' = [run EXCEPT ![u] = Inbox!Idle]
  <2>1. RunsFit' /\ BatchesFit' /\ RunFits(u)' /\ \A v \in Runs \ {u} : run'[v] = run[v]
    BY <1>1, <1>5, RunEnds
  <2>2. \A v \in Runs \ {u} : RunFits(v)' BY <1>1, <2>1, RunsStay
  <2> QED BY <1>1, <1>2, <1>3, <1>4, <2>1, <2>2 DEF InboxInv, Inbox!Keys
<1>6. CASE run' = [run EXCEPT ![u].stage = s, ![u].batch = b]
  <2>1. run[u] = [stage |-> "read", batch |-> run[u].batch, after |-> c] /\ c \in Inbox!Times
    BY <1>1 DEF InboxInv, RunsFit, Inbox!At, Inbox!Idle
  <2>2. run' = [run EXCEPT ![u] = [stage |-> s, batch |-> b, after |-> c]]
    <3> DEFINE h == run[u]
               f == [h EXCEPT !.stage = s]
    <3> HIDE DEF s, b, c, h
    <3>1. h \in [stage : {"read"}, batch : {h.batch}, after : Inbox!Times] /\ h.after = c
      BY <2>1 DEF h, c
    <3>2. f = [stage |-> s, batch |-> h.batch, after |-> h.after] BY <3>1
    <3>3. f \in [stage : {s}, batch : {h.batch}, after : Inbox!Times] /\ f.stage = s /\ f.after = c
      BY <3>1, <3>2
    <3> HIDE DEF f
    <3>4. [f EXCEPT !.batch = b] = [stage |-> s, batch |-> b, after |-> c] BY <3>3
    <3> QED BY <1>6, <3>4 DEF InboxInv, RunsFit, h, f
  <2>3. b \subseteq arrived /\ Cardinality(b) <= BatchLimit BY BatchIsLimited DEF InboxInv
  <2> HIDE DEF b, c
  <2>4. /\ RunsFit' /\ BatchesFit' /\ \A v \in Runs \ {u} : run'[v] = run[v]
        /\ run'[u] = [stage |-> s, batch |-> b, after |-> c]
    BY <1>1, <2>1, <2>2, <2>3, RunGoes
  <2>5. \A v \in Runs \ {u} : RunFits(v)' BY <1>1, <2>4, RunsStay
  <2>6. Reached(c) /\ \A r \in Owed : Inbox!Ahead(r, c) BY <1>1 DEF InboxInv, RunFits, Inbox!At, c
  <2>7. ASSUME NEW r \in Owed \ b, NEW q \in b PROVE Ts(q) < Ts(r)
    <3>1. r \in arrived /\ r \in Rows /\ q \in arrived /\ q \in Rows /\ q # r /\ r \notin excused
      BY <2>3, <2>7 DEF Owed, Inbox!Texts, Inbox!Settled, InboxInv
    <3>2. ~Inbox!Before(r, q) BY <2>6, <2>7, <3>1, LeftOut DEF b, InboxInv
    <3>3. Ts(r) # Ts(q) BY <3>1 DEF InboxInv, TiesExcused
    <3> QED BY <3>1, <3>2, <3>3, RowTypes DEF Inbox!Before, Ts
  <2>8. Owed' = Owed BY <1>1 DEF Owed, Inbox!Settled, Inbox!Texts
  <2>9. RunFits(u)'
    <3>1. run'[u].after = c /\ run'[u].batch = b BY <2>4
    <3> QED BY <1>1, <2>6, <2>7, <2>8, <3>1 DEF RunFits, Reached, Inbox!Ahead, Ts
  <2> QED BY <1>1, <1>2, <1>3, <1>4, <2>4, <2>5, <2>9 DEF InboxInv, Inbox!Keys
<1> QED BY <1>5, <1>6 DEF Inbox!ReadBatch

LEMMA InboxProcessKeeps ==
  ASSUME Inbox!InboxAssumption, InboxInv, NEW u \in Runs, Inbox!Process(u)
  PROVE  InboxInv'
<1> DEFINE c == run[u].after
           b == run[u].batch
           q == Inbox!First(b)
           rest == b \ {q}
           s == IF rest = {} THEN "save" ELSE "row"
<1>1. Inbox!At(u, "row") /\ UNCHANGED <<arrived, cursor>> BY DEF Inbox!Process
<1>2. /\ faults' \in 0..InboxMaxFaults /\ excused \subseteq excused' /\ inbox \subseteq inbox'
      /\ Inbox!Times' = Inbox!Times
  BY DEF Inbox!Process, Inbox!Works, Inbox!Fault, InboxInv, Inbox!InboxAssumption, Inbox!Times
<1>3. /\ run[u] = [stage |-> "row", batch |-> b, after |-> c] /\ c \in Inbox!Times
      /\ b \subseteq arrived /\ b \subseteq Rows /\ b # {} /\ Cardinality(b) <= BatchLimit
  BY <1>1 DEF InboxInv, RunsFit, BatchesFit, Inbox!At, Inbox!Idle
<1>4. q \in b /\ q \in Rows /\ \A r \in rest : Inbox!Before(q, r) BY <1>3, FirstRow
<1>5. PICK answer \in {"duplicate", "ingested", "skipped", "failed"} :
        /\ Inbox!NextRow(u, answer)
        /\ \/ Inbox!Advances(answer) /\ inbox' = inbox \cup {Entry[q].key} /\ UNCHANGED <<excused, failed>>
           \/ ~Inbox!Advances(answer) /\ Inbox!Mapped(q) = "skipped" /\ UNCHANGED <<inbox, excused, failed>>
           \/ /\ ~Inbox!Advances(answer) /\ UNCHANGED inbox
              /\ excused' = excused \cup {q} /\ failed' = failed \cup {q}
  BY DEF Inbox!Process, Inbox!Advances
<1> HIDE DEF c, b, q
<1>6. inbox' \subseteq Inbox!Keys /\ excused' \subseteq Rows /\ failed' \subseteq Rows
  BY <1>4, <1>5 DEF InboxInv, Inbox!Keys
<1>0. PICK after : after = IF Inbox!Advances(answer) THEN Inbox!Later(Ts(q), c) ELSE c OBVIOUS
<1>7. after = c \/ (Inbox!Advances(answer) /\ after = Ts(q)) BY <1>0 DEF Inbox!Later
<1>8. after \in Inbox!Times BY <1>3, <1>4, <1>7, RowTypes
<1>9. run' = [run EXCEPT ![u] = [stage |-> s, batch |-> rest, after |-> after]]
  <2>1. run' = [run EXCEPT ![u].batch = rest, ![u].stage = s,
                           ![u].after = IF Inbox!Advances(answer) THEN Inbox!Later(Entry[q].ts, @) ELSE @]
    BY <1>5 DEF Inbox!NextRow, b, q
  <2> HIDE DEF rest, s
  <2>2. run' = [run EXCEPT ![u].batch = rest, ![u].stage = s, ![u].after = after]
    BY <1>0, <2>1 DEF c, Ts
  <2> DEFINE h == run[u]
             f == [h EXCEPT !.batch = rest]
             g == [f EXCEPT !.stage = s]
  <2> HIDE DEF h, s
  <2>3. h \in [stage : {"row"}, batch : {b}, after : Inbox!Times] BY <1>3 DEF h
  <2>4. f = [stage |-> h.stage, batch |-> rest, after |-> h.after] BY <2>3
  <2>5. f \in [stage : {"row"}, batch : {rest}, after : Inbox!Times] /\ f.batch = rest BY <2>3, <2>4
  <2> HIDE DEF f
  <2>6. g = [stage |-> s, batch |-> f.batch, after |-> f.after] BY <2>5
  <2>7. g \in [stage : {s}, batch : {rest}, after : Inbox!Times] /\ g.stage = s /\ g.batch = rest
    BY <2>5, <2>6
  <2> HIDE DEF g
  <2>8. [g EXCEPT !.after = after] = [stage |-> s, batch |-> rest, after |-> after] BY <2>7
  <2> QED BY <2>2, <2>8 DEF InboxInv, RunsFit, h, f, g
<1>10. Cardinality(rest) <= BatchLimit
  <2>1. IsFiniteSet(b) BY <1>3, FS_Subset, InboxCounts DEF Inbox!InboxAssumption
  <2>2. Cardinality(rest) <= Cardinality(b) /\ IsFiniteSet(rest) BY <2>1, FS_Subset
  <2>3. Cardinality(b) \in Nat /\ Cardinality(rest) \in Nat BY <2>1, <2>2, FS_CardinalityType
  <2> QED BY <1>3, <2>2, <2>3 DEF Inbox!InboxAssumption
<1>11. rest \subseteq arrived BY <1>3
<1> HIDE DEF rest
<1>12. /\ RunsFit' /\ BatchesFit' /\ \A v \in Runs \ {u} : run'[v] = run[v]
       /\ run'[u] = [stage |-> s, batch |-> rest, after |-> after]
  BY <1>1, <1>8, <1>9, <1>10, <1>11, RunGoes
<1>13. \A v \in Runs \ {u} : RunFits(v)' BY <1>1, <1>2, <1>12, RunsStay
<1>14. CursorFits' /\ TiesExcused' BY <1>1, <1>2, CursorStays
<1>15. Owed' \subseteq Owed \ {q}
  <2>1. Owed' \subseteq Owed BY <1>1, <1>2 DEF Owed, Inbox!Settled, Inbox!Texts
  <2>2. q \notin Owed'
    <3>1. CASE Entry[q].key \in inbox' BY <3>1 DEF Owed, Inbox!Settled
    <3>2. CASE q \in excused' BY <3>2 DEF Owed, Inbox!Settled
    <3>3. CASE Inbox!Mapped(q) = "skipped"
      <4>1. q \notin Inbox!Texts BY <3>3 DEF Inbox!Mapped, Inbox!Texts
      <4> QED BY <4>1 DEF Owed, Inbox!Texts
    <3> QED BY <1>5, <3>1, <3>2, <3>3
  <2> QED BY <2>1, <2>2
<1>16. /\ Reached(c) /\ \A r \in Owed : Inbox!Ahead(r, c)
       /\ \A r \in Owed \ b : \A p \in b : Ts(p) < Ts(r)
  <2>1. RunFits(u) BY DEF InboxInv
  <2> QED BY <1>1, <2>1 DEF RunFits, Inbox!At, b, c
<1>17. ASSUME NEW r \in Owed \ {q} PROVE Ts(q) < Ts(r)
  <2>1. CASE r \notin b BY <1>4, <1>16, <1>17, <2>1
  <2>2. CASE r \in b
    <3>1. r \in rest /\ r \in Rows /\ r \in arrived /\ q \in arrived /\ r # q /\ r \notin excused
      BY <1>3, <1>4, <1>17, <2>2 DEF rest, Owed, Inbox!Settled
    <3>2. Inbox!Before(q, r) BY <1>4, <3>1
    <3>3. Ts(r) # Ts(q) BY <3>1 DEF InboxInv, TiesExcused
    <3> QED BY <1>4, <3>1, <3>2, <3>3, RowTypes DEF Inbox!Before, Ts
  <2> QED BY <2>1, <2>2
<1>18. Ts(q) \in Nat /\ Inbox!CursorToPg(Ts(q)) \in Nat /\ Inbox!CursorToPg(Ts(q)) <= Ts(q)
  BY <1>4, RowTypes, CursorReads
<1>19. \A r \in Owed' : Inbox!Ahead(r, after)
  <2> TAKE r \in Owed'
  <2>1. r \in Owed \ {q} /\ r \in Rows BY <1>15 DEF Owed, Inbox!Texts
  <2>2. Ts(q) < Ts(r) /\ Ts(r) \in Nat BY <1>17, <2>1, RowTypes
  <2>3. Inbox!Ahead(r, Ts(q)) BY <1>18, <2>2 DEF Inbox!Ahead, Ts
  <2> QED BY <1>7, <1>16, <2>1, <2>3
<1>20. Reached(after)'
  <2> SUFFICES ASSUME NEW r \in Rows \ excused'
               PROVE  Inbox!Ahead(r, after) \/ \E p \in arrived : Ts(p) >= Ts(r)
    BY <1>1 DEF Reached, Inbox!Ahead, Ts
  <2>1. CASE after = c BY <1>2, <1>16, <2>1 DEF Reached
  <2>2. CASE after = Ts(q)
    <3>1. CASE Ts(q) >= Ts(r) BY <3>1, <1>3, <1>4
    <3>2. CASE ~(Ts(q) >= Ts(r))
      <4>1. Ts(q) < Ts(r) /\ Ts(r) \in Nat BY <3>2, <1>18, RowTypes
      <4> QED BY <2>2, <4>1, <1>18 DEF Inbox!Ahead, Ts
    <3> QED BY <3>1, <3>2
  <2> QED BY <1>7, <2>1, <2>2
<1>21. RunFits(u)'
  <2>1. run'[u].after = after /\ run'[u].batch = rest BY <1>12
  <2>2. \A r \in Owed' \ rest : \A p \in rest : Ts(p) < Ts(r)
    <3> TAKE r \in Owed' \ rest
    <3>1. r \in Owed \ b BY <1>15 DEF rest
    <3>2. rest \subseteq b BY DEF rest
    <3> QED BY <3>1, <3>2, <1>16
  <2> QED BY <1>19, <1>20, <2>1, <2>2 DEF RunFits, Reached, Inbox!Ahead, Ts
<1> QED BY <1>1, <1>2, <1>6, <1>12, <1>13, <1>14, <1>21 DEF InboxInv, Inbox!Keys

LEMMA SaveKeeps ==
  ASSUME Inbox!InboxAssumption, InboxInv, NEW u \in Runs, Inbox!SaveCursor(u) \/ Inbox!Die(u)
  PROVE  InboxInv'
<1>1. /\ UNCHANGED <<arrived, inbox, excused, failed>> /\ run' = [run EXCEPT ![u] = Inbox!Idle]
      /\ faults' \in 0..InboxMaxFaults /\ Inbox!Times' = Inbox!Times
  BY DEF Inbox!SaveCursor, Inbox!Die, Inbox!Works, Inbox!Fault, InboxInv, Inbox!InboxAssumption,
         Inbox!Times
<1>2. RunsFit' /\ BatchesFit' /\ RunFits(u)' /\ \A v \in Runs \ {u} : run'[v] = run[v]
  BY <1>1, RunEnds
<1>3. \A v \in Runs \ {u} : RunFits(v)' BY <1>1, <1>2, RunsStay
<1>4. CASE cursor' = cursor
  <2>1. CursorFits' /\ TiesExcused' BY <1>1, <1>4, CursorStays
  <2> QED BY <1>1, <1>2, <1>3, <1>4, <2>1 DEF InboxInv, Inbox!Keys
<1>5. CASE cursor' = run[u].after /\ Inbox!At(u, "save")
  <2>1. run[u].after \in Inbox!Times BY <1>5 DEF InboxInv, RunsFit, Inbox!At, Inbox!Idle
  <2>2. Reached(run[u].after) /\ \A r \in Owed : Inbox!Ahead(r, run[u].after)
    BY <1>5 DEF InboxInv, RunFits, Inbox!At
  <2>3. Owed' = Owed /\ TiesExcused'
    BY <1>1
    DEF Owed, Inbox!Settled, Inbox!Texts, InboxInv, TiesExcused
  <2>4. CursorFits' BY <1>1, <1>5, <2>2, <2>3 DEF CursorFits, Reached, Inbox!Ahead
  <2> QED BY <1>1, <1>2, <1>3, <1>5, <2>1, <2>3, <2>4 DEF InboxInv, Inbox!Keys
<1> QED BY <1>4, <1>5 DEF Inbox!SaveCursor, Inbox!Die

LEMMA RowArrivalKeeps ==
  ASSUME Inbox!InboxAssumption, InboxInv, NEW r \in Rows, Inbox!Arrive(r)
  PROVE  InboxInv'
<1> DEFINE notEarlier == {q \in arrived : ~(Ts(q) < Ts(r))}
<1>1. /\ arrived' = arrived \cup {r} /\ UNCHANGED <<inbox, cursor, run, failed, faults>>
      /\ excused' = excused \cup {q \in notEarlier : Ts(q) = Ts(r)}
                            \cup (IF notEarlier = {} THEN {} ELSE {r})
      /\ Inbox!Times' = Inbox!Times /\ r \notin arrived
  BY DEF Inbox!Arrive, Inbox!Works, Inbox!Times, Ts
<1>2. excused \subseteq excused' /\ excused' \subseteq Rows /\ arrived' \subseteq Rows
  BY <1>1 DEF InboxInv
<1>3. \A q \in Rows : Ts(q) \in Nat BY RowTypes
<1>4. Owed' \subseteq Owed \cup {r} BY <1>1 DEF Owed, Inbox!Settled, Inbox!Texts
<1>5. r \in Owed' => \A q \in arrived : Ts(q) < Ts(r) BY <1>1 DEF Owed, Inbox!Settled
<1>6. ASSUME NEW c, Reached(c), \A q \in Owed : Inbox!Ahead(q, c)
      PROVE  Reached(c)' /\ \A q \in Owed' : Inbox!Ahead(q, c)
  <2>1. Reached(c)' BY <1>1, <1>2, <1>6 DEF Reached, Inbox!Ahead, Ts
  <2>2. r \in Owed' => Inbox!Ahead(r, c)
    <3> SUFFICES ASSUME r \in Owed' PROVE Inbox!Ahead(r, c) OBVIOUS
    <3>1. r \notin excused BY <1>2 DEF Owed, Inbox!Settled
    <3>2. Inbox!Ahead(r, c) \/ \E q \in arrived : Ts(q) >= Ts(r) BY <1>6, <3>1 DEF Reached
    <3> QED BY <3>2, <1>3, <1>5 DEF InboxInv
  <2> QED BY <1>4, <1>6, <2>1, <2>2
<1>7. CursorFits' BY <1>1, <1>6 DEF InboxInv, CursorFits, Inbox!Ahead
<1>8. TiesExcused'
  <2> SUFFICES ASSUME NEW p \in arrived', NEW q \in arrived', p # q, Ts(p) = Ts(q)
               PROVE  p \in excused'
    BY DEF TiesExcused, Ts
  <2>1. CASE p \in arrived /\ q \in arrived BY <2>1, <1>2 DEF InboxInv, TiesExcused
  <2>2. CASE p = r
    <3>1. q \in notEarlier BY <1>1, <1>3, <2>2 DEF InboxInv
    <3> QED BY <1>1, <2>2, <3>1
  <2>3. CASE q = r
    <3>1. p \in notEarlier BY <1>1, <1>3, <2>3 DEF InboxInv
    <3> QED BY <1>1, <2>3, <3>1
  <2> QED BY <1>1, <2>1, <2>2, <2>3
<1>9. RunsFit'
  <2>1. \A u \in Runs : run[u] = Inbox!Idle
          \/ run[u] \in [stage : {"read", "row", "save"}, batch : SUBSET arrived, after : Inbox!Times]
    BY DEF InboxInv, RunsFit
  <2>2. \A h \in [stage : {"read", "row", "save"}, batch : SUBSET arrived, after : Inbox!Times] :
          h \in [stage : {"read", "row", "save"}, batch : SUBSET arrived', after : Inbox!Times]
    BY <1>1
  <2>3. \A u \in Runs : run'[u] \in {Inbox!Idle}
          \cup [stage : {"read", "row", "save"}, batch : SUBSET arrived', after : Inbox!Times]
    BY <1>1, <2>1, <2>2
  <2>4. run' = [u \in Runs |-> run'[u]] BY <1>1 DEF InboxInv, RunsFit
  <2> QED BY <1>1, <2>3, <2>4 DEF RunsFit, Inbox!Idle
<1>10. BatchesFit' BY <1>1 DEF InboxInv, BatchesFit, Inbox!At
<1>11. ASSUME NEW u \in Runs PROVE RunFits(u)'
  <2> SUFFICES ASSUME ~Inbox!At(u, "idle") PROVE RunFits(u)' BY <1>1 DEF RunFits, Inbox!At
  <2>1. /\ Reached(run[u].after) /\ \A q \in Owed : Inbox!Ahead(q, run[u].after)
        /\ Inbox!At(u, "row") => \A q \in Owed \ run[u].batch : \A p \in run[u].batch : Ts(p) < Ts(q)
    BY DEF InboxInv, RunFits
  <2>2. Reached(run[u].after)' /\ \A q \in Owed' : Inbox!Ahead(q, run[u].after)
    <3>0. PICK c : c = run[u].after OBVIOUS
    <3>1. Reached(c) /\ \A q \in Owed : Inbox!Ahead(q, c) BY <2>1, <3>0
    <3>2. Reached(c)' /\ \A q \in Owed' : Inbox!Ahead(q, c) BY <3>1, <1>6
    <3>3. run'[u].after = c BY <1>1, <3>0
    <3> QED BY <3>0, <3>2, <3>3 DEF Reached, Inbox!Ahead, Ts
  <2>3. Inbox!At(u, "row") => run[u].batch \subseteq arrived
    BY DEF InboxInv, RunsFit, Inbox!At, Inbox!Idle
  <2>4. Inbox!At(u, "row") => \A q \in Owed' \ run[u].batch : \A p \in run[u].batch : Ts(p) < Ts(q)
    BY <1>4, <1>5, <2>1, <2>3
  <2> QED BY <1>1, <2>2, <2>4 DEF RunFits, Inbox!At, Inbox!Ahead, Ts
<1> QED BY <1>1, <1>2, <1>7, <1>8, <1>9, <1>10, <1>11 DEF InboxInv, Inbox!Keys

LEMMA InboxStarts == ASSUME Inbox!InboxAssumption, Inbox!Init PROVE InboxInv
<1>1. Inbox!Times \subseteq Nat /\ 0 \in Inbox!Times BY RowTypes DEF Inbox!Times
<1>2. RunsFit /\ BatchesFit BY DEF Inbox!Init, RunsFit, BatchesFit, Inbox!At, Inbox!Idle
<1>3. TiesExcused /\ Owed = {} BY DEF Inbox!Init, TiesExcused, Owed
<1>4. Reached(0)
  <2>1. \A r \in Rows : Ts(r) > 0 BY DEF Inbox!InboxAssumption, Ts
  <2>2. Inbox!CursorToPg(0) = 0 BY DEF Inbox!CursorToPg
  <2> QED BY <2>1, <2>2 DEF Reached, Inbox!Ahead, Ts
<1>5. CursorFits BY <1>3, <1>4 DEF Inbox!Init, CursorFits
<1>6. \A u \in Runs : RunFits(u) BY DEF Inbox!Init, RunFits, Inbox!At, Inbox!Idle
<1> QED BY <1>1, <1>2, <1>3, <1>5, <1>6 DEF Inbox!Init, InboxInv, Inbox!InboxAssumption

LEMMA InboxKeeps == ASSUME Inbox!InboxAssumption, InboxInv, [Inbox!Next]_(Inbox!vars)
                    PROVE  InboxInv'
<1>1. CASE UNCHANGED Inbox!vars
  BY <1>1
  DEF Inbox!vars, InboxInv, RunsFit, BatchesFit, TiesExcused, CursorFits, RunFits, Reached,
      Owed,
              Inbox!Settled, Inbox!Ahead, Inbox!At, Inbox!Keys, Inbox!Times, Ts
<1>2. CASE Inbox!Next
  BY <1>2, InboxStartKeeps, InboxReadKeeps, InboxProcessKeeps, SaveKeeps, RowArrivalKeeps
  DEF Inbox!Next
<1> QED BY <1>1, <1>2

LEMMA InboxTypes == ASSUME Inbox!InboxAssumption, InboxInv PROVE Inbox!TypeOK
<1> SUFFICES ASSUME NEW u \in Runs, run[u] # Inbox!Idle
             PROVE  /\ run[u].stage \in {"read", "row", "save"} /\ run[u].after \in Inbox!Times
                    /\ run[u].batch \subseteq arrived /\ Cardinality(run[u].batch) <= BatchLimit
  BY InboxCounts DEF InboxInv, Inbox!TypeOK
<1>1. run[u] \in [stage : {"read", "row", "save"}, batch : SUBSET arrived, after : Inbox!Times]
  BY DEF InboxInv, RunsFit
<1>2. Cardinality({}) <= BatchLimit BY FS_EmptySet DEF Inbox!InboxAssumption
<1>3. run[u].batch = {} \/ Cardinality(run[u].batch) <= BatchLimit
  BY <1>1 DEF InboxInv, BatchesFit, Inbox!At
<1> QED BY <1>1, <1>2, <1>3

(* The bridge keeps its types: a batch holds rows that came, and no more than *)
(* the limit.                                                                *)
THEOREM InboxTypeCorrect ==
  ASSUME Inbox!InboxAssumption PROVE Inbox!Init /\ [][Inbox!Next]_(Inbox!vars) => []Inbox!TypeOK
<1> USE Inbox!InboxAssumption
<1>1. Inbox!Init => InboxInv BY InboxStarts
<1>2. InboxInv /\ [Inbox!Next]_(Inbox!vars) => InboxInv' BY InboxKeeps
<1> QED BY <1>1, <1>2, InboxTypes, PTL

(* No message still due is behind the saved cursor, although runs overlap,   *)
(* fail on rows, or die before they save it.                                 *)
THEOREM NothingLeftBehind ==
  ASSUME Inbox!InboxAssumption
  PROVE  Inbox!Init /\ [][Inbox!Next]_(Inbox!vars) => []Inbox!NothingIsPassedBy
<1> USE Inbox!InboxAssumption
<1>1. Inbox!Init => InboxInv BY InboxStarts
<1>2. InboxInv /\ [Inbox!Next]_(Inbox!vars) => InboxInv' BY InboxKeeps
<1>3. InboxInv => Inbox!NothingIsPassedBy BY DEF InboxInv, CursorFits, Owed, Inbox!NothingIsPassedBy
<1> QED BY <1>1, <1>2, <1>3, PTL
-----------------------------------------------------------------------------
(* The product a message names.                                              *)

(* The answers there can be, each of some order of the rows.                 *)
AnswersGiven ==
  \A a \in answers : a = Resolution!Failed \/ \E seat \in Resolution!Orders(Products), listed \in Resolution!Orders(aliases) :
    a = Resolution!Resolved(seat, listed)

ResolutionInv == Resolution!TypeOK /\ AnswersGiven

(* The service counts as this module does.                                   *)
LEMMA ResolutionCounts ==
  \A S : /\ Resolution!IsFiniteSet(S) <=> IsFiniteSet(S)
         /\ Resolution!Cardinality(S) = Cardinality(S)
BY DEF IsFiniteSet, Cardinality, Resolution!IsFiniteSet, Resolution!Cardinality

(* Orders number what they order.                                            *)
LEMMA OrdersNumber ==
  ASSUME Resolution!ResolutionAssumption, Resolution!TypeOK,
         NEW listed \in Resolution!Orders(aliases)
  PROVE  \A a \in aliases : listed[a] \in Nat \ {0}
<1>1. IsFiniteSet(aliases)
  BY FS_Subset, ResolutionCounts
  DEF Resolution!ResolutionAssumption, Resolution!TypeOK
<1>2. Cardinality(aliases) \in Nat BY <1>1, FS_CardinalityType
<1>3. listed \in [aliases -> 1..Cardinality(aliases)] BY ResolutionCounts DEF Resolution!Orders
<1> QED BY <1>2, <1>3

LEMMA SeatsNumber ==
  ASSUME Resolution!ResolutionAssumption, NEW seat \in Resolution!Orders(Products)
  PROVE  \A p \in Products : seat[p] \in Nat
<1>2. Cardinality(Products) \in Nat
  BY FS_CardinalityType, ResolutionCounts
  DEF Resolution!ResolutionAssumption
<1>3. seat \in [Products -> 1..Cardinality(Products)] BY ResolutionCounts DEF Resolution!Orders
<1> QED BY <1>2, <1>3

Own(p) == [of |-> None, source |-> row[p].source, overlap |-> row[p].overlap, fit |-> row[p].fit]
Text(a) == [of |-> a, source |-> "alias", overlap |-> a.overlap, fit |-> a.fit]
Canonical(a) == [of |-> a, source |-> "canonical_name", overlap |-> a.canonical, fit |-> "other"]

(* A term is the product's own or one of two of an alias row.                *)
LEMMA TermKinds ==
  ASSUME Resolution!ResolutionAssumption, Resolution!TypeOK, NEW p \in Products,
         NEW t \in Resolution!Terms(p)
  PROVE  /\ t.overlap \in Resolution!Overlap /\ t.fit \in Resolution!Fits
         /\ \/ t = Own(p) /\ t.source \in Resolution!OwnSources
            \/ \E a \in aliases : t = Text(a)
            \/ \E a \in aliases : t = Canonical(a)
<1>1. row[p] \in Resolution!RowType BY DEF Resolution!ResolutionAssumption, Resolution!TypeOK
<1>2. \A a \in aliases : a.overlap \in Resolution!Overlap /\ a.fit \in Resolution!Fits /\ a.canonical \in Resolution!Overlap
  BY DEF Resolution!ResolutionAssumption, Resolution!TypeOK
<1>3. CASE t = Own(p)
  BY <1>1, <1>3 DEF Own, Resolution!RowType
<1>4. CASE \E a \in aliases : t = Text(a)
  BY <1>2, <1>4 DEF Text
<1>5. CASE \E a \in aliases : t = Canonical(a)
  BY <1>2, <1>5 DEF Canonical, Resolution!Fits
<1> QED BY <1>3, <1>4, <1>5 DEF Resolution!Terms, Own, Text, Canonical

(* A score lies between none and certain.                                    *)
LEMMA ScoreBounded ==
  ASSUME Resolution!ResolutionAssumption, Resolution!TypeOK, NEW p \in Products,
         NEW t \in Resolution!Terms(p)
  PROVE  Resolution!TermConfidence(t, row[p].bulk) \in 0..100
<1>1. row[p] \in Resolution!RowType BY DEF Resolution!ResolutionAssumption, Resolution!TypeOK
<1>2. row[p].bulk \in Nat BY <1>1 DEF Resolution!RowType, Resolution!Bulk
<1>3. t.overlap \in Nat BY TermKinds DEF Resolution!Overlap
<1> DEFINE base == IF t.source = "sku" THEN t.overlap
                   ELSE Resolution!Least(97, t.overlap + (IF t.source = "alias" THEN 2 ELSE 0))
           exact == IF t.source # "alias" \/ t.fit = "other" THEN 0
                    ELSE IF t.fit = "same" THEN 8 ELSE 5
<1>4. base \in Nat BY <1>3 DEF Resolution!Least
<1>5. exact \in Nat OBVIOUS
<1>6. Resolution!TermConfidence(t, row[p].bulk) = Resolution!Least(100, Resolution!Least(100, base + exact) + row[p].bulk)
  BY DEF Resolution!TermConfidence
<1> HIDE DEF base, exact
<1> QED BY <1>2, <1>4, <1>5, <1>6 DEF Resolution!Least

(* A product that matches at all has a best term.                            *)
LEMMA BestExists ==
  ASSUME Resolution!ResolutionAssumption, Resolution!TypeOK, NEW p \in Products,
         Resolution!Terms(p) # {}
  PROVE  Resolution!Best(p) # {}
<1> DEFINE value(t) == Resolution!TermConfidence(t, row[p].bulk)
           S == {100 - value(t) : t \in Resolution!Terms(p)}
<1>1. \A t \in Resolution!Terms(p) : value(t) \in 0..100 BY ScoreBounded
<1> HIDE DEF value
<1>2. S \in SUBSET Nat /\ S # {} BY <1>1
<1> HIDE DEF S
<1>3. PICK n \in S : \A m \in S : n <= m BY <1>2, LeastOf
<1>4. PICK t \in Resolution!Terms(p) : n = 100 - value(t) BY DEF S
<1>5. \A u \in Resolution!Terms(p) : value(u) <= value(t)
  <2> SUFFICES ASSUME NEW u \in Resolution!Terms(p) PROVE value(u) <= value(t) OBVIOUS
  <2>1. 100 - value(u) \in S BY DEF S
  <2> QED BY <1>1, <1>3, <1>4, <2>1
<1> QED BY <1>5 DEF Resolution!Best, value

(* Among the best terms one comes first.                                     *)
FirstBest(p, listed) ==
  CHOOSE t \in Resolution!Best(p) : \A u \in Resolution!Best(p) : Resolution!Place(t, listed) <= Resolution!Place(u, listed)

LEMMA PlaceNatural ==
  ASSUME Resolution!ResolutionAssumption, Resolution!TypeOK,
         NEW listed \in Resolution!Orders(aliases), NEW p \in Products,
         NEW t \in Resolution!Terms(p)
  PROVE  /\ Resolution!Place(t, listed) \in Nat
         /\ t.source \in Resolution!OwnSources => Resolution!Place(t, listed) = 0
         /\ t.source \notin Resolution!OwnSources => Resolution!Place(t, listed) # 0
<1>1. \A a \in aliases : listed[a] \in Nat \ {0} BY OrdersNumber
<1>2. CASE t = Own(p) /\ t.source \in Resolution!OwnSources
  BY <1>2 DEF Resolution!Place, Resolution!OwnSources
<1>3. ASSUME NEW a \in aliases, t = Text(a) PROVE /\ Resolution!Place(t, listed) = 2 * listed[a]
                                                  /\ t.source \notin Resolution!OwnSources
  BY <1>1, <1>3 DEF Resolution!Place, Text, Resolution!OwnSources
<1>4. ASSUME NEW a \in aliases, t = Canonical(a)
      PROVE  /\ Resolution!Place(t, listed) = 2 * listed[a] + 1
                                                       /\ t.source \notin Resolution!OwnSources
  BY <1>1, <1>4 DEF Resolution!Place, Canonical, Resolution!OwnSources
<1>5. CASE \E a \in aliases : t = Text(a)
  BY <1>1, <1>3, <1>5
<1>6. CASE \E a \in aliases : t = Canonical(a)
  BY <1>1, <1>4, <1>6
<1> QED BY <1>2, <1>5, <1>6, TermKinds

LEMMA FirstExists ==
  ASSUME Resolution!ResolutionAssumption, Resolution!TypeOK,
         NEW listed \in Resolution!Orders(aliases), NEW p \in Products,
         Resolution!Terms(p) # {}
  PROVE  /\ FirstBest(p, listed) \in Resolution!Best(p)
         /\ \A u \in Resolution!Best(p) : Resolution!Place(FirstBest(p, listed), listed) <= Resolution!Place(u, listed)
<1> DEFINE S == {Resolution!Place(t, listed) : t \in Resolution!Best(p)}
<1>1. \A t \in Resolution!Best(p) : Resolution!Place(t, listed) \in Nat
  BY PlaceNatural
  DEF Resolution!Best
<1>2. S \in SUBSET Nat /\ S # {} BY <1>1, BestExists
<1> HIDE DEF S
<1>3. PICK n \in S : \A m \in S : n <= m BY <1>2, LeastOf
<1>4. PICK t \in Resolution!Best(p) : n = Resolution!Place(t, listed) BY DEF S
<1>5. \A u \in Resolution!Best(p) : Resolution!Place(t, listed) <= Resolution!Place(u, listed)
  BY <1>3, <1>4
  DEF S
<1> QED BY <1>5 DEF FirstBest

(* Unless two best terms are tied, what wins says the same in every order.   *)
LEMMA OrderDoesNotScore ==
  ASSUME Resolution!ResolutionAssumption, Resolution!TypeOK, NEW p \in Products,
         Resolution!Terms(p) # {}, ~Resolution!Tied(p),
         NEW f \in Resolution!Orders(aliases), NEW g \in Resolution!Orders(aliases)
  PROVE  Resolution!Scored(p, f) = Resolution!Scored(p, g)
<1> DEFINE t == FirstBest(p, f)
           u == FirstBest(p, g)
<1>1. /\ t \in Resolution!Best(p) /\ Resolution!Place(t, f) <= Resolution!Place(u, f)
      /\ u \in Resolution!Best(p) /\ Resolution!Place(u, g) <= Resolution!Place(t, g)
  BY FirstExists
<1>2. /\ Resolution!Scored(p, f) = [product |-> p, fit |-> t.fit,
              named |-> t.source \in {"alias", "short_name"} /\ t.fit # "other",
              confidence |-> Resolution!Clamped(Resolution!TermConfidence(t, row[p].bulk) + row[p].boost)]
      /\ Resolution!Scored(p, g) = [product |-> p, fit |-> u.fit,
              named |-> u.source \in {"alias", "short_name"} /\ u.fit # "other",
              confidence |-> Resolution!Clamped(Resolution!TermConfidence(u, row[p].bulk) + row[p].boost)]
  BY DEF Resolution!Scored, FirstBest
<1> HIDE DEF t, u
<1>3. t \in Resolution!Terms(p) /\ u \in Resolution!Terms(p) BY <1>1 DEF Resolution!Best
<1>4. Resolution!TermConfidence(t, row[p].bulk) = Resolution!TermConfidence(u, row[p].bulk)
  <2>1. /\ Resolution!TermConfidence(t, row[p].bulk) <= Resolution!TermConfidence(u, row[p].bulk)
        /\ Resolution!TermConfidence(u, row[p].bulk) <= Resolution!TermConfidence(t, row[p].bulk)
    BY <1>1, <1>3 DEF Resolution!Best
  <2>2. /\ Resolution!TermConfidence(t, row[p].bulk) \in Int
        /\ Resolution!TermConfidence(u, row[p].bulk) \in Int
    BY <1>3, ScoreBounded
  <2> QED BY <2>1, <2>2
<1>5. /\ Resolution!Place(t, f) \in Nat /\ Resolution!Place(u, f) \in Nat /\ Resolution!Place(t, g) \in Nat /\ Resolution!Place(u, g) \in Nat
      /\ t.source \in Resolution!OwnSources => Resolution!Place(t, f) = 0 /\ Resolution!Place(t, g) = 0
      /\ u.source \in Resolution!OwnSources => Resolution!Place(u, f) = 0 /\ Resolution!Place(u, g) = 0
      /\ t.source \notin Resolution!OwnSources => Resolution!Place(t, f) # 0 /\ Resolution!Place(t, g) # 0
      /\ u.source \notin Resolution!OwnSources => Resolution!Place(u, f) # 0 /\ Resolution!Place(u, g) # 0
  BY <1>3, PlaceNatural
<1>6. CASE t.source \in Resolution!OwnSources \/ u.source \in Resolution!OwnSources
  <2>1. t.source \in Resolution!OwnSources /\ u.source \in Resolution!OwnSources BY <1>1, <1>5, <1>6
  <2>2. t = Own(p) /\ u = Own(p)
    BY <1>3, <2>1, TermKinds DEF Text, Canonical, Resolution!OwnSources
  <2> QED BY <1>2, <2>2
<1>7. CASE t.source \notin Resolution!OwnSources /\ u.source \notin Resolution!OwnSources
  <2>1. /\ \E a \in aliases : t = Text(a) \/ t = Canonical(a)
        /\ \E b \in aliases : u = Text(b) \/ u = Canonical(b)
    BY <1>3, <1>7, TermKinds
  <2>2. PICK a \in aliases, b \in aliases : /\ t = Text(a) \/ t = Canonical(a)
                                            /\ u = Text(b) \/ u = Canonical(b)
    BY <2>1
  <2>3. t.of = a /\ u.of = b BY <2>2 DEF Text, Canonical
  <2>4. t.fit = u.fit
    <3>1. CASE a # b
      <4>1. \A v \in Resolution!Best(p) : v.source \notin Resolution!OwnSources
        <5> SUFFICES ASSUME NEW v \in Resolution!Best(p), v.source \in Resolution!OwnSources PROVE FALSE OBVIOUS
        <5>1. v \in Resolution!Terms(p) BY DEF Resolution!Best
        <5>2. Resolution!Place(v, f) = 0 BY <5>1, PlaceNatural
        <5>3. Resolution!Place(t, f) <= Resolution!Place(v, f) BY FirstExists DEF t
        <5> QED BY <1>5, <1>7, <5>2, <5>3
      <4> QED BY <1>1, <2>3, <3>1, <4>1 DEF Resolution!Tied
    <3>2. CASE a = b
      <4>1. \A o \in Resolution!Orders(aliases) : o[a] \in Nat BY OrdersNumber
      <4>2. \A o \in Resolution!Orders(aliases) : /\ Resolution!Place(Text(a), o) = 2 * o[a]
                                       /\ Resolution!Place(Canonical(a), o) = 2 * o[a] + 1
        BY <4>1 DEF Resolution!Place, Text, Canonical, Resolution!OwnSources
      <4>3. t = u BY <1>1, <2>2, <3>2, <4>1, <4>2
      <4> QED BY <4>3
    <3> QED BY <3>1, <3>2
  <2>5. /\ (t.source \in {"alias", "short_name"} /\ t.fit # "other") = (t.fit # "other")
        /\ (u.source \in {"alias", "short_name"} /\ u.fit # "other") = (u.fit # "other")
    BY <2>2 DEF Text, Canonical
  <2> QED BY <1>2, <1>4, <2>4, <2>5
<1> QED BY <1>6, <1>7

(* The hypothesis of the property: nothing in the catalogue makes the order   *)
(* of its rows matter.                                                       *)
Plain ==
  /\ \A a, b \in aliases : a.fit = "same" /\ b.fit = "same" => a.product = b.product
  /\ \A p \in Products : ~Resolution!Tied(p)

(* The candidates of a call are the same in every order.                     *)
LEMMA OrderDoesNotCollapse ==
  ASSUME Resolution!ResolutionAssumption, Resolution!TypeOK, Plain,
         NEW f \in Resolution!Orders(aliases),
         NEW g \in Resolution!Orders(aliases)
  PROVE  Resolution!Collapsed(f) = Resolution!Collapsed(g)
<1> DEFINE matching == {q \in Products : Resolution!Terms(q) # {}}
           scored(o) == {Resolution!Scored(p, o) : p \in matching}
<1>1. \A p \in matching : Resolution!Scored(p, f) = Resolution!Scored(p, g)
  BY OrderDoesNotScore
  DEF Plain
<1>2. scored(f) = scored(g) BY <1>1
<1>3. /\ Resolution!Collapsed(f) = {c \in scored(f) : \A d \in scored(f) :
            row[d.product].group = row[c.product].group => d = c \/ Resolution!Represents(c, d)}
      /\ Resolution!Collapsed(g) = {c \in scored(g) : \A d \in scored(g) :
            row[d.product].group = row[c.product].group => d = c \/ Resolution!Represents(c, d)}
  BY DEF Resolution!Collapsed
<1> HIDE DEF scored
<1> QED BY <1>2, <1>3

(* A candidate is a product's, with a confidence up to certainty.            *)
LEMMA CandidateTypes ==
  ASSUME Resolution!ResolutionAssumption, Resolution!TypeOK,
         NEW f \in Resolution!Orders(aliases), NEW c \in Resolution!Collapsed(f)
  PROVE  c.product \in Products /\ c.confidence \in 0..100
<1>1. PICK p \in Products : Resolution!Terms(p) # {} /\ c = Resolution!Scored(p, f)
  BY DEF Resolution!Collapsed
<1> DEFINE t == FirstBest(p, f)
<1>2. c = [product |-> p, fit |-> t.fit,
           named |-> t.source \in {"alias", "short_name"} /\ t.fit # "other",
           confidence |-> Resolution!Clamped(Resolution!TermConfidence(t, row[p].bulk) + row[p].boost)]
  BY <1>1 DEF Resolution!Scored, FirstBest
<1>3. t \in Resolution!Terms(p) BY <1>1, FirstExists DEF Resolution!Best
<1> HIDE DEF t
<1>4. Resolution!TermConfidence(t, row[p].bulk) \in Int BY <1>3, ScoreBounded
<1>5. row[p] \in Resolution!RowType BY DEF Resolution!ResolutionAssumption, Resolution!TypeOK
<1>6. row[p].boost \in Int BY <1>5 DEF Resolution!RowType, Resolution!Boost
<1>7. Resolution!Clamped(Resolution!TermConfidence(t, row[p].bulk) + row[p].boost) \in 0..100
  BY <1>4, <1>6 DEF Resolution!Clamped, Resolution!Least
<1> QED BY <1>2, <1>7

(* Some candidate is ranked first, and none is more confident.               *)
LEMMA TopExists ==
  ASSUME Resolution!ResolutionAssumption, Resolution!TypeOK,
         NEW f \in Resolution!Orders(aliases), Resolution!Collapsed(f) # {},
         NEW seat \in Resolution!Orders(Products)
  PROVE  /\ Resolution!Ranked(Resolution!Collapsed(f), seat) \in Resolution!Collapsed(f)
         /\ \A d \in Resolution!Collapsed(f) : d.confidence <= Resolution!Ranked(Resolution!Collapsed(f), seat).confidence
<1> DEFINE C == Resolution!Collapsed(f)
           S == {100 - c.confidence : c \in C}
<1>1. \A c \in C : c.product \in Products /\ c.confidence \in 0..100 BY CandidateTypes
<1>2. C # {} OBVIOUS
<1> HIDE DEF C
<1>3. S \in SUBSET Nat /\ S # {} BY <1>1, <1>2
<1> HIDE DEF S
<1>4. PICK n \in S : \A m \in S : n <= m BY <1>3, LeastOf
<1>5. PICK b \in C : n = 100 - b.confidence BY DEF S
<1>6. \A d \in C : d.confidence <= b.confidence
  <2> SUFFICES ASSUME NEW d \in C PROVE d.confidence <= b.confidence OBVIOUS
  <2>1. 100 - d.confidence \in S BY DEF S
  <2>2. 100 - b.confidence <= 100 - d.confidence BY <1>4, <1>5, <2>1
  <2>3. b.confidence \in Int /\ d.confidence \in Int BY <1>1
  <2> QED BY <2>2, <2>3
<1> DEFINE E == {c \in C : c.confidence = b.confidence}
           T == {seat[c.product] : c \in E}
<1>7. T \in SUBSET Nat /\ T # {} BY <1>1, SeatsNumber
<1> HIDE DEF T
<1>8. PICK k \in T : \A m \in T : k <= m BY <1>7, LeastOf
<1>9. PICK c \in E : k = seat[c.product] BY DEF T
<1>10. ASSUME NEW d \in C
       PROVE  \/ d.confidence < c.confidence
              \/ d.confidence = c.confidence /\ seat[c.product] <= seat[d.product]
  <2>1. c.confidence = b.confidence /\ d.confidence <= b.confidence BY <1>6, <1>9
  <2>2. d.confidence \in Int /\ b.confidence \in Int BY <1>1
  <2>3. d.confidence = b.confidence => seat[d.product] \in T BY DEF T
  <2>4. d.confidence = b.confidence => seat[c.product] <= seat[d.product]
    BY <1>8, <1>9, <2>3
  <2> QED BY <2>1, <2>2, <2>4
<1>11. c \in C BY <1>9
<1> HIDE DEF E
<1> DEFINE r == Resolution!Ranked(C, seat)
<1>12. /\ r \in C
       /\ \A d \in C : d.confidence < r.confidence \/ d.confidence = r.confidence
  BY <1>10, <1>11 DEF Resolution!Ranked
<1> HIDE DEF r
<1>13. r.confidence \in Int /\ \A d \in C : d.confidence \in Int BY <1>1, <1>12
<1>14. \A d \in C : d.confidence <= r.confidence BY <1>12, <1>13
<1> QED BY <1>12, <1>14 DEF C, r

(* Whether a row is the message itself does not depend on the order either.  *)
LEMMA OrderDoesNotWin ==
  ASSUME Resolution!ResolutionAssumption, Resolution!TypeOK, Plain,
         NEW f \in Resolution!Orders(aliases),
         NEW g \in Resolution!Orders(aliases), NEW C
  PROVE  Resolution!ExactWinner(C, f) = Resolution!ExactWinner(C, g)
<1> DEFINE same == {a \in aliases : a.fit = "same" /\ \E c \in C : c.product = a.product}
           first(o) == CHOOSE a \in same : \A b \in same : o[a] <= o[b]
<1>1. ASSUME NEW o \in Resolution!Orders(aliases), same # {} PROVE first(o) \in same
  <2> DEFINE S == {o[a] : a \in same}
  <2>1. \A a \in same : o[a] \in Nat BY OrdersNumber
  <2>2. S \in SUBSET Nat /\ S # {} BY <1>1, <2>1
  <2> HIDE DEF S
  <2>3. PICK n \in S : \A m \in S : n <= m BY <2>2, LeastOf
  <2>4. PICK a \in same : n = o[a] BY DEF S
  <2>5. \A b \in same : o[a] <= o[b] BY <2>3, <2>4 DEF S
  <2> QED BY <2>5
<1>2. same # {} => first(f).product = first(g).product
  <2> SUFFICES ASSUME same # {} PROVE first(f).product = first(g).product OBVIOUS
  <2>1. first(f) \in same /\ first(g) \in same BY <1>1
  <2> HIDE DEF first
  <2> QED BY <2>1 DEF Plain
<1> DEFINE reordered == {c \in C : c.named}
           winner(o) == IF vague = "midya" THEN {}
                        ELSE IF same # {} THEN {c \in C : c.product = first(o).product}
                        ELSE IF \E c \in reordered : reordered = {c} THEN reordered ELSE {}
<1>3. Resolution!ExactWinner(C, f) = winner(f) /\ Resolution!ExactWinner(C, g) = winner(g)
  BY DEF Resolution!ExactWinner
<1> HIDE DEF first, same, reordered
<1> QED BY <1>2, <1>3

(* The winner is a candidate.                                                *)
LEMMA WinnersAreCandidates == ASSUME NEW C, NEW f PROVE Resolution!ExactWinner(C, f) \subseteq C
BY DEF Resolution!ExactWinner

(* Two orders of a plain catalogue give one answer: if they differ in which   *)
(* candidate is ranked first, the two are equally confident, and the message  *)
(* is ambiguous in both.                                                      *)
LEMMA OrderDoesNotResolve ==
  ASSUME Resolution!ResolutionAssumption, Resolution!TypeOK, Plain,
         NEW f \in Resolution!Orders(aliases), NEW g \in Resolution!Orders(aliases),
         NEW s \in Resolution!Orders(Products), NEW t \in Resolution!Orders(Products)
  PROVE  Resolution!Resolved(s, f) = Resolution!Resolved(t, g)
<1> DEFINE C == Resolution!Collapsed(f)
           W == Resolution!ExactWinner(C, f)
           top(o) == IF W = {} THEN Resolution!Ranked(C, o) ELSE CHOOSE c \in W : TRUE
           ambiguous(o) == /\ W = {}
                           /\ vague # "no" \/ \E c \in C \ {top(o)} : Resolution!Close(top(o), c)
           band(o) == Resolution!Band(top(o).confidence, ambiguous(o))
           answer(o) == IF C = {} THEN [product |-> None, band |-> "LOW"]
                        ELSE [product |-> IF band(o) = "LOW" THEN None ELSE top(o).product,
                              band |-> band(o)]
<1>1. Resolution!Collapsed(g) = C BY OrderDoesNotCollapse
<1>2. Resolution!ExactWinner(C, g) = W BY OrderDoesNotWin
<1>3. Resolution!Resolved(s, f) = answer(s) BY DEF Resolution!Resolved
<1>4. Resolution!Resolved(t, g) = answer(t) BY <1>1, <1>2 DEF Resolution!Resolved
<1>5. CASE C = {} BY <1>3, <1>4, <1>5
<1>6. CASE C # {} /\ W # {}
  <2>1. top(s) = top(t) BY <1>6
  <2> HIDE DEF top
  <2>2. answer(s) = answer(t) BY <2>1
  <2> QED BY <1>3, <1>4, <2>2
<1>7. CASE C # {} /\ W = {}
  <2>1. /\ top(s) \in C /\ top(t) \in C
        /\ \A d \in C : d.confidence <= top(s).confidence /\ d.confidence <= top(t).confidence
    BY <1>7, TopExists
  <2> HIDE DEF top
  <2>2. CASE top(s) = top(t)
    <3>1. answer(s) = answer(t) BY <2>2
    <3> QED BY <1>3, <1>4, <3>1
  <2>3. CASE top(s) # top(t)
    <3>1. top(s).confidence \in Int /\ top(t).confidence \in Int BY <2>1, CandidateTypes
    <3>2. top(s).confidence = top(t).confidence BY <2>1, <3>1
    <3>3. Resolution!Close(top(s), top(t)) /\ Resolution!Close(top(t), top(s))
      BY <3>1, <3>2 DEF Resolution!Close, Resolution!AmbiguityDelta
    <3>4. ambiguous(s) /\ ambiguous(t) BY <1>7, <2>1, <2>3, <3>3
    <3> HIDE DEF ambiguous
    <3>5. band(s) = "LOW" /\ band(t) = "LOW" BY <3>4 DEF Resolution!Band
    <3> QED BY <1>3, <1>4, <1>7, <3>5
  <2> QED BY <2>2, <2>3
<1> QED BY <1>5, <1>6, <1>7

(* An answer is a product or none, and a band.                               *)
LEMMA ResolvedTypes ==
  ASSUME Resolution!ResolutionAssumption, Resolution!TypeOK,
         NEW f \in Resolution!Orders(aliases), NEW s \in Resolution!Orders(Products)
  PROVE  Resolution!Resolved(s, f) \in Resolution!Answer
<1> DEFINE C == Resolution!Collapsed(f)
           W == Resolution!ExactWinner(C, f)
           top == IF W = {} THEN Resolution!Ranked(C, s) ELSE CHOOSE c \in W : TRUE
           ambiguous == /\ W = {}
                        /\ vague # "no" \/ \E c \in C \ {top} : Resolution!Close(top, c)
           band == Resolution!Band(top.confidence, ambiguous)
<1>1. Resolution!Resolved(s, f) = IF C = {} THEN [product |-> None, band |-> "LOW"]
                       ELSE [product |-> IF band = "LOW" THEN None ELSE top.product,
                             band |-> band]
  BY DEF Resolution!Resolved
<1>2. band \in Resolution!Bands BY DEF Resolution!Band, Resolution!Bands
<1>3. C # {} => top \in C
  <2>1. CASE W = {} BY <2>1, TopExists
  <2>2. CASE W # {} BY <2>2, WinnersAreCandidates
  <2> QED BY <2>1, <2>2
<1>4. C # {} => top.product \in Products BY <1>3, CandidateTypes
<1> HIDE DEF C, top, band
<1> QED BY <1>1, <1>2, <1>4 DEF Resolution!Answer, Resolution!Bands

(* While the catalogue stays, a call over the same order gives the answer it gave. *)
LEMMA AnswersStay ==
  ASSUME UNCHANGED <<row, aliases, vague, rounding>>, NEW s, NEW f
  PROVE  Resolution!Resolved(s, f)' = Resolution!Resolved(s, f)
<1>1. \A p : Resolution!Terms(p)' = Resolution!Terms(p) BY DEF Resolution!Terms
<1>2. \A p : Resolution!Best(p)' = Resolution!Best(p) BY <1>1 DEF Resolution!Best
<1>3. \A p : Resolution!Scored(p, f)' = Resolution!Scored(p, f) BY <1>2 DEF Resolution!Scored
<1>4. \A a, b : Resolution!Represents(a, b)' = Resolution!Represents(a, b)
  BY DEF Resolution!Represents
<1>5. Resolution!Collapsed(f)' = Resolution!Collapsed(f)
  BY <1>1, <1>3, <1>4 DEF Resolution!Collapsed
<1>6. \A C : Resolution!ExactWinner(C, f)' = Resolution!ExactWinner(C, f)
  BY DEF Resolution!ExactWinner
<1>7. \A a, b : Resolution!Close(a, b)' = Resolution!Close(a, b) BY DEF Resolution!Close
<1> QED BY <1>5, <1>6, <1>7 DEF Resolution!Resolved

LEMMA ResolutionStarts == ASSUME Resolution!ResolutionAssumption, Resolution!Init
                          PROVE  ResolutionInv
BY DEF Resolution!Init, ResolutionInv, Resolution!TypeOK, AnswersGiven

LEMMA ResolutionKeeps ==
  ASSUME Resolution!ResolutionAssumption, ResolutionInv, [Resolution!Next]_(Resolution!vars)
  PROVE  ResolutionInv'
<1>1. ASSUME UNCHANGED <<row, aliases, vague, rounding>>, answers' = answers
      PROVE  ResolutionInv'
  <2>1. \A s, f : Resolution!Resolved(s, f)' = Resolution!Resolved(s, f) BY <1>1, AnswersStay
  <2> QED BY <1>1, <2>1 DEF ResolutionInv, Resolution!TypeOK, AnswersGiven
<1>2. ASSUME UNCHANGED <<row, aliases, vague, rounding>>, NEW a, answers' = answers \cup {a},
             \/ a = Resolution!Failed
             \/ \E s \in Resolution!Orders(Products), f \in Resolution!Orders(aliases) : a = Resolution!Resolved(s, f)
      PROVE  ResolutionInv'
  <2>1. \A s, f : Resolution!Resolved(s, f)' = Resolution!Resolved(s, f) BY <1>2, AnswersStay
  <2>2. a \in Resolution!Answer \cup {Resolution!Failed} BY <1>2, ResolvedTypes DEF ResolutionInv
  <2>3. Resolution!TypeOK' BY <1>2, <2>2 DEF ResolutionInv, Resolution!TypeOK
  <2>4. AnswersGiven'
    BY <1>2, <2>1 DEF ResolutionInv, AnswersGiven
  <2> QED BY <2>3, <2>4 DEF ResolutionInv
<1>3. CASE Resolution!Resolve BY <1>2, <1>3 DEF Resolution!Resolve
<1>4. CASE Resolution!ReadFails BY <1>2, <1>4 DEF Resolution!ReadFails
<1>5. CASE UNCHANGED Resolution!vars BY <1>1, <1>5 DEF Resolution!vars
<1> QED BY <1>3, <1>4, <1>5 DEF Resolution!Next

LEMMA AnswersAgree ==
  ASSUME Resolution!ResolutionAssumption, ResolutionInv PROVE Resolution!RowOrderIsIrrelevant
<1> SUFFICES ASSUME Plain PROVE Cardinality(answers \ {Resolution!Failed}) <= 1
  BY ResolutionCounts DEF Plain, Resolution!RowOrderIsIrrelevant
<1> DEFINE A == answers \ {Resolution!Failed}
<1>1. \A a, b \in A : a = b BY OrderDoesNotResolve DEF ResolutionInv, AnswersGiven
<1> HIDE DEF A
<1>2. CASE A = {} BY <1>2, FS_EmptySet DEF A
<1>3. CASE A # {}
  <2>1. PICK a \in A : TRUE BY <1>3
  <2>2. A = {a} BY <1>1, <2>1
  <2>3. Cardinality({a}) = 1 BY FS_Singleton
  <2> QED BY <2>2, <2>3 DEF A
<1> QED BY <1>2, <1>3

(* The resolver keeps its types: it answers with a product of the catalogue, or *)
(* with none.                                                                *)
THEOREM ResolutionTypeCorrect == ASSUME Resolution!ResolutionAssumption
                                 PROVE  Resolution!Spec => []Resolution!TypeOK
<1> USE Resolution!ResolutionAssumption
<1>1. Resolution!Init => ResolutionInv BY ResolutionStarts
<1>2. ResolutionInv /\ [Resolution!Next]_(Resolution!vars) => ResolutionInv' BY ResolutionKeeps
<1>3. ResolutionInv => Resolution!TypeOK BY DEF ResolutionInv
<1> QED BY <1>1, <1>2, <1>3, PTL DEF Resolution!Spec

(* The same message names the same product in whatever order its rows come,    *)
(* unless two products carry it as an alias, or two aliases of one tie.       *)
THEOREM RowOrderNeverMatters ==
  ASSUME Resolution!ResolutionAssumption PROVE Resolution!Spec => []Resolution!RowOrderIsIrrelevant
<1> USE Resolution!ResolutionAssumption
<1>1. Resolution!Init => ResolutionInv BY ResolutionStarts
<1>2. ResolutionInv /\ [Resolution!Next]_(Resolution!vars) => ResolutionInv' BY ResolutionKeeps
<1>3. ResolutionInv => Resolution!RowOrderIsIrrelevant BY AnswersAgree
<1> QED BY <1>1, <1>2, <1>3, PTL DEF Resolution!Spec
=============================================================================

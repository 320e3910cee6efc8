---------------------------- MODULE BoundedRetry ----------------------------
(* executeWithBoundedRetry of _shared/integrationRetryContract.ts: attempts  *)
(* of one integration call under a total budget, with operations that may    *)
(* hang, settle late or ignore their abort signal, and timers that run late. *)
EXTENDS Integers, Sequences

CONSTANTS MaxAttempts,
          Delays,   \* retryDelaysMs
          Budgets,  \* totalBudgetMs, or None
          None,
          MaxLate,  \* bound: how late a timer or a continuation runs
          Horizon   \* bound on the clock

RetryAssumption ==
  /\ MaxAttempts \in Nat \ {0} /\ Delays \in Seq(Nat)
  /\ Budgets \subseteq (Nat \ {0}) \cup {None} /\ None \notin Nat
  /\ MaxLate \in Nat /\ Horizon \in Nat

VARIABLES budget, lenient,  \* lenient: the caller's isRetryable accepts every error
          now, stage, attempt,
          due,              \* when the timer of this stage is to run
          running,          \* operations not settled: [attempt, aborted]
          last, result

vars == <<budget, lenient, now, stage, attempt, due, running, last, result>>

Errors == {"retryable", "permanent", "budget"}

TypeOK ==
  /\ budget \in Budgets /\ lenient \in BOOLEAN /\ now \in 0..Horizon
  /\ stage \in {"attempt", "call", "sleep", "done"} /\ attempt \in 0..MaxAttempts - 1
  /\ due \in Nat \cup {None}
  /\ running \subseteq [attempt: 0..MaxAttempts - 1, aborted: BOOLEAN]
  /\ last \in {"none", "retryable", "permanent", "budget"}
  /\ result \in {"none", "value"} \cup Errors /\ (result # "none") = (stage = "done")

Init ==
  /\ budget \in Budgets /\ lenient \in BOOLEAN
  /\ now = 0 /\ stage = "attempt" /\ attempt = 0 /\ due = 0 /\ running = {}
  /\ last = "none" /\ result = "none"

\* The total budget is counted from the first attempt.
\* Mutant: each attempt has the whole budget.
Remaining_Whole == budget
Remaining == budget - now
Overdue(delay) == budget # None /\ now + delay >= budget
Delay == IF Delays = <<>> THEN 0
         ELSE Delays[IF attempt < Len(Delays) THEN attempt + 1 ELSE Len(Delays)]
Retryable(error) == lenient \/ error = "retryable"

End(r) == stage' = "done" /\ result' = r /\ due' = None /\ UNCHANGED <<attempt, last>>

\* No attempt begins when the budget is spent.
Begin ==
  /\ stage = "attempt"
  /\ IF budget # None /\ Remaining <= 0
     THEN End(IF last = "none" THEN "budget" ELSE last) /\ UNCHANGED running
     ELSE /\ stage' = "call" /\ due' = IF budget = None THEN None ELSE now + Remaining
          /\ running' = running \cup {[attempt |-> attempt, aborted |-> FALSE]}
          /\ UNCHANGED <<attempt, last, result>>
  /\ UNCHANGED <<budget, lenient, now>>

\* What the loop does with an error; the operation is told to stop.
LastAttempt == attempt = MaxAttempts - 1
Caught(error) ==
  IF ~Retryable(error) \/ LastAttempt \/ Overdue(Delay) THEN End(error)
  ELSE /\ last' = error
       /\ attempt' = attempt + 1 /\ stage' = "sleep" /\ due' = now + Delay
       /\ UNCHANGED result

Current == {o \in running : o.attempt = attempt /\ ~o.aborted}

\* The operation settles; a value that comes after the deadline is not used.
Settle(outcome) ==
  /\ stage = "call" /\ Current # {}
  /\ running' = running \ Current
  /\ IF Overdue(0) THEN Caught(IF outcome = "value" THEN "budget" ELSE outcome)
     ELSE IF outcome = "value" THEN End("value") ELSE Caught(outcome)
  /\ UNCHANGED <<budget, lenient, now>>

\* The race is lost to the timer; the operation runs on, aborted.
TimeOut ==
  /\ stage = "call" /\ due # None /\ now >= due
  /\ running' = {[o EXCEPT !.aborted = TRUE] : o \in running}
  /\ Caught("budget")
  /\ UNCHANGED <<budget, lenient, now>>

Wake ==
  /\ stage = "sleep" /\ now >= due
  /\ stage' = "attempt"
  /\ UNCHANGED <<budget, lenient, now, attempt, due, running, last, result>>

\* An abandoned operation comes to its end.
Leave(o) ==
  /\ o.aborted
  /\ running' = running \ {o}
  /\ UNCHANGED <<budget, lenient, now, stage, attempt, due, last, result>>

\* Time goes on; whatever is due runs within MaxLate.
Tick ==
  /\ now < Horizon /\ IF due = None THEN TRUE ELSE now < due + MaxLate
  /\ now' = now + 1
  /\ UNCHANGED <<budget, lenient, stage, attempt, due, running, last, result>>

Next ==
  \/ Begin \/ TimeOut \/ Wake \/ Tick
  \/ \E outcome \in {"value", "retryable", "permanent"} : Settle(outcome)
  \/ \E o \in running : Leave(o)
Spec == Init /\ [][Next]_vars

-----------------------------------------------------------------------------
(* Properties.                                                               *)

\* A caller with a budget has his answer when it is spent, however the attempts,
\* the delays and a hanging operation share it, and an operation left behind has
\* been told to stop.
BudgetIsKept ==
  /\ budget # None => stage = "done" \/ now <= budget + MaxLate
  /\ stage = "done" => \A o \in running : o.aborted
=============================================================================

--------------------------- MODULE InterpretationDuty ---------------------------
(***************************************************************************)
(* What the dispatch queue promises to the rest of the system, without     *)
(* leases, retries or workers: evidence that reaches a job is owed an      *)
(* interpretation until a conclusion that covers it is in the case, or     *)
(* until the job is parked where an operator can see it.                   *)
(***************************************************************************)
CONSTANTS
    Jobs,
    Evidence,
    Covers(_, _)   \* Covers(c, d): whoever considered c has considered d

VARIABLES
    phase,       \* of each job
    owed,        \* the evidence a job stands for
    considered   \* the evidence behind the conclusions a job can rely on

dutyVars == <<phase, owed, considered>>

Init ==
    /\ phase \in [Jobs -> {"NONE", "OWED"}]
    /\ owed \in [Jobs -> Evidence]
    /\ considered = [j \in Jobs |-> {}]

(* More evidence: whatever became of the job before, it is owed again.      *)
Owe(j) ==
    /\ phase' = [phase EXCEPT ![j] = "OWED"]
    /\ owed' = [owed EXCEPT ![j] = owed'[j]]
    /\ owed'[j] \in Evidence
    /\ Covers(owed'[j], owed[j])
    /\ UNCHANGED considered

(* A conclusion is written; it may cover much or little of what is owed.    *)
Consider ==
    /\ considered' \in [Jobs -> SUBSET Evidence]
    /\ \A j \in Jobs : considered[j] \subseteq considered'[j]
    /\ UNCHANGED <<phase, owed>>

Settle(j) ==
    /\ phase[j] = "OWED"
    /\ \E c \in considered[j] : Covers(c, owed[j])
    /\ phase' = [phase EXCEPT ![j] = "SETTLED"]
    /\ UNCHANGED <<owed, considered>>

(* One claim may park several jobs whose retry budget is spent.             *)
Park(S) ==
    /\ \A j \in S : phase[j] = "OWED"
    /\ phase' = [j \in Jobs |-> IF j \in S THEN "PARKED" ELSE phase[j]]
    /\ UNCHANGED <<owed, considered>>

Resume(j) ==
    /\ phase[j] = "PARKED"
    /\ phase' = [phase EXCEPT ![j] = "OWED"]
    /\ UNCHANGED <<owed, considered>>

Next ==
    \/ \E j \in Jobs : Owe(j) \/ Settle(j) \/ Resume(j)
    \/ \E S \in SUBSET Jobs : Park(S)
    \/ Consider

Spec == Init /\ [][Next]_dutyVars

(* A settled job has been considered in full, and stays so.                 *)
SettledIsConsidered ==
    \A j \in Jobs : phase[j] = "SETTLED" => \E c \in considered[j] : Covers(c, owed[j])
=============================================================================

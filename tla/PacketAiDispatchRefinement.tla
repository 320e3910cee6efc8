----------------------- MODULE PacketAiDispatchRefinement -----------------------
(* The dispatch queue implements InterpretationDuty: a job is owed while its *)
(* row waits or is leased, settled when it is COMPLETED, parked when it is   *)
(* DEAD_LETTERED, and may rely on every conclusion in its packet's case.     *)
EXTENDS PacketAiDispatch

Phase(state) ==
    CASE state = "ABSENT" -> "NONE"
      [] state = "COMPLETED" -> "SETTLED"
      [] state = "DEAD_LETTERED" -> "PARKED"
      [] OTHER -> "OWED"

Duty == INSTANCE InterpretationDuty WITH
            Jobs <- JobIds,
            phase <- [j \in JobIds |-> Phase(jobs[j].state)],
            owed <- [j \in JobIds |-> Owed(j)],
            considered <- [j \in JobIds |-> applied[j[1]]]

(* Retries, lease expiry, takeovers, supersession, operators and the        *)
(* console add nothing to the promise and lose nothing of it.               *)
ImplementsDuty == Duty!Spec
=============================================================================

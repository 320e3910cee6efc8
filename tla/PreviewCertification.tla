------------------------- MODULE PreviewCertification -------------------------
(***************************************************************************)
(* The stage-1B certification of a preview: an orchestrator has the edge     *)
(* runner drain old jobs, seed each fixture as a packet, claim the next job  *)
(* of the dispatch queue, and score what the worker left in the database;    *)
(* five gates make the verdict.  The queue is shared: jobs of earlier        *)
(* certifications, real messages and other workers come between.  A job here *)
(* stands for its packet; its states are those PacketAiDispatch details.     *)
(***************************************************************************)
EXTENDS Integers, SequencesExt

CONSTANTS Manifest,     \* the fixtures, in order
          Mandatory,
          Kind,         \* of a fixture: order, question, closed (no order may come of it)
          NonOrder,     \* the fixtures gate D looks at
          NonOrderMin,  \* how many of them gate D needs
          Outside,      \* packets of others
          CertOwned,    \* those of them that another certification seeded
          MayLeave,     \* of a packet: what the worker may leave of it
          Replays,      \* how often gate C delivers one message
          MaxDrain,     \* jobs a setup drains
          None,
          MaxFaults     \* bound: failed calls, deaths, timeouts

Fixtures == ToSet(Manifest)
Probes == {"clarify", "first", "second"}
Packets == Fixtures \cup Probes \cup Outside
\* What scoring tells apart: as the fixture wants it, otherwise, an order where none
\* may be, and no case.
Outcomes == {"right", "wrong", "dangerous", "caseless"}

CertificationAssumption ==
  /\ Manifest \in Seq(Fixtures) /\ IsInjective(Manifest) /\ Fixtures \cap Probes = {}
  /\ Mandatory \cup NonOrder \subseteq Fixtures /\ CertOwned \subseteq Outside
  /\ Kind \in [Fixtures -> {"order", "question", "closed"}]
  /\ {NonOrderMin, Replays, MaxDrain, MaxFaults} \subseteq Nat
  /\ MayLeave \in [Packets -> SUBSET Outcomes] /\ None \notin Packets /\ Outside \cap (Fixtures \cup Probes) = {}

VARIABLES queue, leased,  \* packets to be claimed, in order; packets under lease or waiting
          outcome,        \* of each packet: what the worker left of it
          run, verdict, faults

vars == <<queue, leased, outcome, run, verdict, faults>>

Idle == [stage |-> "idle", todo |-> <<>>, expect |-> <<>>, held |-> None, drained |-> 0,
         results |-> {}, worked |-> {}, ok |-> TRUE]

TypeOK ==
  /\ leased \subseteq Packets /\ queue \in Seq(Packets \ leased) /\ IsInjective(queue)
  /\ outcome \in [Packets -> Outcomes \cup {"none"}]
  /\ run.stage \in {"idle", "drain", "drain_claim", "drain_work", "replay", "seed", "claim",
                    "work", "load", "direct", "verdict", "done"}
  /\ run.todo \in Seq(Packets) /\ run.expect \in Seq(Packets) /\ run.ok \in BOOLEAN
  /\ run.held \in leased \cup {None} /\ run.drained \in 0..MaxDrain
  /\ run.results \subseteq Fixtures \X Outcomes /\ run.worked \subseteq Packets
  /\ verdict \in {"none", "PASS", "FAIL"} /\ faults \in 0..MaxFaults

Init ==
  /\ queue = <<>> /\ leased = {} /\ outcome = [p \in Packets |-> "none"]
  /\ run = Idle /\ verdict = "none" /\ faults = 0

-----------------------------------------------------------------------------
At(stage) == run.stage = stage
Goto(stage) == run' = [run EXCEPT !.stage = stage]
Fault == faults < MaxFaults /\ faults' = faults + 1
Works == UNCHANGED faults
\* The report; one already written off stays so.
Report(v) ==
  /\ run' = [run EXCEPT !.stage = "done", !.held = None]
  /\ verdict' = IF verdict = "none" THEN v ELSE verdict

Backlog == ToSet(queue) \cup leased
ForeignBacklog == Backlog \cap (Outside \ CertOwned)

\* The fixtures offered, in the manifest's order: the manifest filtered by them.
Chosen(offered) ==
  {s \in [1..Cardinality(offered) -> offered] :
     /\ ToSet(s) = offered
     /\ \A i, j \in DOMAIN s : i < j =>
          \E k, l \in DOMAIN Manifest : k < l /\ s[i] = Manifest[k] /\ s[j] = Manifest[l]}

\* A run begins with all mandatory fixtures or not at all.
Start(offered) ==
  /\ At("idle")
  /\ IF Mandatory \subseteq offered
     THEN /\ \E chosen \in Chosen(offered) :
               run' = [run EXCEPT !.stage = "drain",
                                  !.todo = chosen \o <<"clarify", "first", "second">>]
          /\ UNCHANGED verdict
     ELSE Report("FAIL")
  /\ UNCHANGED <<queue, leased, outcome, faults>>

\* The setup goes on with whatever the drain left of other certifications' jobs.
EndDrain ==
  IF ForeignBacklog # {} THEN Report("FAIL") ELSE Goto("seed") /\ UNCHANGED verdict
CheckBacklog ==
  /\ At("drain")
  /\ IF ForeignBacklog # {} \/ Backlog = {} \/ run.drained = MaxDrain THEN EndDrain
     ELSE Goto("drain_claim") /\ UNCHANGED verdict
  /\ UNCHANGED <<queue, leased, outcome, faults>>

\* Gate C delivers one message again and again and wants it accepted once; the
\* intake takes a repetition as it took the first.
Replay ==
  /\ At("replay")
  /\ \E accepted \in 0..Replays :
       /\ IF accepted = Replays THEN Works ELSE Fault
       /\ run' = [run EXCEPT !.stage = "seed", !.ok = @ /\ accepted = 1]
  /\ UNCHANGED <<queue, leased, outcome, verdict>>
Seed ==
  LET p == Head(run.todo)
  IN  /\ At("seed")
      /\ queue' = Append(queue, p)
      /\ run' = [run EXCEPT !.todo = Tail(@), !.expect = Append(@, p),
                            !.stage = IF p = "first" THEN "seed" ELSE "claim"]
      /\ UNCHANGED <<leased, outcome, verdict, faults>>

Claim ==
  /\ At("claim") \/ At("drain_claim")
  /\ IF queue # <<>>
     THEN /\ run' = [run EXCEPT !.held = Head(queue),
                                !.stage = IF At("claim") THEN "work" ELSE "drain_work"]
          /\ queue' = Tail(queue) /\ leased' = leased \cup {Head(queue)}
          /\ UNCHANGED verdict
     ELSE /\ IF At("claim") THEN Report("FAIL") ELSE EndDrain
          /\ UNCHANGED <<queue, leased>>
  /\ UNCHANGED <<outcome, faults>>

Owned(p) == p = Head(run.expect)
\* The worker returns the packet it ran, which need not be the one expected.
Finish ==
  LET p == run.held
  IN  /\ At("work") \/ At("drain_work")
      /\ \E o \in MayLeave[p] : outcome' = [outcome EXCEPT ![p] = o]
      /\ leased' = leased \ {p}
      /\ IF At("work") /\ ~Owned(p) THEN Report("FAIL")
         ELSE /\ run' = IF At("work")
                        THEN [run EXCEPT !.stage = "load", !.held = None, !.worked = @ \cup {p}]
                        ELSE [run EXCEPT !.stage = "drain", !.held = None, !.drained = @ + 1]
              /\ UNCHANGED verdict
      /\ UNCHANGED <<queue, faults>>

(* Mutant: the verdict does not wait for gate C's packets.                   *)
Onward_SkipsGateC ==
  IF run.todo = <<>> \/ Head(run.todo) = "first" THEN "verdict" ELSE "seed"

\* With every seeded packet loaded, the next fixture or probe; the gates come last.
Onward ==
  IF run.todo = <<>> THEN "direct"
  ELSE IF Head(run.todo) = "first" THEN "replay" ELSE "seed"
\* What the database holds of the expected packet; a fixture's is kept for the gates.
Load ==
  LET p == Head(run.expect)
      rest == Tail(run.expect)
  IN  /\ At("load")
      /\ run' = [run EXCEPT
           !.expect = rest,
           !.results = IF p \in Fixtures THEN @ \cup {<<p, outcome[p]>>} ELSE @,
           !.ok = @ /\ (p = "clarify" => outcome[p] = "right"),
           !.stage = IF rest # <<>> THEN "claim" ELSE Onward]
      /\ UNCHANGED <<queue, leased, outcome, verdict, faults>>

\* Gate C has the worker run its first packet again, twice at once and past the queue:
\* whether the calls succeed does not count, a second order draft does.
Direct ==
  /\ At("direct") /\ Works
  /\ \E duplicate \in BOOLEAN :
       run' = [run EXCEPT !.stage = "verdict", !.ok = @ /\ ~duplicate]
  /\ UNCHANGED <<queue, leased, outcome, verdict>>

\* Gate A counts the results.
GateA ==
  /\ Cardinality(run.results) >= Cardinality(Mandatory)
  /\ \A x \in run.results : /\ x[2] # "dangerous"
                            /\ x[2] \in {"wrong", "none"} => Kind[x[1]] = "closed"
\* Gate B needs a question among the fixtures and its own to be clarified.
GateB == run.ok /\ \E x \in run.results : Kind[x[1]] = "question"
GateD ==
  LET looked == {x \in run.results : x[1] \in NonOrder}
  IN  /\ Cardinality(looked) >= NonOrderMin
      /\ \A x \in looked : x[2] \notin {"dangerous", "caseless", "none"}
GateE == \A x \in run.results : x[2] \notin {"dangerous", "caseless", "none"}
Judge ==
  /\ At("verdict")
  /\ Report(IF GateA /\ GateB /\ GateD /\ GateE THEN "PASS" ELSE "FAIL")
  /\ UNCHANGED <<queue, leased, outcome, faults>>

\* A call or the worker fails, or the runner dies; its job stays behind.
Break ==
  /\ ~At("idle") /\ ~At("done") /\ Fault /\ Report("FAIL")
  /\ UNCHANGED <<queue, leased, outcome>>
\* The orchestrator stops waiting, and the runner goes on to the end of the call.
Abandon ==
  /\ ~At("idle") /\ verdict = "none" /\ Fault /\ verdict' = "FAIL"
  /\ UNCHANGED <<queue, leased, outcome, run>>
Leave ==
  /\ At("seed") /\ verdict # "none" /\ Goto("done")
  /\ UNCHANGED <<queue, leased, outcome, verdict, faults>>

-----------------------------------------------------------------------------
(* The others on the queue.                                                  *)

Others == UNCHANGED <<run, verdict, faults>>
Arrive(p) ==
  /\ p \in Outside \ Backlog /\ outcome[p] = "none"
  /\ queue' = Append(queue, p) /\ Others /\ UNCHANGED <<leased, outcome>>
OtherClaims ==
  /\ queue # <<>> /\ queue' = Tail(queue) /\ leased' = leased \cup {Head(queue)}
  /\ Others /\ UNCHANGED outcome
OtherFinishes(p) ==
  /\ p \in leased \ {run.held} /\ leased' = leased \ {p}
  /\ \E o \in MayLeave[p] : outcome' = [outcome EXCEPT ![p] = o]
  /\ Others /\ UNCHANGED queue
\* A lease runs out, or a retry falls due: the job takes its place by that time.
Again(p) ==
  /\ p \in leased \ {run.held} /\ leased' = leased \ {p}
  /\ \E i \in 1..Len(queue) + 1 : queue' = InsertAt(queue, i, p)
  /\ Others /\ UNCHANGED outcome

Next ==
  \/ \E offered \in SUBSET Fixtures : Start(offered)
  \/ CheckBacklog \/ Replay \/ Seed \/ Claim \/ Finish \/ Load \/ Direct \/ Judge
  \/ Break \/ Abandon \/ Leave
  \/ OtherClaims \/ \E p \in Packets : Arrive(p) \/ OtherFinishes(p) \/ Again(p)
Spec == Init /\ [][Next]_vars

-----------------------------------------------------------------------------
(* Properties.                                                               *)

\* A PASS was earned: this run's own claims had the worker run every mandatory
\* fixture and probe, and what stands in the database of each fixture is what it
\* wants or, where no order may come of it, at least none, whoever else claimed,
\* seeded or lost jobs of the same queue meanwhile.
VerdictIsEarned ==
  verdict = "PASS" =>
    /\ Mandatory \cup Probes \subseteq run.worked
    /\ outcome["clarify"] = "right"
    /\ \A f \in Mandatory : \/ outcome[f] = "right"
                            \/ outcome[f] = "wrong" /\ Kind[f] = "closed"
=============================================================================

---------------------------- MODULE SessionBridge ----------------------------
(***************************************************************************)
(* The msg91-session-bridge: a phone number verified by the OTP provider is  *)
(* turned into a login.  The legacy verifier knows most numbers; one that is *)
(* linked to a placeholder without an Auth identity is recovered: a new      *)
(* identity is created, bound to the number by one database transaction, and *)
(* removed again when that did not happen.  Each stage of a worker is one    *)
(* await of the handler.  Failed calls, lost answers, crashes and changes of *)
(* an application are capped by MaxFaults, and by MaxLate the calls still    *)
(* running after their caller has given up on them.                          *)
(***************************************************************************)
EXTENDS Integers, Sequences, FiniteSets

CONSTANTS Phones, Requests, Workers,
          MaxIdentities,   \* bound: identities ever created for one phone
          MaxFaults, MaxLate

\* fields: the provider's payload, in the order the code looks for a phone in it.
Field == {"blank", "indian", "foreign"}
BridgeAssumption ==
  /\ \A r \in Requests : r.phone \in Phones /\ r.valid \in BOOLEAN
                         /\ r.verified \in BOOLEAN /\ r.fields \in Seq(Field)
  /\ MaxIdentities \in Nat /\ MaxFaults \in Nat /\ MaxLate \in Nat

VARIABLES identity,   \* per phone: the Auth identity that owns it, 0 for none
          created,    \* per phone: identities created so far
          owner,      \* per phone: the public identity, 0 for the placeholder
          eligible,   \* per phone: placeholder and application are as inspected
          worker, running, minted, faults, late

vars == <<identity, created, owner, eligible, worker, running, minted, faults, late>>

Ids == 1..MaxIdentities
Idle == [stage |-> "idle"]
Stages == {"legacy", "provider", "inspect", "create", "reconcile", "state", "cleanup",
           "mint"}
Working == [stage: Stages, request: Requests, id: 0..MaxIdentities, attempt: 1..3]

TypeOK ==
  /\ identity \in [Phones -> 0..MaxIdentities]
  /\ created \in [Phones -> 0..MaxIdentities]
  /\ owner \in [Phones -> 0..MaxIdentities]
  /\ eligible \subseteq Phones
  /\ worker \in [Workers -> Working \cup {Idle}]
  /\ running \subseteq Phones \X Ids /\ minted \subseteq Phones \X Ids
  /\ faults \in 0..MaxFaults /\ late \in 0..MaxLate

Init ==
  /\ identity = [p \in Phones |-> 0] /\ created = [p \in Phones |-> 0]
  /\ owner = [p \in Phones |-> 0] /\ eligible = Phones
  /\ worker = [w \in Workers |-> Idle]
  /\ running = {} /\ minted = {} /\ faults = 0 /\ late = 0

-----------------------------------------------------------------------------
At(w, stage) == worker[w].stage = stage
Phone(w) == worker[w].request.phone
Goto(w, stage) == worker' = [worker EXCEPT ![w].stage = stage, ![w].attempt = 1]
Take(w, stage, id) == worker' = [worker EXCEPT ![w].stage = stage, ![w].id = id]
Again(w) == worker' = [worker EXCEPT ![w].attempt = @ + 1]
End(w) == worker' = [worker EXCEPT ![w] = Idle]
Fault == faults < MaxFaults /\ faults' = faults + 1
Works == UNCHANGED faults
Rows == <<identity, created, owner, eligible>>

\* The first non-blank field counts, and only an Indian number is a phone.
VerifiedPhone(r) ==
  LET given == SelectSeq(r.fields, LAMBDA f : f # "blank")
  IN  given # <<>> /\ given[1] = "indian"

Accept(w, r) ==
  /\ At(w, "idle") /\ r.valid /\ Works
  /\ worker' = [worker EXCEPT ![w] =
                  [stage |-> "legacy", request |-> r, id |-> 0, attempt |-> 1]]
  /\ UNCHANGED <<Rows, running, minted, late>>

\* The legacy verifier knows a number whose public identity has its Auth identity;
\* its answer may carry the token already.
Linked(p) == owner[p] # 0 /\ owner[p] = identity[p]
Login(w, id) == minted' = minted \cup {<<Phone(w), id>>}
AskLegacy(w) ==
  LET p == Phone(w)
      r == worker[w].request
  IN  /\ At(w, "legacy")
      /\ \/ ~r.verified /\ Works /\ End(w) /\ UNCHANGED minted
         \/ r.verified /\ ~Linked(p) /\ Works /\ Goto(w, "provider") /\ UNCHANGED minted
         \/ r.verified /\ Linked(p) /\ Works /\ Login(w, owner[p]) /\ End(w)
         \/ r.verified /\ Linked(p) /\ Works /\ Take(w, "mint", owner[p]) /\ UNCHANGED minted
         \/ Fault /\ End(w) /\ UNCHANGED minted
      /\ UNCHANGED <<Rows, running, late>>

\* The recovery asks the provider itself; the caller's word is never used.
AskProvider(w) ==
  /\ At(w, "provider")
  /\ \/ VerifiedPhone(worker[w].request) /\ Works /\ Goto(w, "inspect")
     \/ ~VerifiedPhone(worker[w].request) /\ Works /\ End(w)
     \/ Fault /\ End(w)
  /\ UNCHANGED <<Rows, running, minted, late>>

\* inspect_b2b_pending_phone_placeholder_v1: nobody owns the phone in Auth, the
\* public identity is a placeholder with one open application.
Inspect(w) ==
  LET p == Phone(w)
      fit == identity[p] = 0 /\ owner[p] = 0 /\ p \in eligible
  IN  /\ At(w, "inspect")
      /\ \/ fit /\ Works /\ Goto(w, "create")
         \/ ~fit /\ Works /\ End(w)
         \/ fit /\ Fault /\ End(w)
      /\ UNCHANGED <<Rows, running, minted, late>>

\* Auth holds a phone once: the second creation is refused.
CreateUser(w) ==
  LET p == Phone(w)
      id == created[p] + 1
  IN  /\ At(w, "create") /\ created[p] < MaxIdentities
      /\ \/ /\ identity[p] = 0 /\ Works /\ Take(w, "reconcile", id)
            /\ identity' = [identity EXCEPT ![p] = id]
            /\ created' = [created EXCEPT ![p] = id]
         \/ identity[p] # 0 /\ Works /\ End(w) /\ UNCHANGED <<identity, created>>
         \/ /\ identity[p] = 0 /\ Fault /\ End(w)
            /\ \/ UNCHANGED <<identity, created>>
               \/ /\ identity' = [identity EXCEPT ![p] = id]
                  /\ created' = [created EXCEPT ![p] = id]
      /\ UNCHANGED <<owner, eligible, running, minted, late>>

\* reconcile_b2b_pending_phone_placeholder_v1: everything is validated again; a
\* call that finds its own result is a replay.
MayBind(p, id) ==
  identity[p] = id /\ (owner[p] = id \/ (owner[p] = 0 /\ p \in eligible))
Bind(p, id) == owner' = IF MayBind(p, id) THEN [owner EXCEPT ![p] = id] ELSE owner
(* Mutant: an unanswered reconciliation counts as one that did not happen.   *)
AfterReconcile_Cleanup(w) == IF worker[w].attempt < 2 THEN Again(w) ELSE Goto(w, "cleanup")

\* Two attempts; then the public identity is read.
AfterReconcile(w) == IF worker[w].attempt < 2 THEN Again(w) ELSE Goto(w, "state")
Reconcile(w) ==
  LET p == Phone(w)
      id == worker[w].id
  IN  /\ At(w, "reconcile")
      /\ \/ MayBind(p, id) /\ Works /\ Bind(p, id) /\ Goto(w, "mint")
            /\ UNCHANGED <<running, late>>
         \/ ~MayBind(p, id) /\ Works /\ AfterReconcile(w) /\ UNCHANGED <<owner, running, late>>
         \/ /\ Fault /\ AfterReconcile(w) /\ UNCHANGED <<running, late>>
            /\ Bind(p, id) \/ UNCHANGED owner
         \/ /\ late < MaxLate /\ late' = late + 1 /\ Works /\ AfterReconcile(w)
            /\ running' = running \cup {<<p, id>>} /\ UNCHANGED owner
      /\ UNCHANGED <<identity, created, eligible, minted>>
\* A reconciliation nobody waits for any more takes effect.
RunLate(p, id) ==
  /\ <<p, id>> \in running /\ Works /\ Bind(p, id)
  /\ running' = running \ {<<p, id>>}
  /\ UNCHANGED <<identity, created, eligible, worker, minted, late>>

AfterAbsent(w) == Goto(w, "cleanup")
\* canonicalPublicIdentityState: present, absent, or - unreadable - unknown.
ReadState(w) ==
  /\ At(w, "state")
  /\ \/ owner[Phone(w)] = worker[w].id /\ Works /\ Goto(w, "mint")
     \/ owner[Phone(w)] # worker[w].id /\ Works /\ AfterAbsent(w)
     \/ Fault /\ End(w)
  /\ UNCHANGED <<Rows, running, minted, late>>

\* Up to three attempts to remove the identity created in vain.
Removed(w) == identity' = [identity EXCEPT ![Phone(w)] = IF @ = worker[w].id THEN 0 ELSE @]
Cleanup(w) ==
  /\ At(w, "cleanup")
  /\ \/ Removed(w) /\ Works /\ End(w)
     \/ /\ Fault
        /\ Removed(w) \/ UNCHANGED identity
        /\ IF worker[w].attempt < 3 THEN Again(w) ELSE End(w)
  /\ UNCHANGED <<created, owner, eligible, running, minted, late>>

MintToken(w) ==
  /\ At(w, "mint") /\ End(w)
  /\ \/ Login(w, worker[w].id) /\ Works
     \/ Fault /\ UNCHANGED minted
  /\ UNCHANGED <<Rows, running, late>>

Crash(w) ==
  /\ ~At(w, "idle") /\ Fault /\ End(w)
  /\ UNCHANGED <<Rows, running, minted, late>>
\* Staff turn the placeholder into something else, or close the application.
Disqualify(p) ==
  /\ p \in eligible /\ owner[p] = 0 /\ Works /\ eligible' = eligible \ {p}
  /\ UNCHANGED <<identity, created, owner, worker, running, minted, late>>

Next ==
  \/ \E w \in Workers :
       \/ \E r \in Requests : Accept(w, r)
       \/ AskLegacy(w) \/ AskProvider(w) \/ Inspect(w) \/ CreateUser(w) \/ Reconcile(w)
       \/ ReadState(w) \/ Cleanup(w) \/ MintToken(w) \/ Crash(w)
  \/ \E p \in Phones : Disqualify(p) \/ \E id \in Ids : RunLate(p, id)
Spec == Init /\ [][Next]_vars

-----------------------------------------------------------------------------
(* Properties.                                                               *)

\* At most one reconciliation outlives its caller, and then nothing else fails.
Calm == late = 0 \/ late + faults <= 1

\* Every login handed out is for the identity its phone is bound to, and that
\* identity exists: cleaning up after a failed reconciliation never takes away
\* what a reconciliation has bound, as long as no reconciliation outlives its
\* caller when its second attempt fails too.
BoundIsKept ==
  /\ \A x \in minted : owner[x[1]] = x[2]
  /\ Calm => \A p \in Phones : owner[p] # 0 => identity[p] = owner[p]
=============================================================================

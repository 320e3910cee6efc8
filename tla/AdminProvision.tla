---------------------------- MODULE AdminProvision ----------------------------
(***************************************************************************)
(* The admin-provision-user function: an admin's request is authenticated,  *)
(* its authority checked, the Auth identity of the email found page by page  *)
(* or created, and the role granted by a database function that checks the   *)
(* authority again.  Each stage of a worker is one await of the handler;     *)
(* admins are revoked, identities come and go while it runs.  Failed calls,  *)
(* crashes, revocations and deletions are capped by MaxFaults.               *)
(***************************************************************************)
EXTENDS Integers, Sequences, FiniteSets

CONSTANTS Actors,       \* members of staff who may call
          ActorRole,    \* the role each has: "super_admin", "admin" or "staff"
          Emails,       \* identities asked for
          Others,       \* identities nobody asks for, which fill the list
          Roles,        \* provisionable role keys
          StepUp,       \* the roles that require an AAL2 session
          Requests,     \* what callers send, and send again
          Workers,      \* concurrent invocations
          PerPage,      \* bound: page size of the Auth user list
          MaxFaults     \* bound: failed calls, crashes, revocations, deletions

Privileged == {"super_admin", "owner", "admin"}
Modes == {"invite", "service_credential"}
RequestType == [origin: {"none", "allowed", "foreign"}, actor: Actors \cup {"nobody"},
                aal2: BOOLEAN, valid: BOOLEAN, email: Emails, role: Roles, mode: Modes]

ProvisionAssumption ==
  /\ ActorRole \in [Actors -> {"super_admin", "admin", "staff"}]
  /\ StepUp \subseteq Roles /\ Requests \subseteq RequestType
  /\ IsFiniteSet(Others) /\ PerPage \in Nat \ {0} /\ MaxFaults \in Nat

VARIABLES active, identities, worker, grants, orphaned, faults

vars == <<active, identities, worker, grants, orphaned, faults>>

Idle == [stage |-> "idle"]
Stages == {"may_grant", "step_up", "scan", "create", "grant", "respond"}
Grant == [email: Emails, role: Roles, actor: Actors, aal2: BOOLEAN]

TypeOK ==
  /\ active \subseteq Actors
  /\ \A i \in 1..Len(identities) : identities[i] \in Emails \cup Others
  /\ \A w \in Workers : worker[w] # Idle =>
       /\ worker[w].stage \in Stages /\ worker[w].page \in Nat \ {0}
       /\ worker[w].password \in {"none", "generated"}
  /\ grants \subseteq Grant
  /\ orphaned \subseteq Emails
  /\ faults \in 0..MaxFaults

\* Some order of the identities nobody asks for, the list a page is cut from.
Listed(S) == CHOOSE s \in [1..Cardinality(S) -> S] :
               \A i, j \in 1..Cardinality(S) : s[i] = s[j] => i = j
Init ==
  /\ active = Actors
  /\ identities = Listed(Others)
  /\ worker = [w \in Workers |-> Idle]
  /\ grants = {} /\ orphaned = {} /\ faults = 0

-----------------------------------------------------------------------------
(* Authority.                                                                *)

GateStatus(r) ==
  CASE r.origin = "foreign" -> 403
    [] r.actor = "nobody" -> 401
    [] ~r.valid -> 400
    [] OTHER -> 200

\* can_grant_staff_role: an admin who is active now, below his own rank.
Outranks(actor, role) ==
  \/ ActorRole[actor] = "super_admin"
  \/ ActorRole[actor] = "admin" /\ role \notin Privileged
CanGrant(actor, role) == actor \in active /\ Outranks(actor, role)

\* Fails closed: an allowlist row that cannot be read requires step-up.
RequiresStepUp(role, readable) == ~readable \/ role \in StepUp

-----------------------------------------------------------------------------
(* Control of one worker.                                                    *)

At(w, stage) == worker[w].stage = stage
Asked(w) == worker[w].request
Goto(w, stage) == worker' = [worker EXCEPT ![w].stage = stage]
End(w) == worker' = [worker EXCEPT ![w] = Idle]
Fault == faults < MaxFaults /\ faults' = faults + 1
Works == UNCHANGED faults
Exists(email) == \E i \in 1..Len(identities) : identities[i] = email

Accept(w, r) ==
  /\ At(w, "idle") /\ GateStatus(r) = 200 /\ Works
  /\ worker' = [worker EXCEPT ![w] =
       [stage |-> "may_grant", request |-> r, page |-> 1, inspected |-> 0,
        existed |-> FALSE, password |-> "none"]]
  /\ UNCHANGED <<active, identities, grants, orphaned>>

\* An error counts as a refusal.
MayGrant(w) ==
  /\ At(w, "may_grant")
  /\ \/ CanGrant(Asked(w).actor, Asked(w).role) /\ Works /\ Goto(w, "step_up")
     \/ ~CanGrant(Asked(w).actor, Asked(w).role) /\ Works /\ End(w)
     \/ Fault /\ End(w)
  /\ UNCHANGED <<active, identities, grants, orphaned>>

CheckStepUp(w) ==
  /\ At(w, "step_up")
  /\ \E readable \in BOOLEAN :
       /\ IF readable THEN Works ELSE Fault
       /\ IF RequiresStepUp(Asked(w).role, readable) /\ ~Asked(w).aal2 THEN End(w)
          ELSE worker' = [worker EXCEPT ![w].stage = "scan",
                                        ![w].existed = Exists(Asked(w).email)]
  /\ UNCHANGED <<active, identities, grants, orphaned>>

Page(n) == SubSeq(identities, (n - 1) * PerPage + 1,
                  IF n * PerPage > Len(identities) THEN Len(identities) ELSE n * PerPage)
(* Mutant: the former ceiling, here of one page.                             *)
LastPage_Ceiling(users, inspected) == TRUE

\* A short page, or as many users as the list reports, ends the scan.
LastPage(users, inspected) == Len(users) < PerPage \/ inspected >= Len(identities)
\* findExistingUserAcrossPages; a page that cannot be read ends the request.
ScanPage(w) ==
  LET users == Page(worker[w].page)
      inspected == worker[w].inspected + Len(users)
      found == \E i \in 1..Len(users) : users[i] = Asked(w).email
  IN  /\ At(w, "scan")
      /\ \/ found /\ Works /\ Goto(w, "grant")
         \/ ~found /\ LastPage(users, inspected) /\ Works /\ Goto(w, "create")
         \/ /\ ~found /\ ~LastPage(users, inspected) /\ Works
            /\ worker' = [worker EXCEPT ![w].page = @ + 1, ![w].inspected = inspected]
         \/ Fault /\ End(w)
      /\ UNCHANGED <<active, identities, grants, orphaned>>

\* The Auth service holds an email once; the second creation is an error.
Taken(w) == End(w)
NewPassword(mode) == IF mode = "service_credential" THEN "generated" ELSE "none"
Create(w) ==
  LET email == Asked(w).email
  IN  /\ At(w, "create")
      /\ \/ /\ ~Exists(email) /\ Works
            /\ \/ identities' = <<email>> \o identities
               \/ identities' = Append(identities, email)
            /\ worker' = [worker EXCEPT ![w].stage = "grant",
                                        ![w].password = NewPassword(Asked(w).mode)]
            /\ orphaned' = IF Asked(w).mode = "service_credential"
                           THEN orphaned \cup {email} ELSE orphaned
         \/ Exists(email) /\ Works /\ Taken(w) /\ UNCHANGED <<identities, orphaned>>
         \/ Fault /\ End(w) /\ UNCHANGED <<identities, orphaned>>
      /\ UNCHANGED <<active, grants>>
\* grant_staff_role checks its actor and the role as they are now.
Refused(w) == ~CanGrant(Asked(w).actor, Asked(w).role)
GrantRole(w) ==
  LET r == Asked(w)
      granted == [email |-> r.email, role |-> r.role, actor |-> r.actor, aal2 |-> r.aal2]
  IN  /\ At(w, "grant")
      /\ \/ ~Refused(w) /\ Works /\ grants' = grants \cup {granted} /\ Goto(w, "respond")
         \/ Refused(w) /\ Works /\ End(w) /\ UNCHANGED grants
         \/ Fault /\ End(w) /\ grants' \in {grants, grants \cup {granted}}
      /\ UNCHANGED <<active, identities, orphaned>>

\* The one answer that carries a generated password.
Respond(w) ==
  /\ At(w, "respond") /\ Works /\ End(w)
  /\ orphaned' = IF worker[w].password = "none" THEN orphaned
                 ELSE orphaned \ {Asked(w).email}
  /\ UNCHANGED <<active, identities, grants>>

Crash(w) ==
  /\ ~At(w, "idle") /\ Fault /\ End(w)
  /\ UNCHANGED <<active, identities, grants, orphaned>>

\* Another admin revokes the actor; another service deletes an identity, and the
\* list closes up.
Revoke(a) ==
  /\ a \in active /\ Fault /\ active' = active \ {a}
  /\ UNCHANGED <<identities, worker, grants, orphaned>>
Delete(i) ==
  /\ i \in 1..Len(identities) /\ identities[i] \in Others /\ Fault
  /\ identities' = SubSeq(identities, 1, i - 1) \o SubSeq(identities, i + 1, Len(identities))
  /\ UNCHANGED <<active, worker, grants, orphaned>>

Step(w) == \/ MayGrant(w) \/ CheckStepUp(w) \/ ScanPage(w) \/ Create(w)
           \/ GrantRole(w) \/ Respond(w)
Served(r) == \E w \in Workers : Accept(w, r)
Next == \/ \E w \in Workers : Step(w) \/ Crash(w)
        \/ \E r \in Requests : Served(r)
        \/ \E a \in Actors : Revoke(a)
        \/ \E i \in 1..Cardinality(Emails \cup Others) : Delete(i)

\* Requests nothing but a revocation stands in the way of.
Qualified == {r \in Requests : /\ GateStatus(r) = 200 /\ Outranks(r.actor, r.role)
                               /\ (r.role \in StepUp => r.aal2)}
\* The platform runs the invocations on; a caller repeats a request until it is served.
Steps == \E w \in Workers : Step(w)
Fairness == WF_vars(Steps) /\ \A r \in Qualified : SF_vars(Served(r))
Spec == Init /\ [][Next]_vars /\ Fairness

-----------------------------------------------------------------------------
(* Properties.                                                               *)

\* No sensitive role is granted from a session without the second factor, the
\* allowlist row unreadable or not.
StepUpIsHeld == \A g \in grants : g.role \in StepUp => g.aal2

\* An identity that was there when the scan began is found, wherever in the list
\* it is and whatever is inserted meanwhile; only a deletion may hide it.
IdentityIsReused ==
  faults = 0 => \A w \in Workers : At(w, "create") => ~worker[w].existed

\* Only a failure separates a new identity from its one password.
PasswordIsHandedOver ==
  \A email \in orphaned :
    \/ faults > 0
    \/ \E w \in Workers : worker[w] # Idle /\ Asked(w).email = email
                          /\ worker[w].password = "generated"

\* Requests that overlap, or are sent again, neither lose an identity that exists,
\* nor the password of a new one, nor the step-up check.
ProvisioningIsSafe == StepUpIsHeld /\ IdentityIsReused /\ PasswordIsHandedOver

\* After a partial failure a repeated request converges: unless its actor is
\* revoked, a request that may be granted is in the end granted.
Converged(r) ==
  r.actor \notin active \/ \E g \in grants : g.email = r.email /\ g.role = r.role
RetriesConverge == \A r \in Qualified : <>Converged(r)
=============================================================================

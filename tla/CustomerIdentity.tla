---------------------------- MODULE CustomerIdentity --------------------------
(***************************************************************************)
(* Which company an inbound WhatsApp message belongs to.  The webhook builds *)
(* a candidate from the message (GST numbers, a company name, the client a   *)
(* staff member relays for) and the database decides, from the candidate and *)
(* from what binds the sender: its phone number in a company's records, or a *)
(* commercial authorization.  A dispute is decided first, on the same        *)
(* message; it marks the company's latest ledger.  Companies are suspended   *)
(* and authorizations granted and withdrawn while messages are handled.      *)
(***************************************************************************)
EXTENDS Integers, FiniteSets

CONSTANTS Companies, gst, name,   \* the companies, their GST numbers and names
          Numbers, Names,         \* GST numbers and names a message may hold
          Senders, phones,        \* the companies whose records carry a sender's phone
          exactPhones,            \* those of them whose records carry it in plain digits
          staff,                  \* senders the database knows as staff
          proxies,                \* senders the webhook takes for staff who relay orders
          None,
          Messages, Workers,
          MaxFaults, MaxChanges

\* What the code reads from a message: its names and GST numbers, and whether it
\* was forwarded or disputes a ledger.
Message == [from: Senders, forwarded: BOOLEAN, dispute: BOOLEAN, gsts: SUBSET Numbers,
            named: Names \cup {None}, mention: Names \cup {None}]

IdentityAssumption ==
  /\ gst \in [Companies -> Numbers] /\ name \in [Companies -> Names]
  /\ phones \in [Senders -> SUBSET Companies]
  /\ exactPhones \in [Senders -> SUBSET Companies]
  /\ \A s \in Senders : exactPhones[s] \subseteq phones[s]
  /\ staff \subseteq Senders /\ proxies \subseteq Senders
  /\ Messages \subseteq Message
  /\ IsFiniteSet(Numbers) /\ None \notin Companies /\ MaxFaults \in Nat /\ MaxChanges \in Nat

VARIABLES active,     \* companies with status active or approved
          auth,       \* per sender: companies of its active authorizations
          worker, disputed, faults, changes

vars == <<active, auth, worker, disputed, faults, changes>>

Idle == [stage |-> "idle"]
Stages == {"dispute", "mark", "classify", "resolve", "manager", "answered"}

TypeOK ==
  /\ active \subseteq Companies /\ auth \in [Senders -> SUBSET Companies]
  /\ \A w \in Workers : worker[w] # Idle =>
       /\ worker[w].stage \in Stages /\ worker[w].message \in Messages
       /\ worker[w].proxy \in BOOLEAN /\ worker[w].company \in Companies \cup {None}
       /\ worker[w].stage = "mark" => worker[w].company # None
  /\ disputed \subseteq Companies
  /\ faults \in 0..MaxFaults /\ changes \in 0..MaxChanges

Init ==
  /\ active = Companies /\ auth = [s \in Senders |-> {}]
  /\ worker = [w \in Workers |-> Idle] /\ disputed = {} /\ faults = 0 /\ changes = 0

-----------------------------------------------------------------------------
(* The candidate and the decision.                                           *)

Single(S) == IF Cardinality(S) = 1 THEN S ELSE {}

\* buildGovernedCandidate: a staff member's relay wording comes before the name.
CandidateName(m, proxy) ==
  IF proxy /\ m.mention # None THEN m.mention ELSE m.named
HasEvidence(m, proxy) == m.gsts # {} \/ CandidateName(m, proxy) # None

\* Forwarded and relayed messages say nothing of their sender.
Blocked(m, proxy) == proxy \/ m.forwarded

ByGst(g) == {c \in active : gst[c] = g}
ByName(n) == {c \in active : name[c] = n}
(* Mutant: the first clue that finds a company decides.                      *)
Target_FirstMatch(m, n) == IF m.gsts # {} THEN Single(UNION {ByGst(g) : g \in m.gsts})
                                          ELSE Single(ByName(n))

\* One company found by the first clue, and the name must agree with it.
Target(m, n) ==
  IF m.gsts # {}
    THEN Single(UNION {ByGst(g) : g \in m.gsts}) \cap (IF n = None THEN active ELSE ByName(n))
    ELSE Single(ByName(n))

\* A phone is looked for as it is written, and in other spellings when nobody has that.
PhoneCompanies(s) ==
  active \cap (IF exactPhones[s] \cap active # {} THEN exactPhones[s] ELSE phones[s])

\* whatsapp_sender_identity_anchor_company_ids
Anchors(s) == IF s \in staff THEN {} ELSE PhoneCompanies(s) \cup (auth[s] \cap active)
\* A clue only counts for the one company that binds the sender.
Bound(s, c) == IF s \in staff THEN c \in auth[s] ELSE Anchors(s) = {c}

\* Without a clue: the sender's authorization, then its phone; never for staff.
SenderCompany(s) ==
  IF s \in staff THEN {}
  ELSE IF auth[s] \cap active # {} THEN Single(auth[s] \cap active)
  ELSE Single(PhoneCompanies(s))

\* whatsapp_resolve_governed_customer: at most one company.
Resolve(m, proxy) ==
  IF Cardinality(m.gsts) > 1 THEN {}
  ELSE IF HasEvidence(m, proxy)
    THEN {c \in Target(m, CandidateName(m, proxy)) : Bound(m.from, c)}
    ELSE SenderCompany(m.from)

-----------------------------------------------------------------------------
At(w, stage) == worker[w].stage = stage
Fault == faults < MaxFaults /\ faults' = faults + 1
Works == UNCHANGED faults
World == <<active, auth, changes>>

Accept(w, m) ==
  /\ At(w, "idle") /\ Works
  /\ worker' = [worker EXCEPT ![w] =
       [stage |-> IF m.dispute THEN "dispute" ELSE "classify",
        message |-> m, proxy |-> FALSE, company |-> None]]
  /\ UNCHANGED <<World, disputed>>

Decided(w, next, found) ==
  worker' = [worker EXCEPT ![w].stage = next,
                           ![w].company = IF found = {} THEN None ELSE CHOOSE c \in found : TRUE]

\* The dispute's resolution says neither that the message was forwarded nor who sent it.
DecideDispute(w) ==
  LET found == Resolve(worker[w].message, FALSE)
  IN  /\ At(w, "dispute")
      /\ \/ Works /\ Decided(w, IF found = {} THEN "classify" ELSE "mark", found)
         \/ Fault /\ Decided(w, "classify", {})
      /\ UNCHANGED <<World, disputed>>

\* The dispute itself is refused by its table's trigger; the ledger is marked anyway.
MarkDisputed(w) ==
  /\ At(w, "mark")
  /\ \/ Works /\ disputed' = disputed \cup {worker[w].company}
     \/ Fault /\ UNCHANGED disputed
  /\ Decided(w, "classify", {})
  /\ UNCHANGED World

\* classifySender: a failed lookup counts as "no staff member".
Classify(w) ==
  /\ At(w, "classify")
  /\ \/ /\ Works
        /\ worker' = [worker EXCEPT ![w].stage = "resolve",
                                    ![w].proxy = worker[w].message.from \in proxies]
     \/ Fault /\ worker' = [worker EXCEPT ![w].stage = "resolve"]
  /\ UNCHANGED <<World, disputed>>

\* resolveWebhookCompany
Decide(w) ==
  LET m == worker[w].message
      proxy == worker[w].proxy
      found == IF Blocked(m, proxy) /\ ~HasEvidence(m, proxy) THEN {} ELSE Resolve(m, proxy)
  IN  /\ At(w, "resolve")
      /\ \/ Works /\ Decided(w, IF found = {} THEN "answered" ELSE "manager", found)
         \/ Fault /\ Decided(w, "answered", {})
      /\ UNCHANGED <<World, disputed>>

\* The company's account manager is read; a failure leaves it unknown.
ReadManager(w) ==
  /\ At(w, "manager") /\ Works
  /\ worker' = [worker EXCEPT ![w].stage = "answered"]
  /\ UNCHANGED <<World, disputed>>

Finish(w) ==
  /\ At(w, "answered") /\ Works /\ worker' = [worker EXCEPT ![w] = Idle]
  /\ UNCHANGED <<World, disputed>>

Change == changes < MaxChanges /\ changes' = changes + 1
Rest == <<worker, disputed, faults>>
Suspend(c) ==
  /\ c \in active /\ Change /\ active' = active \ {c} /\ UNCHANGED <<auth, Rest>>
Authorize(s, c) ==
  /\ c \notin auth[s] /\ Change /\ auth' = [auth EXCEPT ![s] = @ \cup {c}]
  /\ UNCHANGED <<active, Rest>>
\* Revoked, or past its last day.
Withdraw(s, c) ==
  /\ c \in auth[s] /\ Change /\ auth' = [auth EXCEPT ![s] = @ \ {c}]
  /\ UNCHANGED <<active, Rest>>

Next ==
  \/ \E w \in Workers :
       \/ \E m \in Messages : Accept(w, m)
       \/ DecideDispute(w) \/ MarkDisputed(w) \/ Classify(w) \/ Decide(w)
       \/ ReadManager(w) \/ Finish(w)
  \/ \E c \in Companies : Suspend(c) \/ \E s \in Senders : Authorize(s, c) \/ Withdraw(s, c)
Spec == Init /\ [][Next]_vars

-----------------------------------------------------------------------------
(* Properties.                                                               *)

\* The company a message is given to, once the webhook has decided.
Answer(w) == IF worker[w].stage \in {"manager", "answered"} THEN worker[w].company ELSE None

\* A forwarded message, and one of a staff member, is never given to a company
\* the message does not name, even when the webhook failed to recognise the staff
\* member.
RelaysNeedAClue ==
  \A w \in Workers : LET m == worker[w].message IN
    Answer(w) # None /\ (m.forwarded \/ m.from \in staff) =>
      gst[Answer(w)] \in m.gsts \/ name[Answer(w)] \in {m.named, m.mention}

\* Every clue of a message agrees with the company it is given to: a second GST
\* number, or a name that is another company's, stops the message.
CluesAgree ==
  \A w \in Workers : LET m == worker[w].message IN
    Answer(w) # None =>
      /\ m.gsts \subseteq {gst[Answer(w)]}
      /\ m.named # None => name[Answer(w)] \in {m.named, m.mention}

\* However the message came, and whatever changed while it was handled.
CluesDecide == RelaysNeedAClue /\ CluesAgree
=============================================================================

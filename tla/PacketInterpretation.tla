------------------------- MODULE PacketInterpretation -------------------------
(***************************************************************************)
(* How one packet of messages is interpreted: its media is fetched, the      *)
(* model is asked, its answer is cut to what the packet proves.  The packet  *)
(* worker does it inside its dispatch lease, with a budget for the media and *)
(* one repeated question; the interactive interpreter does the same for a    *)
(* signed-in person, without either.  A worker that finds its packet already *)
(* interpreted fetches the media and reuses that interpretation (cached).    *)
(* Time is counted in units of five seconds; a request aborted by its        *)
(* timeout ends at that moment.                                              *)
(***************************************************************************)
EXTENDS Integers, Sequences, FiniteSets, Functions

CONSTANTS Packets,        \* sequences of messages [id, media, url, size]
          Replies,        \* what the model may answer: lines [status, named, quantity,
                          \* cites], corrections and facts [from, stated]
          Durations,      \* how long a request may take, unless its timeout ends it
          LegacyMessages, \* packets up to this size take missing media as it is
          MaxBytes,       \* of a packet's media
          MediaBudget, FetchTimeout, CallBudget, Delay, MaxAttempts,
          Lease, Margin,
          MaxLines, MaxCites, MaxCorrections, MaxFacts,  \* what the sanitizer looks at
          Blank           \* a correction or a fact that names no message

InterpretationAssumption ==
  /\ {LegacyMessages, MaxBytes, MediaBudget, FetchTimeout, CallBudget, Delay, MaxAttempts,
      Lease, Margin, MaxLines, MaxCites, MaxCorrections, MaxFacts} \subseteq Nat
  /\ MaxAttempts # 0
  /\ Durations \subseteq Nat
  /\ \A p \in Packets : Len(p) \in Nat /\ \A n \in 1..Len(p) : p[n].size \in Nat
  /\ \A r \in Replies :
       /\ r.form \in {"text", "json", "schema"} /\ r.review \in BOOLEAN
       /\ {Len(r.lines), Len(r.corrections), Len(r.facts)} \subseteq Nat
       /\ \A n \in 1..Len(r.lines) : r.lines[n].status \in {"explicit", "interpreted", "unclear"}

VARIABLES mode, packet,
          stage, now,    \* now: since the request began, when the lease is claimed
          loaded,        \* when the packet and the knowledge snapshot were loaded
          next,          \* the message whose media comes next
          bytes, seen,   \* media bytes so far; the messages whose media is attached
          ask, tries,    \* questions put to the model; requests of this question
          asked,         \* when this question was put first
          reply, result,
          completed      \* provider ids whose media is reported as processed

work == <<next, bytes, seen, ask, tries, asked, reply, result, completed>>
vars == <<mode, packet, stage, now, loaded, work>>

Statuses == {"explicit", "interpreted", "unclear"}
Stages ==
  {"load", "media", "call", "parse", "complete", "persist", "stored", "reused", "failed"}
NoReply == [form |-> "none"]

TypeOK ==
  /\ mode \in {"worker", "cached", "interactive"} /\ packet \in Packets
  /\ stage \in Stages /\ {now, loaded, bytes, asked} \subseteq Nat
  /\ next \in 1..Len(packet) + 1 /\ seen \subseteq 1..next - 1
  /\ ask \in 0..2 /\ tries \in 0..MaxAttempts
  /\ reply \in Replies \cup {NoReply}
  /\ result # NoReply =>
       /\ result.review \in BOOLEAN /\ DOMAIN result.lines \subseteq 1..MaxLines
       /\ \A n \in DOMAIN result.lines :
            /\ result.lines[n].status \in Statuses
            /\ result.lines[n].cites \subseteq {packet[k].id : k \in 1..Len(packet)}
  /\ completed \subseteq {packet[n].id : n \in 1..Len(packet)}

Init ==
  /\ mode \in {"worker", "cached", "interactive"} /\ packet \in Packets
  \* a person's request names each message once, and no more than a small packet's
  /\ mode = "interactive" => /\ Len(packet) <= LegacyMessages
                              /\ Cardinality({m.id : m \in Range(packet)}) = Len(packet)
  /\ stage = "load" /\ now = 0 /\ loaded = 0 /\ next = 1 /\ bytes = 0 /\ seen = {}
  /\ ask = 0 /\ tries = 0 /\ asked = 0 /\ reply = NoReply /\ result = NoReply
  /\ completed = {}

-----------------------------------------------------------------------------
Ids == {packet[n].id : n \in 1..Len(packet)}
Media == {n \in 1..Len(packet) : packet[n].media}
Large == Len(packet) > LegacyMessages
Worker == mode \in {"worker", "cached"}
Takes(S) == \E d \in S : now' = now + d
Before(limit) == {d \in Durations : d < limit}
Fixed == <<mode, packet>>
Give(s) == stage' = s
Fail == stage' = "failed"

\* One message that cannot be read, and there is no packet.
Loaded == Give("media") \/ Fail
Load ==
  /\ stage = "load" /\ Takes(Durations) /\ loaded' = now'
  /\ Loaded
  /\ UNCHANGED <<Fixed, work>>

(* Mutant: one fetched file vouches for every message with its provider id.  *)
Complete_ById == \A n \in Media : \E m \in seen : packet[m].id = packet[n].id

\* Every medium of a large packet was attached, message by message.
Complete == Media \subseteq seen
Ask(n) == Give("call") /\ ask' = n /\ tries' = 0 /\ asked' = now
AfterMedia ==
  IF Worker /\ Large /\ ~Complete THEN Fail /\ UNCHANGED <<ask, tries, asked>>
  ELSE IF mode = "cached" THEN Give("complete") /\ UNCHANGED <<ask, tries, asked>>
  ELSE Ask(1)
MediaDone ==
  /\ stage = "media" /\ next > Len(packet) /\ AfterMedia
  /\ UNCHANGED <<Fixed, now, loaded, next, bytes, seen, reply, result, completed>>

\* A message without media, or whose media has no address.
TakeText ==
  /\ stage = "media" /\ next <= Len(packet) /\ ~(packet[next].media /\ packet[next].url)
  /\ next' = next + 1
  /\ UNCHANGED <<Fixed, stage, now, loaded, bytes, seen, ask, tries, asked, reply, result,
                 completed>>

\* What is left of the budget, at most the timeout of a fetch.
FetchLimit ==
  LET left == MediaBudget - (now - loaded)
  IN  IF ~Worker \/ left > FetchTimeout THEN FetchTimeout ELSE IF left > 0 THEN left ELSE 0
\* The bytes of a file too many stay counted.
Fetched ==
  /\ bytes' = bytes + packet[next].size
  /\ seen' = IF bytes' > MaxBytes THEN seen ELSE seen \cup {next}
\* The worker goes on without a file it cannot have, the interactive one does not.
Skipped == IF Worker THEN stage' = stage ELSE Fail
Fetch ==
  /\ stage = "media" /\ next <= Len(packet) /\ packet[next].media /\ packet[next].url
  /\ next' = next + 1
  /\ \/ /\ Takes(Before(FetchLimit)) /\ Fetched
        /\ IF bytes' <= MaxBytes THEN UNCHANGED stage
           ELSE IF Large THEN Fail ELSE Skipped
     \/ Takes(Before(FetchLimit) \cup {FetchLimit}) /\ Skipped /\ UNCHANGED <<bytes, seen>>
  /\ UNCHANGED <<Fixed, loaded, ask, tries, asked, reply, result, completed>>

\* callGeminiGenerateContent: all its requests and pauses share one budget.
Left == CallBudget - (now - asked)
Another == tries + 1 < MaxAttempts
Call ==
  /\ stage = "call" /\ tries' = tries + 1
  /\ \/ \E r \in Replies : reply' = r /\ Left > 0 /\ Takes(Before(Left)) /\ Give("parse")
     \/ Left > 0 /\ Takes(Before(Left) \cup {Left}) /\ Fail /\ UNCHANGED reply
     \/ Left <= 0 /\ UNCHANGED <<now, reply>> /\ Fail
     \* A transient status; another request only when the pause leaves time for it.
     \/ \E d \in Before(Left) :
          /\ UNCHANGED reply
          /\ IF Another /\ Left - d > Delay
               THEN now' = now + d + Delay /\ UNCHANGED stage
               ELSE now' = now + d /\ Fail
  /\ UNCHANGED <<Fixed, loaded, next, bytes, seen, ask, asked, result, completed>>

-----------------------------------------------------------------------------
(* The sanitizer.                                                            *)

\* Of a list only so many entries are looked at.
Looked(s, limit) == {n \in 1..Len(s) : n <= limit}
Cited(line) == {line.cites[n] : n \in Looked(line.cites, MaxCites)}
\* A line without product and quantity is dropped; the others keep their place here,
\* while the program's list closes the gaps.
Kept(r) == {n \in Looked(r.lines, MaxLines) : r.lines[n].named \/ r.lines[n].quantity}
(* Mutant: one id of the packet proves a line, whatever else it cites.       *)
Unproven_ByOne(line) ==
  line.named /\ line.status = "explicit" /\ Cited(line) \cap Ids = {}

Unproven(line) ==
  ~(Cited(line) \subseteq Ids) \/ (line.named /\ line.status = "explicit" /\ Cited(line) = {})
\* A correction or a fact of another packet; one that names no message is just dropped.
Foreign(items, limit) ==
  \E n \in Looked(items, limit) : items[n].stated /\ items[n].from \notin Ids \cup {Blank}
\* A line keeps its status when it names a product and proves what it says.
Sanitized(r) ==
  [n \in Kept(r) |->
     LET line == r.lines[n]
         final == line.named /\ ~Unproven(line) /\ ~Foreign(r.corrections, MaxCorrections)
     IN  [status |-> IF final THEN line.status ELSE "unclear", cites |-> Cited(line) \cap Ids]]
Isolated(r) ==
  \/ Foreign(r.corrections, MaxCorrections) \/ Foreign(r.facts, MaxFacts)
  \/ \E n \in Kept(r) : Unproven(r.lines[n])
\* The worker leaves nothing to the model; otherwise a warning calls for people.
NeedsReview(r) == Worker \/ r.review \/ Isolated(r) \/ ~Complete

\* The worker wants the whole schema, the interactive interpreter any JSON.
Usable(r) == r.form = "schema" \/ (~Worker /\ r.form = "json")

(* Mutant: the second question only has to begin within the lease.           *)
Reask_Begins == Worker /\ ask = 1 /\ Lease - Margin - now > 0

\* interpretWithRecovery: a second question must fit into the lease with its budget.
Reask == Worker /\ ask = 1 /\ Lease - Margin - CallBudget - now > 0
Parse ==
  /\ stage = "parse"
  /\ \/ /\ Usable(reply)
        /\ result' = [lines |-> Sanitized(reply), review |-> NeedsReview(reply)]
        /\ Give(IF Worker THEN "complete" ELSE "stored") /\ UNCHANGED <<ask, tries, asked>>
     \/ /\ ~Usable(reply) /\ UNCHANGED result
        /\ \/ Reask /\ Ask(2)
           \/ ~Reask /\ Fail /\ UNCHANGED <<ask, tries, asked>>
  /\ UNCHANGED <<Fixed, now, loaded, next, bytes, seen, reply, completed>>

\* completeMediaSequentially: each provider id once; the first failure ends it.
CompleteMedia ==
  LET open == {packet[n].id : n \in seen} \ completed
  IN  /\ stage = "complete" /\ Takes(Durations)
      /\ \/ \E id \in open : completed' = completed \cup {id} /\ UNCHANGED stage
         \/ /\ open = {} /\ UNCHANGED completed
            /\ Give(IF mode = "cached" THEN "reused" ELSE "persist")
         \/ Fail /\ UNCHANGED completed
      /\ now' <= Lease + CallBudget   \* bound on the clock
      /\ UNCHANGED <<Fixed, loaded, next, bytes, seen, ask, tries, asked, reply, result>>

\* The database refuses a result whose lease has run out.
Persist ==
  /\ stage = "persist"
  /\ Give(IF now < Lease THEN "stored" ELSE "failed") \/ Fail
  /\ UNCHANGED <<Fixed, now, loaded, work>>

Next ==
  Load \/ MediaDone \/ TakeText \/ Fetch \/ Call \/ Parse \/ CompleteMedia \/ Persist
Spec == Init /\ [][Next]_vars

-----------------------------------------------------------------------------
(* Properties.                                                               *)

\* Asking the model never takes a packet out of its lease: the first question is
\* over within the two budgets after loading, a repeated one within the lease.
QuestionsFitTheLease ==
  Worker /\ stage \in {"call", "parse"} =>
    now <= IF ask = 2 THEN Lease - Margin ELSE loaded + MediaBudget + CallBudget

\* No interpretation is stored or reused over hidden evidence: a large packet was seen
\* as a whole, message by message, and a result over unseen media is for people to review.
UnseenIsKnown ==
  /\ stage = "stored" => Media \subseteq seen \/ (result.review /\ ~(Worker /\ Large))
  /\ stage = "reused" /\ Large => Media \subseteq seen

\* An order line only stays explicit when the packet proves it: it names a product, what
\* the sanitizer looked at of its evidence is of the packet, and no correction it looked
\* at comes from another.  (A correction that names no message is dropped too, but leaves
\* the lines as they are, although the sanitizer's comment says that none is then final.)
ExplicitIsProven ==
  result # NoReply => \A n \in DOMAIN result.lines :
    result.lines[n].status = "explicit" =>
      /\ reply.lines[n].named /\ Cited(reply.lines[n]) # {} /\ Cited(reply.lines[n]) \subseteq Ids
      /\ \A k \in Looked(reply.corrections, MaxCorrections) :
           reply.corrections[k].stated => reply.corrections[k].from \in Ids \cup {Blank}

\* What nobody is asked to review rests on the packet alone, all media seen: no line,
\* fact or correction of another packet had to be cut from it.
IsolationIsReviewed ==
  result # NoReply /\ ~result.review =>
    /\ Media \subseteq seen
    /\ \A n \in DOMAIN result.lines : Cited(reply.lines[n]) \subseteq Ids
    /\ \A k \in Looked(reply.facts, MaxFacts) :
         reply.facts[k].stated => reply.facts[k].from \in Ids \cup {Blank}
    /\ \A k \in Looked(reply.corrections, MaxCorrections) :
         reply.corrections[k].stated => reply.corrections[k].from \in Ids \cup {Blank}

\* What is stored neither hides nor invents evidence.
ResultsAreProven == UnseenIsKnown /\ ExplicitIsProven /\ IsolationIsReviewed
=============================================================================

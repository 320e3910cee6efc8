---------------------- MODULE PacketInterpretationProofs ----------------------
(* The interpretation of one packet, for every packet, every answer of the   *)
(* model and every setting of the budgets: its questions stay inside the      *)
(* lease, and what it stores neither hides nor invents evidence.              *)
EXTENDS PacketInterpretation, TLAPS

Asking == stage \in {"call", "parse"}
Answered == mode # "cached" /\ stage \in {"complete", "persist", "stored"}
Reusing == mode = "cached" /\ stage \in {"complete", "reused"}

(* While the worker fetches media or asks, the clock is within its budgets.   *)
WithinBudgets ==
  Worker =>
    /\ stage = "media" => now <= loaded + MediaBudget
    /\ Asking => /\ now <= asked + CallBudget
                 /\ ask = 1 => asked <= loaded + MediaBudget
                 /\ ask = 2 => asked + CallBudget <= Lease - Margin

(* A large packet that got past its media was seen as a whole, and a stored   *)
(* result that saw less calls for people.                                     *)
MediaAccounted ==
  /\ Worker /\ Large /\ (Asking \/ Answered \/ Reusing) => Media \subseteq seen
  /\ Answered => Media \subseteq seen \/ result.review

(* There is no result before an answer was usable; then it is what the        *)
(* sanitizer left of that answer, and the answer stays.                       *)
ResultFromReply ==
  /\ stage \in {"load", "media", "call", "parse"} => result = NoReply
  /\ Answered => result # NoReply
  /\ stage = "parse" => reply \in Replies
  /\ result # NoReply =>
       /\ reply \in Replies /\ result.lines = Sanitized(reply) /\ result.review \in BOOLEAN
       /\ Isolated(reply) \/ ~(Media \subseteq seen) => result.review

(* The types of everything but the result, which ResultFromReply describes.   *)
Clocks == now \in Nat /\ loaded \in Nat /\ bytes \in Nat /\ asked \in Nat
Counters ==
  /\ mode \in {"worker", "cached", "interactive"} /\ packet \in Packets
  /\ stage \in Stages
  /\ stage \in {"call", "parse", "persist", "stored"} => mode # "cached"
  /\ stage = "reused" => mode = "cached"
  /\ next \in 1..Len(packet) + 1 /\ seen \subseteq 1..next - 1
  /\ ask \in 0..2 /\ (Asking => ask # 0)
  /\ tries \in 0..MaxAttempts /\ (stage = "call" => tries < MaxAttempts)
  /\ reply \in Replies \cup {NoReply}
  /\ completed \subseteq Ids

IInv == Clocks /\ Counters /\ WithinBudgets /\ MediaAccounted /\ ResultFromReply

-----------------------------------------------------------------------------
(* The sanitizer.                                                             *)

(* A result has lines where the sanitizer looked and kept one; each cites     *)
(* the packet, and keeps its status only if it names a product and is proven, *)
(* in an answer without a foreign correction.                                 *)
LEMMA SanitizedFields ==
  ASSUME InterpretationAssumption, NEW r \in Replies
  PROVE  /\ DOMAIN Sanitized(r) = Kept(r) /\ Kept(r) \subseteq 1..Len(r.lines)
         /\ Kept(r) \subseteq 1..MaxLines
         /\ \A n \in Kept(r) :
              /\ Sanitized(r)[n].cites \subseteq Ids
              /\ Sanitized(r)[n].status =
                   IF /\ r.lines[n].named /\ ~Unproven(r.lines[n])
                      /\ ~Foreign(r.corrections, MaxCorrections)
                     THEN r.lines[n].status ELSE "unclear"
<1>1. Len(r.lines) \in Nat /\ MaxLines \in Nat
  BY DEF InterpretationAssumption
<1>2. Kept(r) \subseteq 1..Len(r.lines) /\ Kept(r) \subseteq 1..MaxLines
  BY <1>1 DEF Kept, Looked
<1> QED BY <1>2 DEF Sanitized

(* What the sanitizer makes of an answer depends on nothing that changes.     *)
LEMMA SanitizedKept ==
  ASSUME UNCHANGED <<packet, reply>>
  PROVE  /\ Sanitized(reply)' = Sanitized(reply) /\ Isolated(reply)' = Isolated(reply)
         /\ Media' = Media
BY DEF Media, Isolated, Sanitized, Unproven, Foreign, Kept, Cited, Looked, Ids

-----------------------------------------------------------------------------
(* The steps.                                                                 *)

(* The settings are numbers.                                                  *)
LEMMA Settings ==
  ASSUME InterpretationAssumption PROVE /\ LegacyMessages \in Nat /\ MaxBytes \in Nat /\ MediaBudget \in Nat
  /\ FetchTimeout \in Nat /\ CallBudget \in Nat /\ Delay \in Nat
  /\ MaxAttempts \in Nat /\ MaxAttempts # 0 /\ Lease \in Nat /\ Margin \in Nat
  /\ MaxLines \in Nat /\ MaxCites \in Nat /\ MaxCorrections \in Nat /\ MaxFacts \in Nat /\ Durations \subseteq Nat
BY DEF InterpretationAssumption

(* A packet is a list of messages with sizes.                                 *)
LEMMA PacketFields ==
  ASSUME InterpretationAssumption PROVE \A p \in Packets : Len(p) \in Nat /\ \A n \in 1..Len(p) : p[n].size \in Nat
BY DEF InterpretationAssumption

(* Every request begins within its invariant.                                 *)
LEMMA InitIInv ==
  ASSUME InterpretationAssumption, Init
  PROVE  IInv
<1>1. Clocks /\ WithinBudgets /\ MediaAccounted
  BY DEF Init, Clocks, WithinBudgets, MediaAccounted, Asking, Answered, Reusing
<1>2. ResultFromReply
  BY DEF Init, ResultFromReply, Answered
<1>3. Counters
  BY Settings, PacketFields DEF Init, Counters, Asking, Stages
<1> QED BY <1>1, <1>2, <1>3 DEF IInv

(* A step that touches neither packet, media, questions nor answer and does   *)
(* not lead back into the questions.                                          *)
LEMMA StageKeeps ==
  ASSUME IInv, stage' \in Stages, now' \in Nat,
         UNCHANGED <<mode, packet, loaded, next, bytes, seen, ask, tries, asked, reply, result>>,
         completed' \subseteq Ids, stage' \notin {"load", "media", "call", "parse"},
         mode # "cached" /\ stage' \in {"complete", "persist", "stored"} => Answered,
         mode = "cached" /\ stage' \in {"complete", "reused"} => Reusing,
         stage' \in {"persist", "stored"} => mode # "cached",
         stage' = "reused" => mode = "cached"
  PROVE  IInv'
<1>1. Clocks' /\ WithinBudgets' /\ MediaAccounted'
  BY DEF IInv, Clocks, WithinBudgets, MediaAccounted, Asking, Answered, Reusing, Media, Large, Worker
<1>2. Counters'
  BY DEF IInv, Counters, Asking, Ids
<1>3. ResultFromReply'
  BY SanitizedKept DEF IInv, ResultFromReply, Answered, Stages, Counters
<1> QED BY <1>1, <1>2, <1>3 DEF IInv

(* The packet is loaded, or it is not.                                        *)
LEMMA LoadKeeps ==
  ASSUME InterpretationAssumption, IInv, Load
  PROVE  IInv'
<1>1. /\ stage = "load" /\ stage' \in {"media", "failed"} /\ now' \in Nat /\ loaded' = now'
      /\ UNCHANGED <<mode, packet, next, bytes, seen, ask, tries, asked, reply, result, completed>>
  BY Settings DEF Load, Loaded, Give, Fail, Takes, Fixed, work, IInv, Clocks
<1>2. Clocks' /\ WithinBudgets' /\ MediaAccounted'
  <2>1. Clocks'
    BY <1>1 DEF IInv, Clocks
  <2>2. WithinBudgets'
    <3>1. now' <= loaded' + MediaBudget
      <4>1. PICK n \in Nat : now' = n /\ loaded' = n
        BY <1>1
      <4> QED BY <4>1, Settings
    <3>2. ~Asking'
      BY <1>1 DEF Asking
    <3> QED BY <3>1, <3>2 DEF WithinBudgets
  <2>3. MediaAccounted'
    BY <1>1 DEF IInv, MediaAccounted, Asking, Answered, Reusing
  <2> QED BY <2>1, <2>2, <2>3
<1>3. Counters'
  BY <1>1 DEF IInv, Counters, Asking, Ids, Stages
<1>4. ResultFromReply'
  BY <1>1 DEF IInv, ResultFromReply, Answered
<1> QED BY <1>2, <1>3, <1>4 DEF IInv

(* The media phase ends in the first question, or in a refusal.               *)
LEMMA MediaDoneKeeps ==
  ASSUME InterpretationAssumption, IInv, MediaDone
  PROVE  IInv'
<1>1. /\ stage = "media"
      /\ UNCHANGED <<mode, packet, now, loaded, next, bytes, seen, reply, result, completed>>
      /\ \/ stage' = "failed" /\ UNCHANGED <<ask, tries, asked>>
         \/ /\ stage' = "call" /\ ask' = 1 /\ tries' = 0 /\ asked' = now
            /\ mode # "cached"
         \/ stage' = "complete" /\ mode = "cached" /\ UNCHANGED <<ask, tries, asked>>
      /\ stage' \in {"call", "complete"} => (Worker /\ Large => Media \subseteq seen)
  BY DEF MediaDone, AfterMedia, Ask, Give, Fail, Fixed, Complete
<1>2. Clocks' /\ WithinBudgets'
  BY <1>1, Settings DEF IInv, Clocks, WithinBudgets, Asking, Worker
<1>3. MediaAccounted'
  BY <1>1 DEF IInv, MediaAccounted, Asking, Answered, Reusing, Media, Large, Worker
<1>4. Counters'
  <2>1. stage' \in Stages /\ ask' \in 0..2 /\ tries' \in 0..MaxAttempts
    BY <1>1, Settings, SMTT(30) DEF IInv, Counters, Stages
  <2>2. (Asking => ask # 0)' /\ (stage = "call" => tries < MaxAttempts)'
    BY <1>1, Settings DEF Asking
  <2> QED BY <1>1, <2>1, <2>2 DEF IInv, Counters, Ids
<1>5. ResultFromReply'
  BY <1>1 DEF IInv, ResultFromReply, Answered
<1> QED BY <1>2, <1>3, <1>4, <1>5 DEF IInv

(* A message without media that can be fetched is passed over.                *)
LEMMA TakeTextKeeps ==
  ASSUME InterpretationAssumption, IInv, TakeText
  PROVE  IInv'
<1>1. /\ stage = "media" /\ stage' = "media" /\ next <= Len(packet) /\ next' = next + 1
      /\ UNCHANGED <<mode, packet, now, loaded, bytes, seen, ask, tries, asked, reply, result,
                     completed>>
  BY DEF TakeText, Fixed
<1>2. Clocks' /\ WithinBudgets' /\ MediaAccounted'
  BY <1>1 DEF IInv, Clocks, WithinBudgets, MediaAccounted, Asking, Answered, Reusing, Worker
<1>3. Counters'
  BY <1>1, Settings, PacketFields DEF IInv, Counters, Asking, Ids
<1>4. ResultFromReply'
  BY <1>1 DEF IInv, ResultFromReply, Answered
<1> QED BY <1>2, <1>3, <1>4 DEF IInv

(* A fetch ends within its limit, and the limit within the media budget.      *)
LEMMA FetchKeeps ==
  ASSUME InterpretationAssumption, IInv, Fetch
  PROVE  IInv'
<1>1. /\ stage = "media" /\ next \in 1..Len(packet) /\ next' = next + 1
      /\ stage' \in {"media", "failed"}
      /\ UNCHANGED <<mode, packet, loaded, ask, tries, asked, reply, result, completed>>
  BY Settings, PacketFields DEF Fetch, Fixed, Skipped, Fail, IInv, Counters
<1>2. FetchLimit \in Nat /\ (Worker => FetchLimit = 0 \/ now + FetchLimit <= loaded + MediaBudget)
  BY Settings DEF FetchLimit, IInv, Clocks
<1>3. now' \in Nat /\ now' <= now + FetchLimit
  <2>1. PICK d \in Durations \cup {FetchLimit} : d <= FetchLimit /\ now' = now + d
    <3>1. \E d \in Before(FetchLimit) \cup {FetchLimit} : now' = now + d
      BY DEF Fetch, Takes
    <3>2. \A d \in Before(FetchLimit) : d \in Durations /\ d <= FetchLimit
      BY <1>2, Settings DEF Before
    <3>3. FetchLimit <= FetchLimit
      BY <1>2
    <3> QED BY <3>1, <3>2, <3>3
  <2>2. d \in Nat /\ now \in Nat
    BY <1>2, <2>1, Settings DEF IInv, Clocks
  <2> HIDE DEF FetchLimit
  <2> QED BY <1>2, <2>1, <2>2
<1>4. bytes' \in Nat /\ seen' \subseteq seen \cup {next}
  <2>1. packet[next].size \in Nat /\ bytes \in Nat
    BY <1>1, PacketFields DEF IInv, Clocks, Counters
  <2>2. Fetched \/ UNCHANGED <<bytes, seen>>
    BY DEF Fetch
  <2> QED BY <2>1, <2>2 DEF Fetched
<1>5. Clocks' /\ WithinBudgets' /\ MediaAccounted'
  <2>1. Worker /\ stage' = "media" => now' <= loaded + MediaBudget
    <3>1. now \in Nat /\ loaded \in Nat /\ (Worker => now <= loaded + MediaBudget)
      BY <1>1 DEF IInv, Clocks, WithinBudgets
    <3> HIDE DEF FetchLimit, Worker
    <3> QED BY <1>2, <1>3, <3>1, Settings
  <2>2. Clocks'
    BY <1>1, <1>3, <1>4 DEF IInv, Clocks
  <2>3. WithinBudgets'
    BY <1>1, <2>1 DEF WithinBudgets, Asking, Worker
  <2>4. MediaAccounted'
    BY <1>1 DEF MediaAccounted, Asking, Answered, Reusing
  <2> QED BY <2>2, <2>3, <2>4
<1>6. Counters'
  BY <1>1, <1>4, Settings, PacketFields, SMTT(30) DEF IInv, Counters, Asking, Ids, Stages
<1>7. ResultFromReply'
  BY <1>1 DEF IInv, ResultFromReply, Answered
<1> QED BY <1>5, <1>6, <1>7 DEF IInv

(* A request to the model ends within the budget of its question.             *)
LEMMA CallKeeps ==
  ASSUME InterpretationAssumption, IInv, Call
  PROVE  IInv'
<1>1. /\ stage = "call" /\ tries' = tries + 1
      /\ UNCHANGED <<mode, packet, loaded, next, bytes, seen, ask, asked, result, completed>>
      /\ \/ stage' = "failed"
         \/ stage' = "parse" /\ reply' \in Replies
         \/ stage' = "call" /\ tries' < MaxAttempts
      /\ reply' \in Replies \cup {NoReply}
  BY Settings DEF Call, Another, Give, Fail, Fixed, IInv, Counters
<1>2. now' \in Nat /\ now' <= now + (IF Left > 0 THEN Left ELSE 0)
  BY Settings DEF Call, Takes, Before, Left, IInv, Clocks
<1>3. Clocks' /\ WithinBudgets'
  <2>1. Worker => now' <= asked + CallBudget
    BY <1>1, <1>2, Settings DEF IInv, Clocks, WithinBudgets, Asking, Left
  <2>2. Clocks'
    BY <1>1, <1>2 DEF IInv, Clocks
  <2>3. WithinBudgets'
    BY <1>1, <2>1 DEF IInv, WithinBudgets, Asking, Worker
  <2> QED BY <2>2, <2>3
<1>4. MediaAccounted'
  BY <1>1 DEF IInv, MediaAccounted, Asking, Answered, Reusing, Media, Large, Worker
<1>5. Counters'
  BY <1>1, Settings, PacketFields, SMTT(30) DEF IInv, Counters, Asking, Ids, Stages
<1>6. ResultFromReply'
  BY <1>1 DEF IInv, ResultFromReply, Answered
<1> QED BY <1>3, <1>4, <1>5, <1>6 DEF IInv

(* A usable answer becomes the result; another is asked again if it fits.     *)
LEMMA ParseKeeps ==
  ASSUME InterpretationAssumption, IInv, Parse
  PROVE  IInv'
<1>1. /\ stage = "parse" /\ reply \in Replies /\ result = NoReply
      /\ UNCHANGED <<mode, packet, now, loaded, next, bytes, seen, reply, completed>>
  BY DEF Parse, Fixed, IInv, ResultFromReply
<1>2. ASSUME result' = [lines |-> Sanitized(reply), review |-> NeedsReview(reply)], mode # "cached",
             stage' = (IF Worker THEN "complete" ELSE "stored"), UNCHANGED <<ask, tries, asked>>
      PROVE  IInv'
  <2>1. /\ result'.lines = Sanitized(reply)'
        /\ result'.review = NeedsReview(reply) /\ result' # NoReply
    <3>1. result'.lines = Sanitized(reply) /\ result'.review = NeedsReview(reply)
      BY <1>2
    <3>2. "lines" \in DOMAIN result' /\ "lines" \notin DOMAIN NoReply
      BY <1>2 DEF NoReply
    <3> QED BY <1>1, <3>1, <3>2, SanitizedKept
  <2>2. NeedsReview(reply) \in BOOLEAN
    BY <1>1, Settings DEF NeedsReview, Worker, Isolated, Complete, Unproven, Foreign
  <2>3. Worker \/ ~Complete \/ Isolated(reply) => NeedsReview(reply)
    BY DEF NeedsReview
  <2>4. Clocks' /\ WithinBudgets'
    BY <1>1, <1>2 DEF IInv, Clocks, WithinBudgets, Asking, Worker
  <2>5. MediaAccounted'
    BY <1>1, <1>2, <2>1, <2>3 DEF IInv, MediaAccounted, Asking, Answered, Reusing, Media, Large,
              Worker, Complete
  <2>6. Counters'
    BY <1>1, <1>2 DEF IInv, Counters, Asking, Ids, Stages
  <2>7. ResultFromReply'
    <3>1. Isolated(reply)' \/ ~(Media' \subseteq seen') => result'.review
      BY <1>1, <2>1, <2>3, SanitizedKept DEF Complete
    <3>2. stage' \in {"complete", "stored"}
      BY <1>2
    <3> QED BY <1>1, <2>1, <2>2, <3>1, <3>2 DEF ResultFromReply, Answered
  <2> QED BY <2>4, <2>5, <2>6, <2>7 DEF IInv
<1>3. ASSUME Reask, stage' = "call", ask' = 2, tries' = 0, asked' = now, result' = result
      PROVE  IInv'
  <2>1. Worker => now + CallBudget <= Lease - Margin
    BY <1>3, Settings DEF Reask, IInv, Clocks
  <2>2. Clocks' /\ WithinBudgets'
    BY <1>1, <1>3, <2>1, Settings DEF IInv, Clocks, WithinBudgets, Asking, Worker
  <2>3. MediaAccounted'
    BY <1>1, <1>3 DEF IInv, MediaAccounted, Asking, Answered, Reusing, Media, Large, Worker
  <2>4. Counters'
    BY <1>1, <1>3, Settings, PacketFields DEF IInv, Counters, Asking, Ids, Stages
  <2>5. ResultFromReply'
    BY <1>1, <1>3 DEF ResultFromReply, Answered
  <2> QED BY <2>2, <2>3, <2>4, <2>5 DEF IInv
<1>4. ASSUME stage' = "failed", UNCHANGED <<ask, tries, asked, result>>
      PROVE  IInv'
  BY <1>1, <1>4, StageKeeps DEF IInv, Clocks, Counters, Stages
<1>5. mode # "cached"
  BY <1>1 DEF IInv, Counters
<1> QED BY <1>2, <1>3, <1>4, <1>5 DEF Parse, Ask, Give, Fail

(* Reporting media and storing the result change neither.                     *)
LEMMA ClosingKeeps ==
  ASSUME InterpretationAssumption, IInv, CompleteMedia \/ Persist
  PROVE  IInv'
<1>1. CASE CompleteMedia
  <2>1. /\ stage = "complete" /\ now' \in Nat
        /\ stage' \in {"complete", "failed", IF mode = "cached" THEN "reused" ELSE "persist"}
        /\ UNCHANGED <<mode, packet, loaded, next, bytes, seen, ask, tries, asked, reply, result>>
    BY <1>1, Settings DEF CompleteMedia, Takes, Give, Fail, Fixed, IInv, Clocks
  <2>2. completed' \subseteq Ids
    <3>1. \A n \in seen : packet[n].id \in Ids
      BY PacketFields DEF IInv, Counters, Ids
    <3>2. completed \subseteq Ids
      BY DEF IInv, Counters
    <3> QED BY <1>1, <3>1, <3>2 DEF CompleteMedia
  <2> QED BY <2>1, <2>2, StageKeeps DEF Stages, Answered, Reusing
<1>2. CASE Persist
  BY <1>2, StageKeeps DEF Persist, Give, Fail, Fixed, work, IInv, Clocks, Counters, Stages, Answered,
    Reusing
<1> QED BY <1>1, <1>2

(* Every step keeps the invariant.                                            *)
LEMMA StepIInv ==
  ASSUME InterpretationAssumption, IInv, [Next]_vars
  PROVE  IInv'
<1>1. CASE UNCHANGED vars
  <2>1. UNCHANGED <<mode, packet, stage, now, loaded, next, bytes, seen, ask, tries, asked,
                    reply, result, completed>>
    BY <1>1 DEF vars, work
  <2>2. Clocks' /\ WithinBudgets' /\ MediaAccounted'
    BY <2>1 DEF IInv, Clocks, WithinBudgets, MediaAccounted, Asking, Answered, Reusing, Media, Large, Worker
  <2>3. Counters'
    BY <2>1 DEF IInv, Counters, Asking, Ids
  <2>4. ResultFromReply'
    BY <2>1, SanitizedKept DEF IInv, ResultFromReply, Answered
  <2> QED BY <2>2, <2>3, <2>4 DEF IInv
<1> QED BY <1>1, LoadKeeps, MediaDoneKeeps, TakeTextKeeps, FetchKeeps, CallKeeps, ParseKeeps,
           ClosingKeeps DEF Next

-----------------------------------------------------------------------------
(* The theorems.                                                              *)

(* The invariant of a request, for every packet and every answer.             *)
LEMMA IInvHolds == ASSUME InterpretationAssumption PROVE Spec => []IInv
<1>1. Init => IInv
  BY InitIInv
<1>2. IInv /\ [Next]_vars => IInv'
  BY StepIInv
<1> QED BY <1>1, <1>2, PTL DEF Spec

(* What a request holds is always well formed: the lines of its result stand  *)
(* where the sanitizer looks, cite the packet and have one of three statuses. *)
THEOREM InterpretationTypeCorrect == ASSUME InterpretationAssumption PROVE Spec => []TypeOK
<1>1. ASSUME IInv, result # NoReply
      PROVE  /\ result.review \in BOOLEAN /\ DOMAIN result.lines \subseteq 1..MaxLines
             /\ \A n \in DOMAIN result.lines :
                  /\ result.lines[n].status \in Statuses /\ result.lines[n].cites \subseteq Ids
  <2>1. reply \in Replies /\ result.lines = Sanitized(reply) /\ result.review \in BOOLEAN
    BY <1>1 DEF IInv, ResultFromReply
  <2>2. \A n \in Kept(reply) : reply.lines[n].status \in Statuses
    BY <2>1, SanitizedFields DEF Statuses, InterpretationAssumption
  <2> QED BY <2>1, <2>2, SanitizedFields DEF Statuses
<1>2. IInv => TypeOK
  BY <1>1 DEF IInv, Clocks, Counters, TypeOK, Ids
<1> QED BY <1>2, IInvHolds, PTL

(* Asking the model never takes a packet out of its lease.                    *)
THEOREM QuestionsStayInLease == ASSUME InterpretationAssumption PROVE Spec => []QuestionsFitTheLease
<1>1. ASSUME IInv, Worker, stage \in {"call", "parse"}
      PROVE  now <= IF ask = 2 THEN Lease - Margin ELSE loaded + MediaBudget + CallBudget
  <2>1. ask = 1 \/ ask = 2
    BY <1>1 DEF IInv, Counters, Asking
  <2>2. now \in Nat /\ loaded \in Nat /\ asked \in Nat
    BY <1>1 DEF IInv, Clocks
  <2>3. /\ now <= asked + CallBudget
        /\ ask = 1 => asked <= loaded + MediaBudget
        /\ ask = 2 => asked + CallBudget <= Lease - Margin
    BY <1>1 DEF IInv, WithinBudgets, Asking
  <2> QED BY <2>1, <2>2, <2>3, Settings
<1>2. IInv => QuestionsFitTheLease
  BY <1>1 DEF QuestionsFitTheLease
<1> QED BY <1>2, IInvHolds, PTL

(* What is stored neither hides evidence nor calls explicit what the packet   *)
(* does not prove, and what nobody is asked to review rests on it alone.      *)
THEOREM StoredResultsAreProven == ASSUME InterpretationAssumption PROVE Spec => []ResultsAreProven
<1>1. ASSUME IInv PROVE UnseenIsKnown
  BY <1>1 DEF IInv, Counters, MediaAccounted, Answered, Reusing, Worker, UnseenIsKnown
<1>2. ASSUME IInv PROVE ExplicitIsProven
  <2> SUFFICES ASSUME result # NoReply, NEW n \in DOMAIN result.lines,
                      result.lines[n].status = "explicit"
               PROVE  /\ reply.lines[n].named
                      /\ Cited(reply.lines[n]) # {} /\ Cited(reply.lines[n]) \subseteq Ids
                      /\ \A k \in Looked(reply.corrections, MaxCorrections) :
                           reply.corrections[k].stated =>
                             reply.corrections[k].from \in Ids \cup {Blank}
    BY DEF ExplicitIsProven
  <2>1. reply \in Replies /\ result.lines = Sanitized(reply)
    BY <1>2 DEF IInv, ResultFromReply
  <2>2. /\ reply.lines[n].named /\ ~Unproven(reply.lines[n])
        /\ ~Foreign(reply.corrections, MaxCorrections) /\ reply.lines[n].status = "explicit"
    BY <2>1, SanitizedFields
  <2>3. Cited(reply.lines[n]) # {} /\ Cited(reply.lines[n]) \subseteq Ids
    BY <2>2 DEF Unproven
  <2> QED BY <2>2, <2>3 DEF Foreign
<1>3. ASSUME IInv PROVE IsolationIsReviewed
  <2> SUFFICES ASSUME result # NoReply, ~result.review
               PROVE  /\ Media \subseteq seen
                      /\ \A n \in DOMAIN result.lines : Cited(reply.lines[n]) \subseteq Ids
                      /\ ~Foreign(reply.facts, MaxFacts)
                      /\ ~Foreign(reply.corrections, MaxCorrections)
    BY DEF IsolationIsReviewed, Foreign
  <2>1. /\ reply \in Replies /\ result.lines = Sanitized(reply)
        /\ Media \subseteq seen /\ ~Isolated(reply)
    BY <1>3 DEF IInv, ResultFromReply
  <2>2. \A n \in Kept(reply) : Cited(reply.lines[n]) \subseteq Ids
    BY <2>1 DEF Isolated, Unproven
  <2> QED BY <2>1, <2>2, SanitizedFields DEF Isolated
<1>4. IInv => ResultsAreProven
  BY <1>1, <1>2, <1>3 DEF ResultsAreProven
<1> QED BY <1>4, IInvHolds, PTL
=============================================================================

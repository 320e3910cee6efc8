------------------------------ MODULE ReplyPromise ------------------------------
(***************************************************************************)
(* What the outbox promises of every reply, without leases, retries,       *)
(* ticks, requests or scans: messages are begun one after the other and    *)
(* only while the reply is owed; it comes to rest as what became of its    *)
(* newest message, in doubt when nobody can know; and from then on it      *)
(* changes only by what the provider says of the message on record.        *)
(***************************************************************************)
EXTENDS Naturals

CONSTANT Replies

VARIABLES
    phase,    \* of each reply
    begun,    \* how many messages were begun for it
    record,   \* the number of the message on record, 0 for none
    open,     \* the messages under way to the provider
    taken,    \* the messages the provider has taken
    told      \* what the provider has said of them

promiseVars == <<phase, begun, record, open, taken, told>>

Newest(r) == <<r, begun[r]>>

Init ==
    /\ phase = [r \in Replies |-> "NONE"]
    /\ begun = [r \in Replies |-> 0]
    /\ record = [r \in Replies |-> 0]
    /\ open = {} /\ taken = {} /\ told = {}

Owe(r) ==
    /\ phase[r] = "NONE"
    /\ phase' = [phase EXCEPT ![r] = "WAITING"]
    /\ UNCHANGED <<begun, record, open, taken, told>>

(* One message after the other; one that nobody has answered for may still  *)
(* be under way when the next is begun.                                     *)
Begin(r) ==
    /\ phase[r] \in {"WAITING", "TRYING"}
    /\ phase' = [phase EXCEPT ![r] = "TRYING"]
    /\ begun' = [begun EXCEPT ![r] = @ + 1]
    /\ open' = open \union {<<r, begun[r] + 1>>}
    /\ UNCHANGED <<record, taken, told>>

(* A message under way arrives or is lost, whatever became of its reply.    *)
Arrive(m) ==
    /\ m \in open
    /\ open' = open \ {m}
    /\ taken' \in {taken, taken \union {m}}
    /\ UNCHANGED <<phase, begun, record, told>>

Accept(r) ==
    /\ phase[r] = "TRYING" /\ Newest(r) \in taken
    /\ phase' = [phase EXCEPT ![r] = "TAKEN"]
    /\ record' = [record EXCEPT ![r] = begun[r]]
    /\ UNCHANGED <<begun, open, taken, told>>

(* The newest message was turned down: another may follow, or none will.    *)
TurnDown(r) ==
    /\ phase[r] = "TRYING" /\ Newest(r) \notin open \union taken
    /\ \E p \in {"WAITING", "FAILED"} : phase' = [phase EXCEPT ![r] = p]
    /\ UNCHANGED <<begun, record, open, taken, told>>

(* Nobody can know whether the newest message was taken: none follows it.   *)
Doubt(r) ==
    /\ phase[r] = "TRYING" /\ Newest(r) \notin open
    /\ phase' = [phase EXCEPT ![r] = "IN_DOUBT"]
    /\ UNCHANGED <<begun, record, open, taken, told>>

Withhold(r) ==
    /\ phase[r] \in {"WAITING", "TRYING", "IN_DOUBT"}
    /\ phase' = [phase EXCEPT ![r] = "WITHHELD"]
    /\ UNCHANGED <<begun, record, open, taken, told>>

Tell(e) ==
    /\ e.message \in taken
    /\ told' = told \union {e}
    /\ UNCHANGED <<phase, begun, record, open, taken>>

(* The provider's word on the message on record: never on another, and a    *)
(* delivery is not taken back.                                              *)
Learn(r, e) ==
    /\ e \in told /\ e.message = <<r, record[r]>>
    /\ \/ phase[r] = "TAKEN" /\ e.status \in {"DELIVERED", "READ", "FAILED"}
       \/ phase[r] = "DELIVERED" /\ e.status = "READ"
    /\ phase' = [phase EXCEPT ![r] = e.status]
    /\ UNCHANGED <<begun, record, open, taken, told>>

Next ==
    \/ \E r \in Replies :
        \/ Owe(r) \/ Begin(r) \/ Accept(r) \/ TurnDown(r) \/ Doubt(r) \/ Withhold(r)
        \/ \E e \in told : Learn(r, e)
    \/ \E m \in open : Arrive(m)
    \/ \E m \in taken, s \in {"TAKEN", "DELIVERED", "READ", "FAILED"} :
        Tell([message |-> m, status |-> s])

Spec == Init /\ [][Next]_promiseVars

(* What a reply at rest says is true of the provider: a failure that is not *)
(* the provider's own word means that the newest message never arrived and  *)
(* never will, and what is on record is the newest message, and was taken.  *)
RestIsHonest ==
    \A r \in Replies :
        /\ record[r] # 0 => record[r] = begun[r] /\ Newest(r) \in taken
        /\ phase[r] \in {"WAITING", "FAILED"} /\ record[r] = 0
            => Newest(r) \notin open \union taken
        /\ phase[r] = "IN_DOUBT" => Newest(r) \notin open
        /\ phase[r] \in {"DELIVERED", "READ", "FAILED"} /\ record[r] # 0
            => [message |-> Newest(r), status |-> phase[r]] \in told
=============================================================================

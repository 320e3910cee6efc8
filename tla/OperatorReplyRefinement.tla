------------------------ MODULE OperatorReplyRefinement ------------------------
(* The outbox implements ReplyPromise: a row that is queued or waits for its *)
(* retry is owed, one being sent is tried, and a message is under way while  *)
(* a tick posts it, whether or not the tick still has the lease.             *)
EXTENDS OperatorReply

Phase(status) ==
    CASE status = "ABSENT" -> "NONE"
      [] status \in {"QUEUED", "FAILED_RETRYABLE"} -> "WAITING"
      [] status = "SENDING" -> "TRYING"
      [] status = "ACCEPTANCE_UNKNOWN" -> "IN_DOUBT"
      [] status = "QUARANTINED" -> "WITHHELD"
      [] status = "ACCEPTED" -> "TAKEN"
      [] status = "FAILED_FINAL" -> "FAILED"
      [] OTHER -> status

UnderWay ==
    {<<workers[w].reply, workers[w].token>> :
        w \in {v \in Workers : workers[v].phase = "posting"}}

Said(e) == [message |-> e.message, status |-> Phase(e.status)]

Promise == INSTANCE ReplyPromise WITH
            phase <- [r \in Replies |-> Phase(outbox[r].status)],
            begun <- [r \in Replies |-> outbox[r].attempts],
            record <- [r \in Replies |-> outbox[r].pid],
            open <- UnderWay,
            taken <- sent,
            told <- {Said(e) : e \in reported}

(* Leases, retries, recovery, crashes, quarantine, batches of callbacks and *)
(* the scan of the early ones add nothing to the promise.                   *)
ImplementsPromise == Promise!Spec

(* What the outbox says of a reply at rest is true of the provider: one     *)
(* that failed by the consumer's own count has not reached the recipient,   *)
(* nor can its last post still do so, and the id on record is the last one. *)
RestIsHonest == Promise!RestIsHonest
=============================================================================

----------------------------- MODULE MCOperatorReply -----------------------------
(* Instances of OperatorReplyRefinement for TLC.                              *)
EXTENDS OperatorReplyRefinement, TLC
WorkerSymmetry == Permutations(Workers)

(* The order in which a scan meets the kept callbacks, that of their uuids:   *)
(* the ones of a first attempt, which may never match, come first, and a      *)
(* failure before a reading before a delivery.                                *)
UuidOrder ==
    LET place == [FAILED_FINAL |-> 1, READ |-> 2, DELIVERED |-> 3, ACCEPTED |-> 4]
    IN  [e \in Receipts |-> 4 * (NReplies * (e.message[2] - 1) + e.message[1] - 1)
                             + place[e.status]]
=============================================================================

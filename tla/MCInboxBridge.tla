---------------------------- MODULE MCInboxBridge ----------------------------
(* An instance of InboxBridge whose rows can all be read.                    *)
EXTENDS InboxBridge
MCEntry ==
  [m1 |-> [ts |-> 2, id |-> 1, kind |-> "text", key |-> "k1"],
   m2 |-> [ts |-> 4, id |-> 2, kind |-> "text", key |-> "k2"]]
=============================================================================

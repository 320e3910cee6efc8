--------------------------- MODULE MCWebhookIntake ---------------------------
(* Instances of WebhookIntake: the messages and requests TLC explores.       *)
EXTENDS WebhookIntake

Plain == [identified |-> TRUE, sender |-> "s1", text |-> TRUE, noise |-> FALSE,
          outgoing |-> FALSE, dispute |-> FALSE,
          words |-> FALSE, cues |-> {}, media |-> "none"]
Order == [Plain EXCEPT !.words = TRUE, !.media = "one"]
MCTrait ==
  [m \in Messages |->
    CASE m = "order"     -> Order
      [] m = "album"     -> [Order EXCEPT !.cues = {"SO_REFERENCE"}, !.media = "several"]
      [] m = "video"     -> [Order EXCEPT !.cues = {"PURCHASE_ORDER_DOCUMENT"},
                                          !.media = "unsupported"]
      [] m = "chat"      -> Plain
      [] m = "anonymous" -> [Plain EXCEPT !.identified = FALSE, !.media = "one"]
      [] m = "note"      -> [Plain EXCEPT !.cues = {"INTERNAL_NOTE", "COMPLAINT"},
                                          !.words = TRUE]
      [] m = "loosenote" -> [Plain EXCEPT !.cues = {"INTERNAL_NOTE"}, !.identified = FALSE]
      [] m = "dispute"   -> [Plain EXCEPT !.dispute = TRUE, !.sender = "s2"]
      [] m = "echo"      -> [Plain EXCEPT !.outgoing = TRUE]
      [] m = "orphan"    -> [Plain EXCEPT !.sender = Nobody, !.media = "one"]
      [] m = "noise"     -> [Plain EXCEPT !.noise = TRUE]]
Meta == [source |-> "meta", proof |-> "good", json |-> TRUE, malformed |-> FALSE,
         statuses |-> FALSE, messages |-> <<>>]
MCPayload ==
  [r \in Requests |->
    CASE r = "r1" -> [Meta EXCEPT !.messages = <<"chat", "order">>]
      [] r = "r2" -> [Meta EXCEPT !.messages = <<"order">>, !.statuses = TRUE]
      [] r = "r3" -> [Meta EXCEPT !.malformed = TRUE, !.messages = <<"album">>]
      [] r = "r4" -> [Meta EXCEPT !.statuses = TRUE, !.malformed = TRUE]
      [] r = "r5" -> [Meta EXCEPT !.source = "click2api", !.messages = <<"anonymous">>]
      [] r = "r6" -> [Meta EXCEPT !.messages = <<"noise", "note", "dispute", "echo", "orphan">>]
      [] r = "r7" -> [Meta EXCEPT !.source = "click2api", !.proof = "bad"]
      [] r = "r8" -> [Meta EXCEPT !.proof = "unset"]
      [] r = "r9" -> [Meta EXCEPT !.json = FALSE]
      [] r = "r10" -> [Meta EXCEPT !.messages = <<"video", "loosenote">>]]
MCTraffic == {{"r1", "r2"}, {"r3"}, {"r4", "r7"}, {"r5"}, {"r6"}, {"r8", "r9"}, {"r10"}}
=============================================================================

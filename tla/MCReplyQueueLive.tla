-------------------------- MODULE MCReplyQueueLive --------------------------
(* An answer and a batch of reports, for the liveness of ReplyQueue.       *)
EXTENDS ReplyQueue

Senders == {"ann", "bob", "bot"}

LiveKind == [r1 |-> "reply", b1 |-> "batch"]
LiveSender == [r1 |-> "ann", b1 |-> "bob"]
=============================================================================

-------------------------- MODULE MCDirectReplies --------------------------
(* A limit of two answers, and four mentions of one sender that are all    *)
(* questions about traffic.                                                *)
EXTENDS DirectReplies

OneSender == {"ann"}
FourSender == [m \in {"m1", "m2", "m3", "m4"} |-> "ann"]
AllDirect == [m \in {"m1", "m2", "m3", "m4"} |-> "direct"]
AllRedirect == [m \in {"m1", "m2", "m3", "m4"} |-> "redirect"]
=============================================================================

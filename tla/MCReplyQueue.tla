---------------------------- MODULE MCReplyQueue ----------------------------
(***************************************************************************)
(* Small populations of requests for ReplyQueue.  Which requests there are *)
(* is chosen at the start; the others never arrive.                        *)
(***************************************************************************)
EXTENDS ReplyQueue

Senders == {"ann", "bob", "bot"}

RequestKinds ==
  [r1 |-> "reply", r2 |-> "reply", b1 |-> "batch",
   a1 |-> "announcement", t1 |-> "tip", l1 |-> "alert", p1 |-> "post"]

RequestSenders ==
  [r1 |-> "ann", r2 |-> "bob", b1 |-> "bob", a1 |-> "bot", t1 |-> "bot", l1 |-> "bot", p1 |-> "bot"]

(* Two answers and a batch of reports, one more than the queue takes; and  *)
(* answers and batches beside what is sent unasked: announcements, traffic *)
(* alerts, tips, fortunes.                                                 *)
Populations ==
  {{"r1", "r2", "b1"}, {"r1", "r2", "a1"}, {"r1", "a1", "l1"}, {"r1", "t1"}, {"b1", "t1"},
   {"r1", "p1"}, {"b1", "p1"}}

MixedInit ==
  /\ AtRest
  /\ \E population \in Populations :
       pc = [r \in Request |-> IF r \in population THEN "idle" ELSE "done"]

MixedSpec == MixedInit /\ [][Next]_vars
=============================================================================

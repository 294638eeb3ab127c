-------------------------- MODULE MCAnswerPipeline --------------------------
(* One of several scripts is played, in any order of its messages.  In the *)
(* first three, three mentions of one sender, mentions by two senders and  *)
(* bounded maps, or mentions and a plain message meet under the loop guard;*)
(* the others take requests through every way an answer is made, three     *)
(* through the cooldown, and questions through /forget and a follow-up.    *)
EXTENDS AnswerPipeline

TwoSenders == {"ann", "bob"}
Mentions == {"m1", "m2", "m3", "m4"}
Plain == {"p1", "p2", "p3"}

AnnAndBob == [m \in Mentions \cup Plain |-> IF m = "m4" THEN "bob" ELSE "ann"]
MentionsDirect == [m \in Mentions \cup Plain |-> IF m \in Mentions THEN "direct" ELSE "plain"]
AllChecked == [m \in Mentions \cup Plain |-> "checked"]

Script(asks) == [m \in Mentions \cup Plain |-> IF m \in DOMAIN asks THEN asks[m] ELSE None]

ClockErrors == {-1, 0}

MixedScripts == {Script(asks) : asks \in
  { [m1 |-> "command", m2 |-> "command", m3 |-> "command"],
    [m1 |-> "command", m2 |-> "command", m4 |-> "command"],
    [m1 |-> "command", m2 |-> "command", p1 |-> "command"],
    [m1 |-> "chat", p1 |-> "chat"],
    [p1 |-> "social", p2 |-> "program"],
    [p1 |-> "web"], [p1 |-> "news"],
    [p1 |-> "travel"], [p2 |-> "score"],
    [p1 |-> "question", p2 |-> "question", p3 |-> "question"],
    [p1 |-> "forecast", p2 |-> "followup", p3 |-> "forget"] }}
=============================================================================

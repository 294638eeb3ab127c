------------------------ MODULE MCConversationStore ------------------------
EXTENDS ConversationStore

(* Two exchanges with ann and one with bob in one run of the bot; the      *)
(* other run only saves.                                                   *)
OneRun == [q1 |-> "b1", q2 |-> "b1", q3 |-> "b1"]
AnnAndBob == [q1 |-> "ann", q2 |-> "ann", q3 |-> "bob"]

(* States that differ only in how often the file was written behave alike: *)
(* a generation is compared with that of the file, and it is new after a   *)
(* write.                                                                  *)
Distinguished ==
  <<now, up, people, last, file.people, IF file.gen < MaxOther THEN file.gen ELSE MaxOther,
    {b \in Bot : gen[b] = file.gen}, req, failures, crashes, setBack, synced, forgotten>>
=============================================================================

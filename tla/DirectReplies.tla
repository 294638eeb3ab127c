--------------------------- MODULE DirectReplies ---------------------------
(***************************************************************************)
(* The loop guard of bot/service.py: replies to messages that mention the  *)
(* bot are counted per sender, so that two bots cannot answer each other   *)
(* without end.  At the limit the sender gets one notice, after it none;   *)
(* a plain message or a pause begins a new count.                          *)
(*                                                                         *)
(* A message is followed from its receipt to its transmission; that only   *)
(* one at a time is past admission is ReplyQueue's OneOwner.  Generation   *)
(* and the wait for a quiet channel lie between Admit and Send.            *)
(***************************************************************************)
EXTENDS Integers, SequencesExt

CONSTANTS
  Sender,
  Message,
  SenderOf,    (* who sends each message                                   *)
  KindOf,      (* "plain" or "direct": begins with a mention of the bot    *)
  RouteOf,     (* "checked", or "redirect": the pointer to #traffic        *)
  None,
  Limit,       (* DIRECT_REPLY_LIMIT                                       *)
  ResetAfter,  (* DIRECT_REPLY_RESET_S                                     *)
  MaxPeople,   (* person_memory_people                                     *)
  Horizon      (* bound of the clock                                       *)

ASSUME DirectAssumption ==
  /\ SenderOf \in [Message -> Sender]
  /\ KindOf \in [Message -> {"plain", "direct"}]
  /\ RouteOf \in [Message -> {"checked", "redirect"}]
  /\ None \notin Message
  /\ Limit \in Nat /\ ResetAfter \in Nat /\ MaxPeople \in Nat \ {0} /\ Horizon \in Nat

VARIABLES
  now,
  count,     (* _direct_replies, 0 for a name that is not in it            *)
  counted,   (* its names, the one counted last at the end                 *)
  lastSeen,  (* _direct_last_seen                                          *)
  seen,      (* its names, the one seen last at the end                    *)
  pc,        (* where each message is                                      *)
  notice,    (* the messages that will be answered by the notice           *)
  owner,     (* the message past admission                                 *)
  notices    (* history: notices sent in the present count                 *)

vars == <<now, count, counted, lastSeen, seen, pc, notice, owner, notices>>

Places == {"idle", "waiting", "holding", "sending", "done"}
Direct(m) == KindOf[m] = "direct"

Init ==
  /\ now = 0
  /\ count = [s \in Sender |-> 0] /\ counted = << >>
  /\ lastSeen = [s \in Sender |-> 0] /\ seen = << >>
  /\ pc = [m \in Message |-> "idle"]
  /\ notice = {}
  /\ owner = None
  /\ notices = [s \in Sender |-> 0]

Goto(m, place) == pc' = [pc EXCEPT ![m] = place]

(* The names kept of a list that may hold MaxPeople.                       *)
Recent(names) ==
  IF Len(names) > MaxPeople THEN SubSeq(names, Len(names) - MaxPeople + 1, Len(names)) ELSE names

(* The counts once those of `gone' are dropped.                            *)
Forget(gone) ==
  /\ count' = [s \in Sender |-> IF s \in gone THEN 0 ELSE count[s]]
  /\ counted' = SelectSeq(counted, LAMBDA s : s \notin gone)
  /\ notices' = [s \in Sender |-> IF s \in gone THEN 0 ELSE notices[s]]

-----------------------------------------------------------------------------
(* _handle_payload *)

ReceivePlain(m) ==
  /\ pc[m] = "idle" /\ ~Direct(m)
  /\ Forget({SenderOf[m]})
  /\ seen' = RemoveFirst(seen, SenderOf[m])
  /\ \E place \in {"waiting", "done"} : Goto(m, place)
  /\ UNCHANGED <<now, lastSeen, notice, owner>>

Paused(s) == Contains(seen, s) /\ now - lastSeen[s] >= ResetAfter

(* Beyond the limit a mention is dropped at once; at the limit it will get *)
(* the notice; below it, an answer, unless it wants none.                  *)
ReceiveDirect(m) ==
  LET s == SenderOf[m]
      names == Append(RemoveFirst(seen, s), s)
  IN  /\ pc[m] = "idle" /\ Direct(m)
      /\ seen' = Recent(names)
      /\ lastSeen' = [lastSeen EXCEPT ![s] = now]
      /\ Forget((IF Paused(s) THEN {s} ELSE {}) \cup (ToSet(names) \ ToSet(seen')))
      /\ \/ Goto(m, "done") /\ UNCHANGED notice
         \/ /\ count'[s] <= Limit
            /\ Goto(m, "waiting")
            /\ notice' = IF count'[s] = Limit THEN notice \cup {m} ELSE notice
      /\ UNCHANGED <<now, owner>>

(* The wait ended without admission.                                       *)
Drop(m) ==
  /\ pc[m] = "waiting"
  /\ Goto(m, "done")
  /\ UNCHANGED <<now, count, counted, lastSeen, seen, notice, owner, notices>>

(* After the wait every path but the redirect looks at the count again     *)
(* (_direct_guidance with admitted = True).                                *)
Admit(m) ==
  LET c == IF Direct(m) /\ RouteOf[m] = "checked" /\ m \notin notice
             THEN count[SenderOf[m]] ELSE 0
  IN  /\ pc[m] = "waiting" /\ owner = None
      /\ IF c > Limit THEN Goto(m, "done") /\ UNCHANGED <<owner, notice>>
         ELSE /\ Goto(m, "holding") /\ owner' = m
              /\ notice' = IF c = Limit THEN notice \cup {m} ELSE notice
      /\ UNCHANGED <<now, count, counted, lastSeen, seen, notices>>

-----------------------------------------------------------------------------
(* _send *)

(* Mutant: the last look at the count is missing.                          *)
SendUnguarded(m) ==
  /\ pc[m] = "holding"
  /\ \/ Goto(m, "sending") /\ UNCHANGED owner
     \/ Goto(m, "done") /\ owner' = None
  /\ UNCHANGED <<now, count, counted, lastSeen, seen, notice, notices>>

(* The message is sent, or dropped for some other reason.                  *)
Send(m) ==
  /\ pc[m] = "holding"
  /\ \/ /\ Direct(m) => count[SenderOf[m]] <= Limit
        /\ Goto(m, "sending") /\ UNCHANGED owner
     \/ Goto(m, "done") /\ owner' = None
  /\ UNCHANGED <<now, count, counted, lastSeen, seen, notice, notices>>

(* Every attempt counts, whatever became of it.                            *)
FinishSend(m) ==
  LET s == SenderOf[m]
      names == Append(RemoveFirst(counted, s), s)
      gone == ToSet(names) \ ToSet(Recent(names))
  IN  /\ pc[m] = "sending"
      /\ Goto(m, "done") /\ owner' = None
      /\ IF Direct(m)
           THEN /\ counted' = Recent(names)
                /\ count' = [x \in Sender |-> CASE x = s -> count[s] + 1
                                                [] x \in gone -> 0
                                                [] OTHER -> count[x]]
                /\ notices' = [x \in Sender |-> CASE x = s /\ m \in notice -> notices[s] + 1
                                                  [] x \in gone -> 0
                                                  [] OTHER -> notices[x]]
           ELSE UNCHANGED <<count, counted, notices>>
      /\ UNCHANGED <<now, lastSeen, seen, notice>>

Tick ==
  /\ now < Horizon
  /\ now' = now + 1
  /\ UNCHANGED <<count, counted, lastSeen, seen, pc, notice, owner, notices>>

Next ==
  \/ \E m \in Message :
       \/ ReceivePlain(m) \/ ReceiveDirect(m) \/ Drop(m)
       \/ Admit(m) \/ Send(m) \/ FinishSend(m)
  \/ Tick

Spec == Init /\ [][Next]_vars

-----------------------------------------------------------------------------
(* The guard remembers no more names than it may, each once, although      *)
(* anybody can make up a name and the two maps are filled and emptied at   *)
(* different moments (person_memory_people).                               *)
TypeOK ==
  /\ now \in Nat
  /\ count \in [Sender -> Nat] /\ notices \in [Sender -> Nat]
  /\ lastSeen \in [Sender -> Nat]
  /\ counted \in Seq(Sender) /\ seen \in Seq(Sender)
  /\ Len(seen) <= MaxPeople /\ Len(counted) <= MaxPeople
  /\ IsInjective(seen) /\ IsInjective(counted)
  /\ pc \in [Message -> Places]
  /\ notice \subseteq Message
  /\ owner \in Message \cup {None}

(* Between two resets no sender, however its messages wait, expire and     *)
(* interleave with others, gets more replies than the limit and a notice.  *)
LoopBounded == \A s \in Sender : count[s] <= Limit + 1

(* manual.md:259: the bot answers `Limit' consecutive mentions, then sends *)
(* the notice; the limit covers queued requests too (manual.md:264).       *)
AnswersBounded == \A s \in Sender : count[s] - notices[s] <= Limit

=============================================================================

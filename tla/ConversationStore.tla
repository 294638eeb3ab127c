------------------------- MODULE ConversationStore -------------------------
(***************************************************************************)
(* Personal memory and its file: bot/memory.py, bot/storage.py, and the    *)
(* requests of bot/service.py that read and write them.  A bot is one run  *)
(* of the program on a channel.  Several may be given the same file, which *)
(* the generation in it is meant to detect.                                *)
(*                                                                         *)
(* Every step is one stretch of code without an await.  An exchange that   *)
(* is remembered is named by the request that it answers; its text is left *)
(* out, and the gate's opinion of it at a restart is a constant.           *)
(***************************************************************************)
EXTENDS Integers, SequencesExt

CONSTANTS
  Bot,
  Sender,
  Request,
  BotOf,      (* the bot that receives each request                        *)
  SenderOf,
  Screened,   (* exchanges that the gate does not let a restart bring back *)
  Rounds,     (* person_memory_rounds                                      *)
  MaxPeople,  (* person_memory_people                                      *)
  MaxAge,     (* person_memory_days                                        *)
  Unsaved,    (* _last_snapshot of a store that has not saved              *)
  MaxFailures,(* bound of the writes that fail                             *)
  MaxCrashes, (* bound of crashes and clean stops                          *)
  MaxOther,   (* bound of the generation that writes to other tables make  *)
  Horizon     (* bound of the clock                                        *)

ASSUME StoreAssumption ==
  /\ BotOf \in [Request -> Bot] /\ SenderOf \in [Request -> Sender]
  /\ Screened \subseteq Request
  /\ Rounds \in Nat \ {0} /\ MaxPeople \in Nat \ {0} /\ MaxAge \in Nat \ {0}
  /\ MaxFailures \in Nat /\ MaxCrashes \in Nat /\ MaxOther \in Nat
  /\ Horizon \in Nat

VARIABLES
  now,       (* the wall clock, which may be set back                      *)
  up,        (* the bots that run                                          *)
  people,    (* PersonMemory._people of each, the one used last at the end *)
  gen,       (* StateStore._generation of each                             *)
  last,      (* StateStore._last_snapshot of each                          *)
  file,      (* the database: generation and people                        *)
  req,       (* where each request is; "silent" has remember = False       *)
  failures, crashes, setBack,
  synced,    (* history: the bots that know what the file holds            *)
  forgotten  (* history: requests from before a /forget that succeeded     *)

memory == <<people, gen, last, file, synced, failures>>
vars == <<now, up, memory, req, crashes, setBack, forgotten>>

Round == [by : Request, at : Nat]
Person == [sender : Sender, rounds : Seq(Round)]

Init ==
  /\ now = 0
  /\ up = {}
  /\ people = [b \in Bot |-> << >>]
  /\ gen = [b \in Bot |-> 0]
  /\ last = [b \in Bot |-> Unsaved]
  /\ file = [gen |-> 0, people |-> << >>]
  /\ req = [r \in Request |-> "idle"]
  /\ failures = 0 /\ crashes = 0 /\ setBack = FALSE
  /\ synced = {} /\ forgotten = {}

-----------------------------------------------------------------------------
(* PersonMemory *)

(* The newest n of a sequence: deque(maxlen), popitem(last=False).         *)
Newest(s, n) == IF Len(s) > n THEN SubSeq(s, Len(s) - n + 1, Len(s)) ELSE s

(* What of a sequence is in a set, in its order.                           *)
Only(s, S) ==
  LET kept[i \in 0 .. Len(s)] ==
        IF i = 0 THEN << >>
        ELSE IF s[i] \in S THEN Append(kept[i - 1], s[i]) ELSE kept[i - 1]
  IN  kept[Len(s)]

Fresh(round) == round.at >= now - MaxAge

(* Mutant: stale rounds are dropped from the old end only.                 *)
ExpiredFromOldEnd(rounds) ==
  LET stale(n) == \A i \in 1 .. n : ~Fresh(rounds[i])
      n == CHOOSE k \in 0 .. Len(rounds) : stale(k) /\ (k < Len(rounds) => ~stale(k + 1))
  IN  SubSeq(rounds, n + 1, Len(rounds))

Expired(rounds) == Only(rounds, {round \in Round : Fresh(round)})

Sweep(ps) ==
  Only([i \in DOMAIN ps |-> [ps[i] EXCEPT !.rounds = Expired(@)]],
       {p \in Person : p.rounds # << >>})

Without(ps, s) == Only(ps, {p \in Person : p.sender # s})

RoundsOf(ps, s) ==
  IF \E p \in ToSet(ps) : p.sender = s THEN (CHOOSE p \in ToSet(ps) : p.sender = s).rounds ELSE << >>

(* record                                                                  *)
Recorded(ps, r) ==
  LET s == SenderOf[r]
      swept == Sweep(ps)
      rounds == Newest(Append(RoundsOf(swept, s), [by |-> r, at |-> now]), Rounds)
  IN  Newest(Append(Without(swept, s), [sender |-> s, rounds |-> rounds]), MaxPeople)

(* rounds_for                                                              *)
Consulted(ps, s) ==
  LET swept == Sweep(ps)
  IN  Without(swept, s) \o Only(swept, {p \in Person : p.sender = s})

(* restore: no time is later than now, and no person is left with nothing. *)
Restored(ps) ==
  LET clamp(round) == [round EXCEPT !.at = IF @ > now THEN now ELSE @]
      restored(p) == [p EXCEPT !.rounds =
                        LET fresh == Expired(@)
                        IN  [i \in DOMAIN fresh |-> clamp(fresh[i])]]
  IN  Only([i \in DOMAIN ps |-> restored(ps[i])], {p \in Person : p.rounds # << >>})

-----------------------------------------------------------------------------
(* StateStore *)

(* load: of the newest people the newest rounds, and of these the ones     *)
(* that the gate still allows.  One that it drops is not replaced by an    *)
(* older one.                                                              *)
Load(ps) ==
  LET kept == Newest(ps, MaxPeople)
      allowed(p) == [p EXCEPT !.rounds =
                       Only(Newest(@, Rounds), {round \in Round : round.by \notin Screened})]
  IN  [i \in DOMAIN kept |-> allowed(kept[i])]

Write(b, snapshot) ==
  /\ file' = [gen |-> file.gen + 1, people |-> snapshot]
  /\ gen' = [gen EXCEPT ![b] = file.gen + 1]
  /\ last' = [last EXCEPT ![b] = snapshot]
  /\ synced' = {b}

WriteFailed ==
  /\ failures < MaxFailures
  /\ failures' = failures + 1

(* Mutant: the generation is not compared.                                 *)
SaveUnchecked(b, ps) ==
  /\ people' = [people EXCEPT ![b] = ps]
  /\ IF ps = last[b] THEN UNCHANGED <<file, gen, last, synced>> ELSE Write(b, ps)
  /\ UNCHANGED failures

(* save, once the memory holds `ps'.  A snapshot like the last one is not  *)
(* written again.                                                          *)
Save(b, ps) ==
  /\ people' = [people EXCEPT ![b] = ps]
  /\ \/ ps = last[b] /\ UNCHANGED <<file, gen, last, synced>>
     \/ ps # last[b] /\ gen[b] = file.gen /\ Write(b, ps)
  /\ UNCHANGED failures

SaveFails(b, ps) ==
  /\ people' = [people EXCEPT ![b] = ps]
  /\ ps # last[b]
  /\ IF gen[b] = file.gen THEN WriteFailed ELSE UNCHANGED failures
  /\ UNCHANGED <<file, gen, last, synced>>

Remembers(b, ps) ==
  /\ people' = [people EXCEPT ![b] = ps]
  /\ UNCHANGED <<gen, last, file, synced, failures>>

-----------------------------------------------------------------------------
(* The runs of the program *)

(* prepare: the state is restored and at once saved, pruned.  If either    *)
(* fails the bot does not start.  The code reads the generation, loads,    *)
(* and saves in three transactions.  That is one step here: the save       *)
(* checks the generation, so that a start which another run's save came    *)
(* between fails, and such a run changes nothing.                          *)
Start(b) ==
  /\ b \notin up
  /\ up' = up \cup {b}
  /\ LET restored == Restored(Load(file.people))
     IN  people' = [people EXCEPT ![b] = restored] /\ Write(b, restored)
  /\ UNCHANGED <<now, failures, req, crashes, setBack, forgotten>>

Ended(b) ==
  [r \in Request |-> IF BotOf[r] = b /\ req[r] # "idle" THEN "over" ELSE req[r]]

(* _stop: the requests are cancelled, then the state is saved.             *)
Stop(b) ==
  /\ b \in up /\ crashes < MaxCrashes
  /\ crashes' = crashes + 1
  /\ up' = up \ {b}
  /\ req' = Ended(b)
  /\ Save(b, Sweep(people[b])) \/ SaveFails(b, Sweep(people[b]))
  /\ UNCHANGED <<now, setBack, forgotten>>

Crash(b) ==
  /\ b \in up /\ crashes < MaxCrashes
  /\ crashes' = crashes + 1
  /\ up' = up \ {b}
  /\ req' = Ended(b)
  /\ UNCHANGED <<now, memory, setBack, forgotten>>

(* _save_state_periodically                                                *)
SavePeriodically(b) ==
  /\ b \in up
  /\ Save(b, Sweep(people[b])) \/ SaveFails(b, Sweep(people[b]))
  /\ UNCHANGED <<now, up, req, crashes, setBack, forgotten>>

(* The other tables of the database: save_usage_tips, save_chess,          *)
(* save_traffic, claim_welcome.                                            *)
SaveOther(b) ==
  /\ b \in up /\ gen[b] = file.gen /\ file.gen < MaxOther
  /\ file' = [file EXCEPT !.gen = @ + 1]
  /\ gen' = [gen EXCEPT ![b] = file.gen + 1]
  /\ synced' = {b}
  /\ UNCHANGED <<now, up, people, last, failures, req, crashes, setBack, forgotten>>

-----------------------------------------------------------------------------
(* Requests *)

Pending(r) == req[r] \in {"received", "admitted", "silent"}

Receive(r) ==
  LET b == BotOf[r]
  IN  /\ b \in up /\ req[r] = "idle"
      /\ req' = [req EXCEPT ![r] = "received"]
      /\ Remembers(b, Consulted(people[b], SenderOf[r]))
      /\ UNCHANGED <<now, up, crashes, setBack, forgotten>>

(* After admission the memory is read again.                               *)
Admitted(r) ==
  LET b == BotOf[r]
  IN  /\ b \in up /\ req[r] = "received"
      /\ req' = [req EXCEPT ![r] = "admitted"]
      /\ Remembers(b, Consulted(people[b], SenderOf[r]))
      /\ UNCHANGED <<now, up, crashes, setBack, forgotten>>

(* The answer was sent; or the request ended without.                      *)
Answer(r) ==
  /\ BotOf[r] \in up /\ req[r] \in {"admitted", "silent"}
  /\ req' = [req EXCEPT ![r] = "over"]
  /\ IF req[r] = "admitted" THEN Remembers(BotOf[r], Recorded(people[BotOf[r]], r))
                            ELSE UNCHANGED memory
  /\ UNCHANGED <<now, up, crashes, setBack, forgotten>>

Abandon(r) ==
  /\ Pending(r)
  /\ req' = [req EXCEPT ![r] = "over"]
  /\ UNCHANGED <<now, up, memory, crashes, setBack, forgotten>>

(* Mutant: requests under way are not told.                                *)
SilencedNone(b, s) == req

(* remember = False for the requests of the sender.                        *)
Silenced(b, s) ==
  [r \in Request |-> IF BotOf[r] = b /\ SenderOf[r] = s /\ Pending(r) THEN "silent" ELSE req[r]]

Known(b, s) == {r \in Request : BotOf[r] = b /\ SenderOf[r] = s /\ req[r] # "idle"}

(* The /forget command; its confirmation is only sent if the save          *)
(* succeeded.                                                              *)
ForgetSender(b, s) ==
  LET left == Sweep(Without(people[b], s))
  IN  /\ b \in up
      /\ req' = Silenced(b, s)
      /\ \/ Save(b, left) /\ forgotten' = forgotten \cup Known(b, s)
         \/ SaveFails(b, left) /\ UNCHANGED forgotten
      /\ UNCHANGED <<now, up, crashes, setBack>>

Tick ==
  /\ now < Horizon
  /\ now' = now + 1
  /\ UNCHANGED <<up, memory, req, crashes, setBack, forgotten>>

(* The computer's clock is corrected, once in a behaviour.                 *)
SetBack ==
  /\ ~setBack /\ setBack' = TRUE
  /\ now > 0 /\ now' = now - 1
  /\ UNCHANGED <<up, memory, req, crashes, forgotten>>

Next ==
  \/ \E b \in Bot :
       \/ Start(b) \/ Stop(b) \/ Crash(b) \/ SavePeriodically(b) \/ SaveOther(b)
       \/ \E s \in Sender : ForgetSender(b, s)
  \/ \E r \in Request : Receive(r) \/ Admitted(r) \/ Answer(r) \/ Abandon(r)
  \/ Tick \/ SetBack

Spec == Init /\ [][Next]_vars

-----------------------------------------------------------------------------
PeopleOK(ps) ==
  /\ ps \in Seq(Person) /\ Len(ps) <= MaxPeople
  /\ \A i \in DOMAIN ps : Len(ps[i].rounds) \in 1 .. Rounds
  /\ \A i, j \in DOMAIN ps : ps[i].sender = ps[j].sender => i = j

TypeOK ==
  /\ now \in Nat /\ up \subseteq Bot
  /\ \A b \in Bot : PeopleOK(people[b]) /\ gen[b] \in Nat
  /\ \A b \in Bot : last[b] = Unsaved \/ PeopleOK(last[b])
  /\ file.gen \in Nat /\ PeopleOK(file.people)
  /\ req \in [Request -> {"idle", "received", "admitted", "silent", "over"}]
  /\ failures \in Nat /\ crashes \in Nat /\ setBack \in BOOLEAN
  /\ synced \subseteq Bot /\ forgotten \subseteq Request

Names(ps) == {round.by : round \in UNION {ToSet(p.rounds) : p \in ToSet(ps)}}

(* What a confirmed /forget removed stays removed: neither a request that  *)
(* was under way, nor a save that failed or was skipped, nor a restart or  *)
(* a second bot brings it back into the file or into the memory of a bot   *)
(* that can write the file (storage.md, the /forget branch of              *)
(* _handle_command).                                                       *)
ForgottenForGood ==
  /\ Names(file.people) \cap forgotten = {}
  /\ \A b \in up \cap synced : Names(people[b]) \cap forgotten = {}

(* A bot only replaces the file if nobody else wrote it since the bot read *)
(* or wrote it (the generation check of every save).                       *)
NoLostUpdate ==
  [][file' # file => \E b \in Bot : synced' = {b} /\ (b \in synced \/ b \notin up)]_vars

(* No exchange that is older than the limit is written to the file, even   *)
(* if the clock was set back between two exchanges of one sender, so that  *)
(* they are not in the order of their times (_expire, restore).            *)
AgeRespected ==
  [][file'.people # file.people =>
       \A i \in DOMAIN file'.people :
         \A round \in ToSet(file'.people[i].rounds) : Fresh(round)]_vars

=============================================================================

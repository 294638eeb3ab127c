--------------------------- MODULE AnswerPipeline ---------------------------
(***************************************************************************)
(* How a message becomes an answer: BotService._handle_payload,            *)
(* _generate_fitting and _recover_bad_reply in bot/service.py, on top of   *)
(* the loop guard of DirectReplies, whose actions are conjuncts here, and  *)
(* of the cache of TravelTimes.                                            *)
(*                                                                         *)
(* A text is one of a few kinds: what the model wrote is "clean" or one of *)
(* the ways in which it is not to be sent; the others are the program's    *)
(* own.  Which kind a draft is, what a search finds and when the model     *)
(* answers is nondeterminism.  trigger_prefix is empty, web_enabled on.    *)
(***************************************************************************)
EXTENDS DirectReplies, TravelTimes

CONSTANTS
  Scripts,        (* what the messages ask for, None for those not sent    *)
  Shorten,        (* shorten_retries                                       *)
  ModelTimeout,   (* model_timeout_s                                       *)
  SearchTimeout,  (* 12 s                                                  *)
  Trip,           (* failures that close the model: 3                      *)
  Cooldown,       (* for 60 s                                              *)
  TopicFor,       (* a follow-up is understood for 120 s                   *)
  ValidFor,       (* validity of a score or forecast when it is fetched    *)
  OutcomesKept    (* outcomes that are kept for a sender: 4                *)

Asks == {"chat", "social", "question", "program", "command", "forget", "travel",
         "score", "forecast", "followup", "web", "news"}

ASSUME PipelineAssumption ==
  /\ Scripts \subseteq [Message -> Asks \cup {None}]
  /\ None \notin Asks \cup Nat
  /\ Shorten \in Nat /\ Trip \in Nat \ {0} /\ Cooldown \in Nat /\ TopicFor \in Nat
  /\ SearchTimeout \in Nat /\ ModelTimeout \in Nat /\ SearchTimeout <= ModelTimeout
  /\ ValidFor \in Nat /\ OutcomesKept \in Nat \ {0}

VARIABLES
  ask,         (* what each message asks for, a follow-up once understood  *)
  work,        (* PendingReply of the owner, and where it is               *)
  failures,    (* _backend_failures                                        *)
  retryAt,     (* _backend_retry_at                                        *)
  silenced,    (* requests whose `remember' is off                         *)
  remembered,  (* messages whose exchange is in the memory                 *)
  outcomes,    (* _outcomes: the messages that ended, of each sender       *)
  noted,       (* its names, the one recorded last at the end              *)
  topic,       (* _weather_contexts: message and time, or None             *)
  forgotten    (* history: messages received before a /forget of the sender*)

kept == <<silenced, remembered, topic, forgotten>>
personal == <<kept, outcomes, noted>>
model == <<failures, retryAt>>
allVars == <<vars, ask, work, model, personal, cache>>

PipelineInit ==
  /\ Init
  /\ ask \in Scripts
  /\ work = None
  /\ failures = 0 /\ retryAt = 0
  /\ silenced = {} /\ remembered = {} /\ forgotten = {} 
  /\ outcomes = [s \in Sender |-> << >>] /\ noted = << >>
  /\ topic = [s \in Sender |-> None]
  /\ CacheInit

-----------------------------------------------------------------------------
(* What is asked *)

Lookup == {"score", "forecast", "web", "news"}

(* The bot answers of its own accord, and may pass.                        *)
Implicit(m) == ~Direct(m) /\ ask[m] # "web"
MayPass(m) == Implicit(m) /\ ask[m] \in {"chat", "social"}

(* Only what needs the model waits for it to come back.                    *)
NeedsModel(a) == a \in {"chat", "social", "question", "web", "news"}

Cools(m, a) == RouteOf[m] = "checked" /\ NeedsModel(a) /\ now < retryAt

Cooling(m) == Cools(m, ask[m])

-----------------------------------------------------------------------------
(* Receipt *)

(* A topic is for the next message of its sender, whatever that is.        *)
Understood(m) ==
  LET t == topic[SenderOf[m]]
  IN  IF ask[m] = "followup"
        THEN IF t # None /\ now - t.at <= TopicFor THEN "forecast" ELSE "question"
        ELSE ask[m]

(* _remember_activity: of the newest senders the newest outcomes.  What is *)
(* said of a message is left out.                                          *)
RememberActivity(m) ==
  LET s == SenderOf[m]
      names == Append(RemoveFirst(noted, s), s)
      rows == Append(outcomes[s], m)
  IN  /\ noted' = Recent(names)
      /\ outcomes' = [x \in Sender |->
           CASE x = s -> IF Len(rows) > OutcomesKept THEN Tail(rows) ELSE rows
             [] Len(names) > MaxPeople /\ x = Head(names) -> << >>
             [] OTHER -> outcomes[x]]

(* _record: the outcome of a request that ends, unless it is silenced.     *)
Record(m) ==
  IF pc'[m] = "done" /\ m \notin silenced THEN RememberActivity(m) ELSE UNCHANGED <<outcomes, noted>>

Live(s) == {m \in Message : SenderOf[m] = s /\ pc[m] \notin {"idle", "done"}}

Received(s) == {m \in Message : SenderOf[m] = s /\ pc[m] # "idle"}

(* Mutant: /forget leaves the requests that are under way alone.           *)
ForgetSavedOnly(m) ==
  LET s == SenderOf[m]
  IN  /\ remembered' = {x \in remembered : SenderOf[x] # s}
      /\ silenced' = silenced \cup {m}
      /\ forgotten' = forgotten \cup {m} \cup Received(s)
      /\ outcomes' = [outcomes EXCEPT ![s] = << >>]
      /\ noted' = RemoveFirst(noted, s)

(* /forget takes effect when it is received, also on what is under way.    *)
ForgetSender(m) ==
  LET s == SenderOf[m]
  IN  /\ remembered' = {x \in remembered : SenderOf[x] # s}
      /\ silenced' = silenced \cup {m} \cup Live(s)
      /\ forgotten' = forgotten \cup {m} \cup Received(s)
      /\ outcomes' = [outcomes EXCEPT ![s] = << >>]
      /\ noted' = RemoveFirst(noted, s)

(* Dropped are messages without a prompt for the bot, too long or blocked  *)
(* ones, some before they are read for a topic, and those that would need  *)
(* the model while it cools down; some are too idle for their outcome to be*)
(* kept.  A /forget whose save fails has no reply.                         *)
Receive(m) ==
  /\ ask[m] # None
  /\ ReceivePlain(m) \/ ReceiveDirect(m)
  /\ \/ /\ m \notin notice'
        /\ ask' = [ask EXCEPT ![m] = Understood(m)]
        /\ topic' = [topic EXCEPT ![SenderOf[m]] = None]
        /\ pc'[m] = "waiting" => ~Cools(m, ask'[m])
        /\ IF ask[m] = "forget" THEN ForgetSender(m)
           ELSE UNCHANGED <<silenced, remembered, forgotten>> /\ Record(m)
     \/ /\ pc'[m] = "done" \/ m \in notice'
        /\ Record(m) \/ UNCHANGED <<outcomes, noted>>
        /\ UNCHANGED <<ask, kept>>
  /\ UNCHANGED <<work, model, cache>>

-----------------------------------------------------------------------------
(* Texts that are not to be sent as they are.                              *)
Unusable == {"bad", "pass", "empty", "long", "cut"}

Ready(w, text) == work' = [w EXCEPT !.place = "ready", !.text = text]

(* _backend_failed *)
Failed ==
  /\ failures' = IF failures < Trip THEN failures + 1 ELSE failures
  /\ retryAt' = IF failures + 1 >= Trip THEN now + Cooldown ELSE retryAt

Succeeded == failures' = 0 /\ retryAt' = 0

(* The request ends without a reply.                                       *)
Quit(m) ==
  /\ Send(m) /\ pc'[m] = "done"
  /\ work' = None

(* A deadline beyond the bound of the clock falls on it.                   *)
Within(t) == IF t < Horizon THEN t ELSE Horizon

-----------------------------------------------------------------------------
(* Admission *)

NewRequest ==
  [place |-> "draft", text |-> None, attempt |-> 0, rejected |-> FALSE, retries |-> 0,
   validated |-> FALSE, web |-> "none", deadline |-> None, expires |-> None,
   calls |-> 0, began |-> now, told |-> None]

(* What the program says itself, with no more than the hold before it is   *)
(* sent: the notice of the loop guard, the pointer to #traffic, the answer *)
(* to a command, a travel time, which is looked up when it is sent.        *)
Redirected(m) == RouteOf[m] = "redirect"
Commanded(m) == ask[m] \in {"command", "forget"}

(* What an admitted request begins with.                                   *)
Started(m) ==
  LET w == NewRequest
      ready(text) == [w EXCEPT !.place = "ready", !.text = text]
      a == ask[m]
  IN  CASE m \in notice' -> ready("notice")
        [] Redirected(m) -> ready("redirect")
        [] Commanded(m) -> ready("command")
        [] a = "travel" -> ready("travel")
        [] a \in Lookup -> [w EXCEPT !.place = "search", !.deadline = Within(now + ModelTimeout)]
        [] OTHER -> w

AdmitRequest(m) ==
  /\ m \in notice \/ ~Cooling(m)
  /\ Admit(m)
  /\ work' = IF pc'[m] = "holding" THEN Started(m) ELSE None
  /\ Record(m)
  /\ UNCHANGED <<ask, model, kept, cache>>

(* The wait ended without admission, or the model has closed meanwhile.    *)
DropRequest(m) ==
  /\ Drop(m) /\ Record(m)
  /\ UNCHANGED <<ask, work, model, kept, cache>>

-----------------------------------------------------------------------------
(* The search for evidence, at most SearchTimeout of the deadline *)

(* What the worker brings: pages, or nothing when it fails, is killed, or  *)
(* none of them is usable.                                                 *)
Results == {"nothing"} \cup (IF now < work.began + SearchTimeout THEN {"pages"} ELSE {})

(* A score or a forecast is made into a text without the model; a question *)
(* that began as an ordinary one goes on without evidence.                 *)
SearchEnds(m) ==
  /\ pc[m] = "holding" /\ work.place = "search"
  /\ \E result \in Results :
       LET fact == result = "pages" /\ ask[m] \in {"score", "forecast"}
           web == CASE fact -> "fixed"
                    [] result = "pages" -> "sources"
                    [] ask[m] = "news" /\ now < work.deadline -> "unverifiable"
                    [] OTHER -> "fixed"
       IN  \E valid \in IF fact THEN 0 .. ValidFor ELSE {0} :
             work' = [work EXCEPT !.place = "draft", !.web = web,
                                  !.expires = IF fact THEN now + valid ELSE None]
  /\ UNCHANGED <<vars, ask, model, personal, cache>>

-----------------------------------------------------------------------------
(* Drafts *)

(* _recover_bad_reply: a greeting of the program's, or one more call with  *)
(* the original context if time is left, or the apology.                   *)
RecoverWith(m, w) ==
  IF ask[m] = "social" THEN Ready(w, "greeting")
  ELSE LET possible == /\ w.deadline # None /\ now < w.deadline
                       /\ ask[m] # "program" /\ w.web # "fixed"
       IN  \/ possible /\ work' = [w EXCEPT !.place = "recover", !.calls = @ + 1]
           \/ (possible => w.web = "unverifiable") /\ Ready(w, "apology")

(* A first draft that failed gets a second try, a second one a recovery.   *)
Again(m, w) ==
  IF w.attempt = 0
    THEN work' = [w EXCEPT !.place = "draft", !.attempt = 1, !.rejected = TRUE, !.retries = 0]
    ELSE RecoverWith(m, w)

(* _send_apology *)
Apologise(w) == Ready(w, "apology")

(* The model failed.                                                       *)
GiveUp(m, w) ==
  /\ Failed
  /\ IF w.rejected THEN RecoverWith(m, w) ELSE Apologise(w)

(* Mutant: a replacement that does not fit is answered like a first draft. *)
SettleLenient(m, w, text) ==
  CASE text = "bad" -> Again(m, w)
    [] text = "pass" -> IF w.rejected THEN RecoverWith(m, w) ELSE Again(m, w)
    [] text \in {"long", "cut"} -> Ready(w, "too long")
    [] OTHER -> Ready(w, text)

(* What becomes of a text that _generate_fitting returned.  Once a draft   *)
(* was rejected only a clean replacement may be sent.                      *)
Settle(m, w, text) ==
  CASE text = "bad" -> Again(m, w)
    [] text = "pass" -> IF Implicit(m) /\ ask[m] = "social" THEN Ready(w, "social")
                        ELSE IF w.rejected THEN RecoverWith(m, w) ELSE Again(m, w)
    [] text \in {"long", "cut"} -> IF w.rejected THEN RecoverWith(m, w) ELSE Ready(w, "too long")
    [] OTHER -> Ready(w, text)

(* Mutant: every attempt has its own deadline.                             *)
DeadlineAnew(w) == Within(now + ModelTimeout)

(* All calls of a request share one deadline.                              *)
Deadline(w) == IF w.deadline = None THEN Within(now + ModelTimeout) ELSE w.deadline

(* The deadline ends a request that searched with the notice that nothing  *)
(* could be verified, any other like a failure of the model.               *)
TimeIsUp(m, w) ==
  IF w.web # "none"
    THEN /\ Settle(m, [w EXCEPT !.web = "fixed"], "failure")
         /\ UNCHANGED model
    ELSE GiveUp(m, w)

(* _generate_fitting up to the call: a text that is fixed needs none.      *)
Draft(m) ==
  LET d == Deadline(work)
  IN  /\ pc[m] = "holding" /\ work.place = "draft"
      /\ CASE ask[m] = "program" ->
                (\E text \in {"program", "bad"} : Settle(m, work, text)) /\ UNCHANGED model
           [] work.web = "fixed" ->
                /\ \E text \in {IF work.expires = None THEN "failure" ELSE "fact", "bad"} :
                     Settle(m, work, text)
                /\ UNCHANGED model
           [] now < d ->
                work' = [work EXCEPT !.place = "call", !.calls = @ + 1, !.deadline = d] /\ UNCHANGED model
           [] OTHER -> TimeIsUp(m, work)
      /\ UNCHANGED <<vars, ask, personal, cache>>

(* An answer from sources must quote one of them, or say it is unknown.    *)
Supported == {"clean", "bad", "long", "cut", "unsupported", "failure"}

(* What the model may write.  When nothing was found only facts of the     *)
(* operator's are let through.                                             *)
Written(w) ==
  CASE w.web = "sources" -> Supported
    [] w.web = "unverifiable" -> {"clean", "bad", "long", "cut", "failure"}
    [] OTHER -> {"clean", "bad", "pass", "empty", "long", "cut"}

(* The model answered: an unsupported answer is asked for once more, a     *)
(* text that does not fit Shorten times, and the rest is judged.           *)
Answered(m) ==
  /\ pc[m] = "holding" /\ work.place = "call" /\ now < work.deadline
  /\ \E text \in Written(work) :
       CASE text = "unsupported" ->
              /\ IF work.validated THEN Settle(m, work, "failure")
                 ELSE work' = [work EXCEPT !.place = "draft", !.validated = TRUE]
              /\ Succeeded \/ UNCHANGED model
         [] text \in {"long", "cut"} /\ work.retries < Shorten ->
              /\ work' = [work EXCEPT !.place = "draft", !.retries = @ + 1]
              /\ Succeeded \/ (text = "cut" /\ UNCHANGED model)
         [] text = "empty" -> GiveUp(m, work)
         [] OTHER ->
              /\ ~(text = "pass" /\ ~work.rejected /\ ask[m] = "chat" /\ Implicit(m))
              /\ Settle(m, work, text)
              /\ Succeeded \/ (text \in {"cut", "failure"} /\ UNCHANGED model)
  /\ UNCHANGED <<vars, ask, personal, cache>>

(* The model had nothing to say to a remark, or the gate blocks a text     *)
(* (_check).                                                               *)
Decline(m) ==
  /\ pc[m] = "holding" /\ work.place \in {"call", "recover"} /\ now < work.deadline
  /\ Quit(m) /\ Record(m)
  /\ IF work.place = "call" THEN Succeeded ELSE UNCHANGED model
  /\ UNCHANGED <<ask, kept, cache>>

CallFails(m) ==
  /\ pc[m] = "holding" /\ work.place = "call"
  /\ now < work.deadline /\ GiveUp(m, work)
  /\ UNCHANGED <<vars, ask, personal, cache>>

(* Mutant: nothing ends a call that does not return.                       *)
CallNeverTimesOut(m) == FALSE /\ Draft(m)

CallTimesOut(m) ==
  /\ pc[m] = "holding" /\ work.place = "call"
  /\ now >= work.deadline /\ TimeIsUp(m, work)
  /\ UNCHANGED <<vars, ask, personal, cache>>

(* The recovery call: only a text that passes all checks is used.          *)
Recovered(m) ==
  /\ pc[m] = "holding" /\ work.place = "recover"
  /\ \/ now < work.deadline /\ work.web # "unverifiable" /\ Ready(work, "recovered") /\ Succeeded
     \/ now < work.deadline /\ Ready(work, "apology") /\ UNCHANGED model
     \/ Ready(work, "apology") /\ Failed
  /\ UNCHANGED <<vars, ask, personal, cache>>

-----------------------------------------------------------------------------
(* Transmission *)

(* What a request for travel times says, by the cache as it is now.        *)
TravelTold(w) == [w EXCEPT !.told = IF w.text = "travel" THEN Answer(now) ELSE None]

(* Mutant: a fact that was fresh when it was found is sent.                *)
TransmitStale(m) ==
  /\ pc[m] = "holding" /\ work.place = "ready"
  /\ Send(m) /\ Record(m)
  /\ work' = IF pc'[m] = "done" THEN None ELSE TravelTold([work EXCEPT !.place = "sending"])
  /\ UNCHANGED <<ask, model, kept, cache>>

(* After the hold and every pause: a score or forecast that has expired is *)
(* dropped, a travel time is taken from the cache as it is now.            *)
Transmit(m) ==
  /\ pc[m] = "holding" /\ work.place = "ready"
  /\ Send(m) /\ Record(m)
  /\ IF pc'[m] = "done" THEN work' = None
     ELSE /\ work.expires # None => now < work.expires
          /\ work' = TravelTold([work EXCEPT !.place = "sending"])
  /\ UNCHANGED <<ask, model, kept, cache>>

Exchange == {"clean", "failure", "fact", "program", "social", "recovered", "travel"}

(* The radio acknowledged the reply or not.  Exchanges are remembered,     *)
(* apologies and the like are not.                                         *)
Sent(m) ==
  /\ pc[m] = "sending"
  /\ FinishSend(m) /\ Record(m)
  /\ work' = None
  /\ \E acknowledged \in BOOLEAN :
       IF acknowledged /\ m \notin silenced
         THEN /\ remembered' = IF work.text \in Exchange THEN remembered \cup {m} ELSE remembered
              /\ topic' = IF ask[m] = "forecast" /\ work.text \in {"fact", "failure"}
                            THEN [topic EXCEPT ![SenderOf[m]] = [of |-> m, at |-> now]] ELSE topic
         ELSE UNCHANGED <<remembered, topic>>
  /\ UNCHANGED <<ask, model, silenced, forgotten, cache>>

-----------------------------------------------------------------------------
(* The cache lives beside the requests; it matters while one asks for it.  *)
RefreshCache ==
  /\ \E m \in Message : ask[m] = "travel" /\ pc[m] \in {"waiting", "holding"}
  /\ Refresh(now) \/ SetClock
  /\ UNCHANGED <<vars, ask, work, model, personal>>

(* asyncio.timeout fires when its time has come.                           *)
TimerDue ==
  owner # None /\ \/ work.place \in {"call", "recover"} /\ now >= work.deadline
                  \/ work.place = "search" /\ now >= work.began + SearchTimeout

Pass ==
  /\ ~TimerDue
  /\ Tick
  /\ UNCHANGED <<ask, work, model, personal, cache>>

(* No await lies before a call: nothing else happens until it is made.     *)
Urgent == owner # None /\ work.place = "draft"

Owned(m) ==
  \/ SearchEnds(m) \/ Answered(m) \/ Decline(m) \/ CallFails(m) \/ CallTimesOut(m)
  \/ Recovered(m) \/ Transmit(m) \/ Sent(m)

PipelineNext ==
  IF Urgent THEN \E m \in Message : Draft(m)
  ELSE \/ \E m \in Message : Receive(m) \/ AdmitRequest(m) \/ DropRequest(m) \/ Owned(m)
       \/ RefreshCache \/ Pass

(* The model may never answer and no request may expire, but what the      *)
(* program itself has to do next is done: a timer that is due fires, the   *)
(* radio returns, the event loop runs what is ready.                       *)
Progress ==
  \E m \in Message :
    \/ Draft(m) \/ CallTimesOut(m) \/ SearchEnds(m) \/ (Recovered(m) /\ TimerDue)
    \/ AdmitRequest(m) \/ (DropRequest(m) /\ Cooling(m)) \/ Transmit(m) \/ Sent(m)

PipelineFairness == WF_allVars(Pass) /\ WF_allVars(Progress)

PipelineSpec == PipelineInit /\ [][PipelineNext]_allVars /\ PipelineFairness

-----------------------------------------------------------------------------
Texts == Exchange \cup {"notice", "redirect", "command", "apology", "greeting", "too long"}

(* The loop guard's types, its bounds on remembered names included, and:   *)
(* only the owner of the reply queue has a request at work, and it has a   *)
(* text from the end of its generation on, never before.                   *)
PipelineTypeOK ==
  /\ TypeOK
  /\ ask \in [Message -> Asks \cup {None}]
  /\ (work = None) = (owner = None)
  /\ work # None =>
       /\ work.place \in {"draft", "search", "call", "recover", "ready", "sending"}
       /\ work.text \in Texts \cup {None}
       /\ (work.text = None) = (work.place \notin {"ready", "sending"})
       /\ (work.place = "sending") = (pc[owner] = "sending")
  /\ failures \in 0 .. Trip /\ (failures < Trip) = (retryAt = 0)
  /\ silenced \subseteq Message /\ remembered \subseteq Message
  /\ \A s \in Sender : outcomes[s] \in Seq(Message) /\ Len(outcomes[s]) <= OutcomesKept
  /\ ToSet(noted) = {s \in Sender : outcomes[s] # << >>} /\ Len(noted) <= MaxPeople
  /\ \A s \in Sender : topic[s] # None => topic[s].at <= now

(* However drafts, shortenings, quality retries, the search, the evidence  *)
(* check and the recovery follow each other, a request is with the model   *)
(* no longer than model_timeout_s in all, and calls it a bounded number of *)
(* times (_generate_fitting, _recover_bad_reply).                          *)
DeadlineKept ==
  work # None /\ work.place \in {"search", "call", "recover"} =>
    /\ now <= work.began + ModelTimeout
    /\ work.calls <= 2 * (Shorten + 1) + 2

(* What is sent passed the checks: no draft that was found unusable, after *)
(* a rejected draft not even the notice that the answer is too long, and   *)
(* when nothing was found no freely generated repair (_handle_payload).    *)
UsableOnly ==
  work # None /\ work.text # None =>
    /\ work.text \notin Unusable
    /\ work.rejected => work.text # "too long"
    /\ work.web \in {"unverifiable", "fixed"} => work.text # "recovered"

(* A score or a forecast that waits out a hold or a pause is not sent once *)
(* it has expired, and a travel time is called current, or a road free of  *)
(* delays, by its age then and not when it was asked for, and never by a   *)
(* report fetched MAX_AGE_S ago or earlier, however the computer's clock   *)
(* was set (_send, TrafficCache.answer).                                   *)
FactsFresh ==
  [][work # None /\ work' # None /\ work.place = "ready" /\ work'.place = "sending" =>
       /\ work.text = "fact" => now < work.expires
       /\ work.text = "travel" =>
            \A d \in Corridor : work'.told[d] \in {"current", "no delay"} =>
              /\ reports[d] # NoReport
              /\ now - reports[d].mono < MaxReportAge
              /\ work'.told[d] = "current" => now - reports[d].observed < MaxReportAge - wrong]_allVars

(* After /forget nothing of what the sender said before is remembered, nor *)
(* understood as the topic of a later message, nor is what became of it,   *)
(* whichever step the requests under way were in (_handle_command).        *)
RememberedHonestly ==
  /\ remembered \cap forgotten = {}
  /\ \A s \in Sender : ToSet(outcomes[s]) \cap forgotten = {}
  /\ \A s \in Sender : topic[s] # None => topic[s].of \notin forgotten

(* Every request ends, though the model never answer: none stays in the    *)
(* queue or with the model for ever (model_timeout_s).                     *)
Ends == <>[](\A m \in Message : pc[m] \in {"idle", "done"})

=============================================================================

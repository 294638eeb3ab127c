------------------------ MODULE AnswerPipelineProofs ------------------------
(***************************************************************************)
(* Theorems of DirectReplies and AnswerPipeline for any senders, messages, *)
(* limits and bounds of the maps.                                          *)
(***************************************************************************)
EXTENDS AnswerPipeline, SequenceTheorems, TLAPS

(* What the two looks at the count rest on: a reply to a mention that is   *)
(* on the air was within the limit, and nothing is counted beside it.      *)
LoopInv ==
  /\ count \in [Sender -> Nat]
  /\ pc \in [Message -> Places]
  /\ \A m \in Message : pc[m] \in {"holding", "sending"} => owner = m
  /\ \A m \in Message : pc[m] = "sending" /\ Direct(m) => count[SenderOf[m]] <= Limit
  /\ LoopBounded

LEMMA LoopInit == Init => LoopInv
BY DirectAssumption DEF Init, LoopInv, LoopBounded, Places

(* Counts that are dropped keep the others.                                *)
LEMMA ForgetKeeps ==
  ASSUME LoopInv, NEW gone, Forget(gone)
  PROVE  /\ count' \in [Sender -> Nat]
         /\ \A s \in Sender : count'[s] <= count[s]
BY DEF LoopInv, Forget

(* A step that counts nothing and puts no reply on the air.                *)
LEMMA Uncounted ==
  ASSUME LoopInv, NEW m \in Message, NEW place \in Places, Goto(m, place),
         count' \in [Sender -> Nat], \A s \in Sender : count'[s] <= count[s],
         place = "sending" /\ Direct(m) => count'[SenderOf[m]] <= Limit,
         \A q \in Message : pc'[q] \in {"holding", "sending"} => owner' = q
  PROVE  LoopInv'
<1>1. \A q \in Message : pc'[q] = IF q = m THEN place ELSE pc[q]
  BY DEF Goto, LoopInv
<1>2. pc' \in [Message -> Places]
  BY DEF Goto, LoopInv
<1>3. \A q \in Message : pc'[q] = "sending" /\ Direct(q) => count'[SenderOf[q]] <= Limit
  <2> SUFFICES ASSUME NEW q \in Message, pc'[q] = "sending", Direct(q)
               PROVE  count'[SenderOf[q]] <= Limit
    OBVIOUS
  <2>1. CASE q = m
    BY <1>1, <2>1
  <2>2. CASE q # m
    <3>1. SenderOf[q] \in Sender
      BY DirectAssumption
    <3>2. count'[SenderOf[q]] <= count[SenderOf[q]] /\ count[SenderOf[q]] <= Limit
      BY <1>1, <2>2, <3>1 DEF LoopInv
    <3>3. count'[SenderOf[q]] \in Nat /\ count[SenderOf[q]] \in Nat /\ Limit \in Nat
      BY <3>1, DirectAssumption DEF LoopInv
    <3> QED BY <3>2, <3>3
  <2> QED BY <2>1, <2>2
<1>4. LoopBounded'
  BY DirectAssumption DEF LoopInv, LoopBounded
<1> QED BY <1>2, <1>3, <1>4 DEF LoopInv, Direct

LEMMA LoopNext == LoopInv /\ [Next]_vars => LoopInv'
<1> SUFFICES ASSUME LoopInv, [Next]_vars PROVE LoopInv'
  OBVIOUS
<1>1. ASSUME NEW m \in Message, ReceivePlain(m) PROVE LoopInv'
  <2>1. PICK place \in {"waiting", "done"} : Goto(m, place)
    BY <1>1 DEF ReceivePlain
  <2>2. count' \in [Sender -> Nat] /\ \A s \in Sender : count'[s] <= count[s]
    BY <1>1, ForgetKeeps DEF ReceivePlain
  <2>3. \A q \in Message : pc'[q] \in {"holding", "sending"} => owner' = q
    BY <1>1, <2>1 DEF ReceivePlain, Goto, LoopInv
  <2> QED BY <2>1, <2>2, <2>3, Uncounted DEF Places
<1>2. ASSUME NEW m \in Message, ReceiveDirect(m) PROVE LoopInv'
  <2>1. PICK place \in {"waiting", "done"} : Goto(m, place)
    BY <1>2 DEF ReceiveDirect
  <2>2. count' \in [Sender -> Nat] /\ \A s \in Sender : count'[s] <= count[s]
    BY <1>2, ForgetKeeps DEF ReceiveDirect
  <2>3. \A q \in Message : pc'[q] \in {"holding", "sending"} => owner' = q
    BY <1>2, <2>1 DEF ReceiveDirect, Goto, LoopInv
  <2> QED BY <2>1, <2>2, <2>3, Uncounted DEF Places
<1>3. ASSUME NEW m \in Message, Drop(m) PROVE LoopInv'
  <2>1. \A q \in Message : pc'[q] \in {"holding", "sending"} => owner' = q
    BY <1>3 DEF Drop, Goto, LoopInv
  <2>2. count' \in [Sender -> Nat] /\ \A s \in Sender : count'[s] <= count[s]
    BY <1>3 DEF Drop, LoopInv
  <2> QED BY <1>3, <2>1, <2>2, Uncounted DEF Drop, Places
<1>4. ASSUME NEW m \in Message, Admit(m) PROVE LoopInv'
  <2>1. count' \in [Sender -> Nat] /\ \A s \in Sender : count'[s] <= count[s]
    BY <1>4 DEF Admit, LoopInv
  <2>2. \A q \in Message : pc[q] \notin {"holding", "sending"}
    BY <1>4, DirectAssumption DEF Admit, LoopInv
  <2>3. \/ Goto(m, "done") /\ UNCHANGED owner
        \/ Goto(m, "holding") /\ owner' = m
    BY <1>4 DEF Admit
  <2>4. \A q \in Message : pc'[q] \in {"holding", "sending"} => owner' = q
    BY <2>2, <2>3 DEF Goto, LoopInv
  <2> QED BY <2>1, <2>3, <2>4, Uncounted DEF Places
<1>5. ASSUME NEW m \in Message, Send(m) PROVE LoopInv'
  <2>1. count' \in [Sender -> Nat] /\ \A s \in Sender : count'[s] <= count[s]
    BY <1>5 DEF Send, LoopInv
  <2>2. \/ Goto(m, "sending") /\ UNCHANGED owner /\ (Direct(m) => count'[SenderOf[m]] <= Limit)
        \/ Goto(m, "done")
    BY <1>5 DEF Send
  <2>3. \A q \in Message : q # m => pc[q] \notin {"holding", "sending"}
    BY <1>5 DEF Send, LoopInv
  <2>4. \A q \in Message : pc'[q] \in {"holding", "sending"} => owner' = q
    BY <1>5, <2>2, <2>3 DEF Goto, LoopInv, Send
  <2> QED BY <2>1, <2>2, <2>4, Uncounted DEF Places
<1>6. ASSUME NEW m \in Message, FinishSend(m) PROVE LoopInv'
  <2>1. \A q \in Message : pc'[q] \notin {"holding", "sending"}
    BY <1>6 DEF FinishSend, Goto, LoopInv
  <2>2. pc' \in [Message -> Places]
    BY <1>6 DEF FinishSend, Goto, LoopInv, Places
  <2>3. SenderOf[m] \in Sender /\ Limit \in Nat
    BY DirectAssumption
  <2>4. count' \in [Sender -> Nat] /\ LoopBounded'
    <3>1. CASE Direct(m)
      <4>1. count[SenderOf[m]] <= Limit
        BY <1>6, <3>1 DEF FinishSend, LoopInv
      <4> QED BY <1>6, <2>3, <3>1, <4>1 DEF FinishSend, LoopInv, LoopBounded
    <3>2. CASE ~Direct(m)
      BY <1>6, <3>2 DEF FinishSend, LoopInv, LoopBounded
    <3> QED BY <3>1, <3>2
  <2> QED BY <2>1, <2>2, <2>4 DEF LoopInv
<1>7. CASE Tick
  BY <1>7 DEF Tick, LoopInv, LoopBounded
<1>8. CASE UNCHANGED vars
  BY <1>8 DEF vars, LoopInv, LoopBounded
<1> QED BY <1>1, <1>2, <1>3, <1>4, <1>5, <1>6, <1>7, <1>8 DEF Next

-----------------------------------------------------------------------------
(* The pipeline obeys the loop guard *)

LEMMA PipelineStep == [PipelineNext]_allVars => [Next]_vars
<1> SUFFICES ASSUME [PipelineNext]_allVars PROVE [Next]_vars
  OBVIOUS
<1>1. ASSUME NEW m \in Message, Draft(m) PROVE UNCHANGED vars
  BY <1>1 DEF Draft
<1>2. ASSUME NEW m \in Message, Receive(m) PROVE Next
  BY <1>2 DEF Receive, Next
<1>3. ASSUME NEW m \in Message, AdmitRequest(m) \/ DropRequest(m) PROVE Next
  BY <1>3 DEF AdmitRequest, DropRequest, Next
<1>4. ASSUME NEW m \in Message, Owned(m) PROVE [Next]_vars
  <2>1. CASE SearchEnds(m) \/ Answered(m) \/ CallFails(m) \/ CallTimesOut(m) \/ Recovered(m)
    BY <2>1 DEF SearchEnds, Answered, CallFails, CallTimesOut, Recovered
  <2>2. CASE Decline(m)
    BY <2>2 DEF Decline, Quit, Next
  <2>3. CASE Transmit(m)
    BY <2>3 DEF Transmit, Next
  <2>4. CASE Sent(m)
    BY <2>4 DEF Sent, Next
  <2> QED BY <1>4, <2>1, <2>2, <2>3, <2>4 DEF Owned
<1>5. CASE RefreshCache
  BY <1>5 DEF RefreshCache
<1>6. CASE Pass
  BY <1>6 DEF Pass, Next
<1>7. CASE UNCHANGED allVars
  BY <1>7 DEF allVars
<1> QED BY <1>1, <1>2, <1>3, <1>4, <1>5, <1>6, <1>7 DEF PipelineNext

(* However an answer is made, what it does to the counts is a step of the  *)
(* loop guard: the pipeline takes each look where DirectReplies says       *)
(* (_handle_payload, _send).                                               *)
THEOREM PipelineObeysGuard == PipelineSpec => Spec
<1>1. PipelineInit => Init
  BY DEF PipelineInit
<1> QED BY <1>1, PipelineStep, PTL DEF PipelineSpec, Spec

(* No sender gets more replies to its mentions than the limit and a notice *)
(* before the count begins anew, whatever the limit, the bounds of the two *)
(* maps and the number of messages that wait together (_direct_guidance).  *)
THEOREM LoopBoundedAlways == PipelineSpec => []LoopBounded
<1>1. Init => LoopInv
  BY LoopInit
<1>2. LoopInv /\ [Next]_vars => LoopInv'
  BY LoopNext
<1>3. LoopInv => LoopBounded
  BY DEF LoopInv
<1>4. Spec => []LoopBounded
  BY <1>1, <1>2, <1>3, PTL DEF Spec
<1> QED BY <1>4, PipelineObeysGuard, PTL

-----------------------------------------------------------------------------
(* The request at work *)

Spoken == {"unavailable", "current", "no delay", "last known"}

Work ==
  [place : {"draft", "search", "call", "recover", "ready", "sending"},
   text : Texts \cup {None}, attempt : {0, 1}, rejected : BOOLEAN,
   retries : Nat, validated : BOOLEAN,
   web : {"none", "sources", "fixed", "unverifiable"},
   deadline : Nat \cup {None}, expires : Nat \cup {None},
   calls : Nat, began : Nat, told : [Corridor -> Spoken] \cup {None}]

(* The calls that an attempt before this one may have made.                *)
Before(w) == IF w.attempt = 0 THEN 0 ELSE Shorten + 1

Spare(w) == Before(w) + w.retries + (IF w.validated THEN 1 ELSE 0)

(* No place but a call, a recovery or a search takes time, and each has a  *)
(* timer; what has no deadline yet has just begun.                         *)
Timely(w, t) ==
  /\ w.began <= t
  /\ w.deadline # None => w.deadline <= w.began + ModelTimeout
  /\ w.place \in {"call", "recover"} => w.deadline # None /\ t <= w.deadline
  /\ w.place = "search" => w.deadline # None /\ t <= w.began + SearchTimeout
  /\ w.place = "draft" => w.deadline # None \/ t = w.began

(* Each call is paid by the first try of an attempt, a shortening, or the  *)
(* one check of the evidence; the last is the recovery.                    *)
FewCalls(w) ==
  /\ w.retries <= Shorten
  /\ w.place \in {"search", "draft"} => w.calls <= Spare(w)
  /\ w.place = "call" => w.calls <= Spare(w) + 1
  /\ w.place = "recover" => w.calls <= 2 * (Shorten + 1) + 2

(* A text comes with what was checked when it was chosen.                  *)
Checked(w) ==
  /\ w.place \notin {"ready", "sending"} => w.text = None
  /\ w.place = "recover" => w.web # "fixed"
  /\ w.place \in {"ready", "sending"} =>
       /\ w.text = "fact" => w.expires # None
       /\ w.text = "too long" => ~w.rejected
       /\ w.text = "recovered" => w.web \notin {"unverifiable", "fixed"}

WorkOK(w, t) == w \in Work /\ Timely(w, t) /\ FewCalls(w) /\ Checked(w)

WorkInv == IF owner = None THEN work = None ELSE WorkOK(work, now)

CacheTypeOK ==
  /\ now \in Nat
  /\ reports \in [Corridor -> Report \cup {NoReport}]
  /\ wrong \in Int

(* What a text is judged for: the call before it, if there was one, is paid*)
(* for, and the deadline, if there is one, is the common one.              *)
Judged(w) ==
  /\ w \in Work /\ w.text = None
  /\ w.began <= now
  /\ w.deadline # None \/ now = w.began
  /\ w.deadline # None => w.deadline <= w.began + ModelTimeout
  /\ w.retries <= Shorten /\ w.calls <= Spare(w) + 1

(* A text that may be sent as it is makes the request ready.               *)
LEMMA ReadyOK ==
  ASSUME NEW w \in Work, w.began <= now, w.retries <= Shorten,
         w.deadline # None => w.deadline <= w.began + ModelTimeout,
         NEW text \in Texts, Ready(w, text),
         text = "fact" => w.expires # None,
         text = "too long" => ~w.rejected,
         text = "recovered" => w.web \notin {"unverifiable", "fixed"}
  PROVE  WorkOK(work', now)
<1>1. work' = [w EXCEPT !.place = "ready", !.text = text]
  BY DEF Ready
<1>2. work' \in Work
  BY <1>1 DEF Work
<1>3. /\ work'.place = "ready" /\ work'.text = text
      /\ work'.began = w.began /\ work'.deadline = w.deadline /\ work'.retries = w.retries
      /\ work'.expires = w.expires /\ work'.rejected = w.rejected /\ work'.web = w.web
  BY <1>1 DEF Work
<1>4. Timely(work', now) /\ FewCalls(work')
  BY <1>3 DEF Timely, FewCalls
<1>5. Checked(work')
  BY <1>3 DEF Checked
<1> QED BY <1>2, <1>4, <1>5 DEF WorkOK

LEMMA RecoveryOK ==
  ASSUME NEW m, NEW w, Judged(w), CacheTypeOK, RecoverWith(m, w)
  PROVE  WorkOK(work', now)
<1>1. w \in Work /\ w.began <= now /\ w.retries <= Shorten
      /\ (w.deadline # None => w.deadline <= w.began + ModelTimeout)
  BY DEF Judged
<1>2. ASSUME NEW text \in {"greeting", "apology"}, Ready(w, text) PROVE WorkOK(work', now)
  BY <1>1, <1>2, ReadyOK DEF Texts
<1>3. ASSUME w.deadline # None, now < w.deadline, w.web # "fixed",
             work' = [w EXCEPT !.place = "recover", !.calls = @ + 1]
      PROVE  WorkOK(work', now)
  <2>10. w.calls + 1 \in Nat
    BY <1>1 DEF Work
  <2>1. work' \in Work
    BY <1>1, <1>3, <2>10 DEF Work
  <2>2. /\ work'.place = "recover" /\ work'.text = None
        /\ work'.began = w.began /\ work'.deadline = w.deadline /\ work'.retries = w.retries
        /\ work'.web = w.web /\ work'.calls = w.calls + 1
    BY <1>1, <1>3 DEF Work, Judged
  <2>3. w.deadline \in Nat
    BY <1>1, <1>3 DEF Work
  <2>4. Timely(work', now)
    BY <1>1, <1>3, <2>2, <2>3 DEF Timely, CacheTypeOK
  <2>5. w.calls \in Nat /\ w.retries \in Nat /\ Shorten \in Nat
    BY <1>1, PipelineAssumption DEF Work
  <2>6. Spare(w) \in Nat /\ Spare(w) <= (Shorten + 1) + Shorten + 1
    BY <1>1, <2>5 DEF Spare, Before
  <2>7. w.calls + 1 <= 2 * (Shorten + 1) + 2
    BY <2>5, <2>6 DEF Judged
  <2>8. FewCalls(work')
    BY <1>1, <2>2, <2>7 DEF FewCalls
  <2>9. Checked(work')
    BY <1>3, <2>2 DEF Checked
  <2> QED BY <2>1, <2>4, <2>8, <2>9 DEF WorkOK
<1> QED BY <1>2, <1>3 DEF RecoverWith

LEMMA RejectedWork ==
  ASSUME NEW w \in Work
  PROVE  [w EXCEPT !.place = "draft", !.attempt = 1, !.rejected = TRUE, !.retries = 0] \in Work
<1>1. ASSUME NEW p \in {"draft", "search", "call", "recover", "ready", "sending"}, NEW a \in {0, 1},
             NEW j \in BOOLEAN, NEW n \in Nat
      PROVE  [w EXCEPT !.place = p, !.attempt = a, !.rejected = j, !.retries = n] \in Work
  BY DEF Work
<1>2. /\ "draft" \in {"draft", "search", "call", "recover", "ready", "sending"}
      /\ 1 \in {0, 1} /\ TRUE \in BOOLEAN /\ 0 \in Nat
  OBVIOUS
<1> QED BY <1>1, <1>2

LEMMA AgainOK ==
  ASSUME NEW m, NEW w, Judged(w), CacheTypeOK, Again(m, w)
  PROVE  WorkOK(work', now)
<1>1. ASSUME w.attempt = 0,
             work' = [w EXCEPT !.place = "draft", !.attempt = 1, !.rejected = TRUE, !.retries = 0]
      PROVE  WorkOK(work', now)
  <2>1. w \in Work /\ Shorten \in Nat
    BY PipelineAssumption DEF Judged
  <2>2. work' \in Work
    BY <1>1, <2>1, RejectedWork
  <2>3. /\ work'.place = "draft" /\ work'.text = None /\ work'.attempt = 1
        /\ work'.retries = 0 /\ work'.validated = w.validated
        /\ work'.began = w.began /\ work'.deadline = w.deadline /\ work'.calls = w.calls
    BY <1>1, <2>1 DEF Work, Judged
  <2>4. Timely(work', now)
    BY <2>3 DEF Timely, Judged
  <2>5. w.calls <= w.retries + (IF w.validated THEN 1 ELSE 0) + 1 /\ w.retries <= Shorten
    BY <1>1, <2>1 DEF Judged, Spare, Before, Work
  <2>6. w.calls \in Nat /\ w.retries \in Nat /\ w.validated \in BOOLEAN
    BY <2>1 DEF Work
  <2>7. FewCalls(work')
    BY <2>1, <2>3, <2>5, <2>6 DEF FewCalls, Spare, Before
  <2>8. Checked(work')
    BY <2>3 DEF Checked
  <2> QED BY <2>2, <2>4, <2>7, <2>8 DEF WorkOK
<1> QED BY <1>1, RecoveryOK DEF Again

(* Whatever is returned, what becomes of it keeps what is known of a       *)
(* request (_handle_payload after _generate_fitting).                      *)
LEMMA SettleOK ==
  ASSUME NEW m, NEW w, Judged(w), CacheTypeOK,
         NEW text \in {"clean", "bad", "pass", "long", "cut", "failure", "program", "fact"},
         text = "fact" => w.expires # None, Settle(m, w, text)
  PROVE  WorkOK(work', now)
<1>1. w \in Work /\ w.began <= now /\ w.retries <= Shorten
      /\ (w.deadline # None => w.deadline <= w.began + ModelTimeout)
  BY DEF Judged
<1>2. CASE text = "bad"
  BY <1>2, AgainOK DEF Settle
<1>3. CASE text = "pass"
  <2>1. Ready(w, "social") \/ RecoverWith(m, w) \/ Again(m, w)
    BY <1>3 DEF Settle
  <2> QED BY <1>1, <2>1, AgainOK, RecoveryOK, ReadyOK DEF Texts, Exchange
<1>4. CASE text \in {"long", "cut"}
  <2>1. RecoverWith(m, w) \/ (~w.rejected /\ Ready(w, "too long"))
    BY <1>4 DEF Settle
  <2> QED BY <1>1, <2>1, RecoveryOK, ReadyOK DEF Texts, Exchange
<1>5. CASE text \in {"clean", "failure", "program", "fact"}
  <2>1. Ready(w, text)
    BY <1>5 DEF Settle
  <2> QED BY <1>1, <1>5, <2>1, ReadyOK DEF Texts, Exchange
<1> QED BY <1>2, <1>3, <1>4, <1>5

LEMMA GiveUpOK ==
  ASSUME NEW m, NEW w, Judged(w), CacheTypeOK, GiveUp(m, w)
  PROVE  WorkOK(work', now)
<1>1. RecoverWith(m, w) \/ Ready(w, "apology")
  BY DEF GiveUp, Apologise
<1> QED BY <1>1, RecoveryOK, ReadyOK DEF Judged, Texts

LEMMA TimeIsUpOK ==
  ASSUME NEW m, NEW w, Judged(w), CacheTypeOK, TimeIsUp(m, w)
  PROVE  WorkOK(work', now)
<1>1. CASE w.web # "none"
  <2> DEFINE fixed == [w EXCEPT !.web = "fixed"]
  <2>1. Judged(fixed)
    BY DEF Judged, Work, Spare, Before
  <2>2. Settle(m, fixed, "failure")
    BY <1>1 DEF TimeIsUp
  <2> HIDE DEF fixed
  <2> QED BY <2>1, <2>2, SettleOK
<1>2. CASE w.web = "none"
  BY <1>2, GiveUpOK DEF TimeIsUp
<1> QED BY <1>1, <1>2

-----------------------------------------------------------------------------
(* One step after the other *)

(* A request past admission is the one at work.                            *)
LEMMA AtWork ==
  ASSUME LoopInv, WorkInv, NEW m \in Message, pc[m] \in {"holding", "sending"}
  PROVE  owner = m /\ owner # None /\ WorkOK(work, now)
<1>1. owner = m /\ m # None
  BY DirectAssumption DEF LoopInv
<1> QED BY <1>1 DEF WorkInv

(* Before a call and after it a draft may be judged.                       *)
LEMMA JudgedHere ==
  ASSUME NEW w, WorkOK(w, now), w.place \in {"draft", "call"}
  PROVE  Judged(w)
<1>1. w \in Work /\ w.text = None /\ w.began <= now /\ w.retries <= Shorten
  BY DEF WorkOK, Timely, FewCalls, Checked
<1>2. (w.deadline # None \/ now = w.began) /\ (w.deadline # None => w.deadline <= w.began + ModelTimeout)
  BY DEF WorkOK, Timely
<1>3. w.calls <= Spare(w) \/ w.calls <= Spare(w) + 1
  BY DEF WorkOK, FewCalls
<1>4. w.calls \in Nat /\ w.retries \in Nat /\ Spare(w) \in Nat
  BY <1>1, PipelineAssumption DEF Work, Spare, Before
<1> QED BY <1>1, <1>2, <1>3, <1>4 DEF Judged

LEMMA DraftOK ==
  ASSUME LoopInv, WorkInv, CacheTypeOK, NEW m \in Message, Draft(m)
  PROVE  WorkInv'
<1>1. work.place = "draft" /\ owner' = owner /\ now' = now
  BY DEF Draft, vars
<1>2. owner # None /\ WorkOK(work, now)
  BY AtWork DEF Draft
<1>3. Judged(work)
  BY <1>1, <1>2, JudgedHere
<1>4. ASSUME now < Deadline(work),
             work' = [work EXCEPT !.place = "call", !.calls = @ + 1, !.deadline = Deadline(work)]
      PROVE  WorkOK(work', now)
  <2> DEFINE d == Deadline(work)
  <2>1. work \in Work /\ now \in Nat /\ ModelTimeout \in Nat /\ Horizon \in Nat /\ None \notin Nat
    BY <1>2, PipelineAssumption, DirectAssumption DEF WorkOK, CacheTypeOK
  <2>2. d \in Nat /\ d <= work.began + ModelTimeout
    <3>1. CASE work.deadline = None
      <4>1. now = work.began
        BY <1>3, <3>1 DEF Judged
      <4> QED BY <2>1, <3>1, <4>1 DEF Deadline, Within
    <3>2. CASE work.deadline # None
      BY <1>3, <2>1, <3>2 DEF Judged, Deadline, Work
    <3> QED BY <3>1, <3>2
  <2> HIDE DEF d
  <2>3. work.calls + 1 \in Nat /\ work.calls \in Nat
    BY <2>1 DEF Work
  <2>4. work' = [work EXCEPT !.place = "call", !.calls = @ + 1, !.deadline = d]
    BY <1>4 DEF d
  <2>5. work' \in Work
    BY <2>1, <2>2, <2>3, <2>4 DEF Work
  <2>6. /\ work'.place = "call" /\ work'.text = None /\ work'.deadline = d
        /\ work'.began = work.began /\ work'.retries = work.retries
        /\ work'.calls = work.calls + 1 /\ work'.attempt = work.attempt
        /\ work'.validated = work.validated
    BY <2>1, <2>4, <1>3 DEF Work, Judged
  <2>7. Timely(work', now)
    BY <1>3, <1>4, <2>1, <2>2, <2>6 DEF Timely, Judged, d
  <2>8. work.calls <= Spare(work) /\ work.retries <= Shorten
    BY <1>1, <1>2 DEF WorkOK, FewCalls
  <2>9. Spare(work') = Spare(work) /\ Spare(work) \in Nat
    BY <2>1, <2>6, PipelineAssumption DEF Spare, Before, Work
  <2>10. FewCalls(work')
    BY <2>3, <2>6, <2>8, <2>9 DEF FewCalls
  <2>11. Checked(work')
    BY <2>6 DEF Checked
  <2> QED BY <2>5, <2>7, <2>10, <2>11 DEF WorkOK
<1>5. ASSUME NEW text \in {"program", "bad", "failure"}, Settle(m, work, text)
      PROVE  WorkOK(work', now)
  BY <1>3, <1>5, SettleOK
<1>6. ASSUME work.expires # None, Settle(m, work, "fact")
      PROVE  WorkOK(work', now)
  BY <1>3, <1>6, SettleOK
<1>7. ASSUME TimeIsUp(m, work) PROVE WorkOK(work', now)
  BY <1>3, <1>7, TimeIsUpOK
<1>8. WorkOK(work', now)
  BY <1>4, <1>5, <1>6, <1>7 DEF Draft
<1> QED BY <1>1, <1>2, <1>8 DEF WorkInv

LEMMA SearchOK ==
  ASSUME LoopInv, WorkInv, CacheTypeOK, NEW m \in Message, SearchEnds(m)
  PROVE  WorkInv'
<1>1. work.place = "search" /\ owner' = owner /\ now' = now
  BY DEF SearchEnds, vars
<1>2. owner # None /\ work \in Work /\ Timely(work, now) /\ FewCalls(work) /\ Checked(work)
  BY AtWork DEF SearchEnds, WorkOK
<1>3. PICK web \in {"fixed", "sources", "unverifiable"},
           expires \in Nat \cup {None} :
             work' = [work EXCEPT !.place = "draft", !.web = web, !.expires = expires]
  <2>1. now \in Nat /\ ValidFor \in Nat
    BY PipelineAssumption DEF CacheTypeOK
  <2> DEFINE fact(result) == result = "pages" /\ ask[m] \in {"score", "forecast"}
             web(result) == CASE fact(result) -> "fixed"
                              [] result = "pages" -> "sources"
                              [] ask[m] = "news" /\ now < work.deadline -> "unverifiable"
                              [] OTHER -> "fixed"
             found(result, valid) ==
               [work EXCEPT !.place = "draft", !.web = web(result),
                            !.expires = IF fact(result) THEN now + valid ELSE None]
  <2>2. PICK result \in Results :
          \E valid \in IF fact(result) THEN 0 .. ValidFor ELSE {0} : work' = found(result, valid)
    BY DEF SearchEnds
  <2>3. PICK valid \in 0 .. ValidFor : work' = found(result, valid)
    <3> HIDE DEF fact, found
    <3>1. 0 \in 0 .. ValidFor
      BY <2>1
    <3> QED BY <2>2, <3>1
  <2>4. web(result) \in {"fixed", "sources", "unverifiable"}
    OBVIOUS
  <2>5. (IF fact(result) THEN now + valid ELSE None) \in Nat \cup {None}
    BY <2>1
  <2> HIDE DEF fact, web
  <2> QED BY <2>3, <2>4, <2>5 DEF found
<1>4. work' \in Work
  BY <1>2, <1>3 DEF Work
<1>5. /\ work'.place = "draft" /\ work'.text = None /\ work'.deadline = work.deadline
      /\ work'.began = work.began /\ work'.retries = work.retries
      /\ work'.calls = work.calls /\ work'.attempt = work.attempt
      /\ work'.validated = work.validated
  BY <1>1, <1>2, <1>3 DEF Work, Checked
<1>6. Timely(work', now)
  BY <1>1, <1>2, <1>5 DEF Timely
<1>7. Spare(work') = Spare(work)
  BY <1>5 DEF Spare, Before
<1>8. FewCalls(work') /\ Checked(work')
  BY <1>1, <1>2, <1>5, <1>7 DEF FewCalls, Checked
<1> QED BY <1>1, <1>2, <1>4, <1>6, <1>8 DEF WorkInv, WorkOK

LEMMA AnsweredOK ==
  ASSUME LoopInv, WorkInv, CacheTypeOK, NEW m \in Message, Answered(m)
  PROVE  WorkInv'
<1>1. work.place = "call" /\ owner' = owner /\ now' = now
  BY DEF Answered, vars
<1>2. owner # None /\ WorkOK(work, now)
  BY AtWork DEF Answered
<1>3. Judged(work) /\ work \in Work
  BY <1>1, <1>2, JudgedHere DEF WorkOK
<1>4. work.deadline # None /\ work.deadline <= work.began + ModelTimeout /\ work.began <= now
  BY <1>1, <1>2 DEF WorkOK, Timely
<1>5. work.calls \in Nat /\ work.retries \in Nat /\ Shorten \in Nat /\ Before(work) \in Nat
  BY <1>3, PipelineAssumption DEF Work, Before
<1>6. ASSUME work.validated = FALSE, work' = [work EXCEPT !.place = "draft", !.validated = TRUE]
      PROVE  WorkOK(work', now)
  <2>1. work' \in Work
    BY <1>3, <1>6 DEF Work
  <2>2. /\ work'.place = "draft" /\ work'.text = None /\ work'.deadline = work.deadline
        /\ work'.began = work.began /\ work'.retries = work.retries
        /\ work'.calls = work.calls /\ work'.attempt = work.attempt /\ work'.validated = TRUE
    BY <1>3, <1>6 DEF Work, Judged
  <2>3. Timely(work', now) /\ Checked(work')
    BY <1>4, <2>2 DEF Timely, Checked
  <2>4. Spare(work') = Spare(work) + 1
    BY <1>5, <1>6, <2>2 DEF Spare, Before
  <2>5. FewCalls(work')
    BY <1>3, <2>2, <2>4 DEF FewCalls, Judged
  <2> QED BY <2>1, <2>3, <2>5 DEF WorkOK
<1>7. ASSUME work.retries < Shorten, work' = [work EXCEPT !.place = "draft", !.retries = @ + 1]
      PROVE  WorkOK(work', now)
  <2>1. work.retries + 1 \in Nat /\ work.retries + 1 <= Shorten
    BY <1>5, <1>7
  <2>2. work' \in Work
    BY <1>3, <1>7, <2>1 DEF Work
  <2>3. /\ work'.place = "draft" /\ work'.text = None /\ work'.deadline = work.deadline
        /\ work'.began = work.began /\ work'.retries = work.retries + 1
        /\ work'.calls = work.calls /\ work'.attempt = work.attempt
        /\ work'.validated = work.validated
    BY <1>3, <1>7 DEF Work, Judged
  <2>4. Timely(work', now) /\ Checked(work')
    BY <1>4, <2>3 DEF Timely, Checked
  <2>5. Spare(work') = Spare(work) + 1
    BY <1>5, <2>3 DEF Spare, Before
  <2>6. FewCalls(work')
    BY <1>3, <2>1, <2>3, <2>5 DEF FewCalls, Judged
  <2> QED BY <2>2, <2>4, <2>6 DEF WorkOK
<1>8. ASSUME NEW text \in {"clean", "bad", "pass", "long", "cut", "failure"}, Settle(m, work, text)
      PROVE  WorkOK(work', now)
  BY <1>3, <1>8, SettleOK
<1>9. ASSUME GiveUp(m, work) PROVE WorkOK(work', now)
  BY <1>3, <1>9, GiveUpOK
<1>10. WorkOK(work', now)
  <2>1. PICK text \in Written(work) :
          CASE text = "unsupported" ->
                 IF work.validated THEN Settle(m, work, "failure")
                 ELSE work' = [work EXCEPT !.place = "draft", !.validated = TRUE]
            [] text \in {"long", "cut"} /\ work.retries < Shorten ->
                 work' = [work EXCEPT !.place = "draft", !.retries = @ + 1]
            [] text = "empty" -> GiveUp(m, work)
            [] OTHER -> Settle(m, work, text)
    BY DEF Answered
  <2>2. text \in Supported \cup {"clean", "bad", "pass", "empty", "long", "cut"}
    BY DEF Written, Supported
  <2>3. CASE text = "unsupported"
    <3>1. work.validated \in BOOLEAN
      BY <1>3 DEF Work
    <3> QED BY <1>6, <1>8, <2>1, <2>3, <3>1
  <2>4. CASE text \in {"long", "cut"} /\ work.retries < Shorten
    BY <1>7, <2>1, <2>4
  <2>5. CASE text = "empty"
    BY <1>9, <2>1, <2>5
  <2>6. CASE text \notin {"unsupported", "empty"} /\ ~(text \in {"long", "cut"} /\ work.retries < Shorten)
    BY <1>8, <2>1, <2>2, <2>6 DEF Supported
  <2> QED BY <2>3, <2>4, <2>5, <2>6
<1> QED BY <1>1, <1>2, <1>10 DEF WorkInv

LEMMA CallEndsOK ==
  ASSUME LoopInv, WorkInv, CacheTypeOK, NEW m \in Message, CallFails(m) \/ CallTimesOut(m)
  PROVE  WorkInv'
<1>1. work.place = "call" /\ owner' = owner /\ now' = now
  BY DEF CallFails, CallTimesOut, vars
<1>2. owner # None /\ WorkOK(work, now)
  BY AtWork DEF CallFails, CallTimesOut
<1>3. Judged(work)
  BY <1>1, <1>2, JudgedHere
<1>4. WorkOK(work', now)
  BY <1>3, GiveUpOK, TimeIsUpOK DEF CallFails, CallTimesOut
<1> QED BY <1>1, <1>2, <1>4 DEF WorkInv

LEMMA RecoveredOK ==
  ASSUME LoopInv, WorkInv, NEW m \in Message, Recovered(m)
  PROVE  WorkInv'
<1>1. work.place = "recover" /\ owner' = owner /\ now' = now
  BY DEF Recovered, vars
<1>2. owner # None /\ WorkOK(work, now)
  BY AtWork DEF Recovered
<1>3. /\ work \in Work /\ work.began <= now /\ work.retries <= Shorten
      /\ work.deadline # None => work.deadline <= work.began + ModelTimeout
      /\ work.web # "fixed"
  BY <1>1, <1>2 DEF WorkOK, Timely, FewCalls, Checked
<1>4. Ready(work, "apology") \/ (work.web # "unverifiable" /\ Ready(work, "recovered"))
  BY DEF Recovered
<1>5. WorkOK(work', now)
  BY <1>3, <1>4, ReadyOK DEF Texts, Exchange
<1> QED BY <1>1, <1>2, <1>5 DEF WorkInv

LEMMA TransmitOK ==
  ASSUME LoopInv, WorkInv, NEW m \in Message, Transmit(m)
  PROVE  WorkInv'
<1>1. work.place = "ready" /\ now' = now /\ pc[m] = "holding"
  BY DEF Transmit, Send
<1>2. owner # None /\ work \in Work /\ Timely(work, now) /\ FewCalls(work) /\ Checked(work)
  BY <1>1, AtWork DEF WorkOK
<1>3. (pc'[m] = "sending" /\ owner' = owner) \/ (pc'[m] = "done" /\ owner' = None)
  BY DEF Transmit, Send, Goto, LoopInv
<1>4. CASE pc'[m] = "done"
  BY <1>3, <1>4 DEF Transmit, WorkInv
<1>5. CASE pc'[m] = "sending"
  <2>1. Answer(now) \in [Corridor -> Spoken]
    BY DEF Answer, Said, Spoken
  <2>2. PICK told \in [Corridor -> Spoken] \cup {None} :
          work' = [[work EXCEPT !.place = "sending"] EXCEPT !.told = told]
    BY <1>5, <2>1 DEF Transmit, TravelTold
  <2>3. work' \in Work
    BY <1>2, <2>2 DEF Work
  <2>4. /\ work'.place = "sending" /\ work'.text = work.text /\ work'.deadline = work.deadline
        /\ work'.began = work.began /\ work'.retries = work.retries
        /\ work'.rejected = work.rejected /\ work'.expires = work.expires /\ work'.web = work.web
    BY <1>2, <2>2 DEF Work
  <2>5. Timely(work', now) /\ FewCalls(work') /\ Checked(work')
    BY <1>1, <1>2, <2>4 DEF Timely, FewCalls, Checked
  <2> QED BY <1>1, <1>2, <1>3, <1>5, <2>3, <2>5 DEF WorkInv, WorkOK
<1> QED BY <1>3, <1>4, <1>5

LEMMA AdmitOK ==
  ASSUME LoopInv, WorkInv, CacheTypeOK, NEW m \in Message, AdmitRequest(m)
  PROVE  WorkInv'
<1>1. (pc'[m] = "done" /\ owner' = None) \/ (pc'[m] = "holding" /\ owner' = m /\ m # None)
  BY DirectAssumption DEF AdmitRequest, Admit, Goto, LoopInv
<1>2. CASE pc'[m] = "done"
  BY <1>1, <1>2 DEF AdmitRequest, WorkInv
<1>3. CASE pc'[m] = "holding"
  <2>1. work' = Started(m) /\ now' = now
    BY <1>3 DEF AdmitRequest, Admit
  <2>2. /\ now \in Nat /\ ModelTimeout \in Nat /\ SearchTimeout \in Nat /\ Horizon \in Nat
        /\ Shorten \in Nat /\ None \notin Nat
    BY PipelineAssumption, DirectAssumption DEF CacheTypeOK
  <2>3. ASSUME NEW text \in {"notice", "redirect", "command", "travel"},
               work' = [NewRequest EXCEPT !.place = "ready", !.text = text]
        PROVE  WorkOK(work', now)
    <3>1. work' \in Work
      BY <2>2, <2>3 DEF NewRequest, Work, Texts, Exchange
    <3>2. Timely(work', now) /\ FewCalls(work') /\ Checked(work')
      BY <2>2, <2>3 DEF NewRequest, Timely, FewCalls, Checked
    <3> QED BY <3>1, <3>2 DEF WorkOK
  <2>4. ASSUME work' = [NewRequest EXCEPT !.place = "search", !.deadline = Within(now + ModelTimeout)]
        PROVE  WorkOK(work', now)
    <3> DEFINE d == Within(now + ModelTimeout)
    <3>1. d \in Nat /\ d <= now + ModelTimeout /\ d # None
      BY <2>2 DEF Within
    <3> HIDE DEF d
    <3>2. work' = [NewRequest EXCEPT !.place = "search", !.deadline = d]
      BY <2>4 DEF d
    <3>3. work' \in Work
      BY <2>2, <3>1, <3>2 DEF NewRequest, Work
    <3>4. Timely(work', now) /\ FewCalls(work') /\ Checked(work')
      BY <2>2, <3>1, <3>2 DEF NewRequest, Timely, FewCalls, Checked, Spare, Before
    <3> QED BY <3>3, <3>4 DEF WorkOK
  <2>5. ASSUME work' = NewRequest PROVE WorkOK(work', now)
    <3>1. work' \in Work
      BY <2>2, <2>5 DEF NewRequest, Work
    <3>2. Timely(work', now) /\ FewCalls(work') /\ Checked(work')
      BY <2>2, <2>5 DEF NewRequest, Timely, FewCalls, Checked, Spare, Before
    <3> QED BY <3>1, <3>2 DEF WorkOK
  <2>6. WorkOK(work', now)
    BY <2>1, <2>3, <2>4, <2>5 DEF Started
  <2> QED BY <1>1, <1>3, <2>1, <2>6 DEF WorkInv
<1> QED BY <1>1, <1>2, <1>3

(* While a draft is made nothing else happens, and the clock does not pass *)
(* a timer that is due.                                                    *)
LEMMA PassOK ==
  ASSUME WorkInv, CacheTypeOK, Pass, ~Urgent
  PROVE  WorkInv'
<1>1. now' = now + 1 /\ owner' = owner /\ work' = work /\ now \in Nat
  BY DEF Pass, Tick, CacheTypeOK
<1>2. CASE owner = None
  BY <1>1, <1>2 DEF WorkInv
<1>3. CASE owner # None
  <2>1. work \in Work /\ Timely(work, now) /\ FewCalls(work) /\ Checked(work)
    BY <1>3 DEF WorkInv, WorkOK
  <2>2. /\ work.place # "draft"
        /\ work.place \in {"call", "recover"} => ~(now >= work.deadline)
        /\ work.place = "search" => ~(now >= work.began + SearchTimeout)
    BY <1>3 DEF Pass, TimerDue, Urgent
  <2>3. /\ work.began \in Nat /\ SearchTimeout \in Nat
        /\ work.deadline # None => work.deadline \in Nat
    BY <2>1, PipelineAssumption DEF Work
  <2>4. Timely(work, now + 1)
    BY <1>1, <2>1, <2>2, <2>3 DEF Timely
  <2> QED BY <1>1, <1>3, <2>1, <2>4 DEF WorkInv, WorkOK
<1> QED BY <1>2, <1>3

LEMMA WorkNext == LoopInv /\ CacheTypeOK /\ WorkInv /\ [PipelineNext]_allVars => WorkInv'
<1> SUFFICES ASSUME LoopInv, CacheTypeOK, WorkInv, [PipelineNext]_allVars
             PROVE  WorkInv'
  OBVIOUS
<1>1. ASSUME NEW m \in Message, Draft(m) PROVE WorkInv'
  BY <1>1, DraftOK
<1>2. ASSUME NEW m \in Message, Receive(m) \/ DropRequest(m) PROVE WorkInv'
  <2>1. now' = now /\ owner' = owner /\ work' = work
    BY <1>2 DEF Receive, ReceivePlain, ReceiveDirect, DropRequest, Drop
  <2> QED BY <2>1 DEF WorkInv
<1>3. ASSUME NEW m \in Message, AdmitRequest(m) PROVE WorkInv'
  BY <1>3, AdmitOK
<1>4. ASSUME NEW m \in Message, Owned(m) PROVE WorkInv'
  <2>1. CASE SearchEnds(m)
    BY <2>1, SearchOK
  <2>2. CASE Answered(m)
    BY <2>2, AnsweredOK
  <2>3. CASE CallFails(m) \/ CallTimesOut(m)
    BY <2>3, CallEndsOK
  <2>4. CASE Recovered(m)
    BY <2>4, RecoveredOK
  <2>5. CASE Transmit(m)
    BY <2>5, TransmitOK
  <2>6. CASE Decline(m)
    <3>1. work' = None /\ pc'[m] = "done" /\ Send(m)
      BY <2>6 DEF Decline, Quit
    <3>2. owner' = None
      BY <3>1 DEF Send, Goto, LoopInv
    <3> QED BY <3>1, <3>2 DEF WorkInv
  <2>7. CASE Sent(m)
    BY <2>7 DEF Sent, FinishSend, WorkInv
  <2> QED BY <1>4, <2>1, <2>2, <2>3, <2>4, <2>5, <2>6, <2>7 DEF Owned
<1>5. CASE RefreshCache
  <2>1. now' = now /\ owner' = owner /\ work' = work
    BY <1>5 DEF RefreshCache, vars
  <2> QED BY <2>1 DEF WorkInv
<1>6. CASE Pass /\ ~Urgent
  BY <1>6, PassOK
<1>7. CASE UNCHANGED allVars
  <2>1. now' = now /\ owner' = owner /\ work' = work
    BY <1>7 DEF allVars, vars
  <2> QED BY <2>1 DEF WorkInv
<1> QED BY <1>1, <1>2, <1>3, <1>4, <1>5, <1>6, <1>7 DEF PipelineNext

LEMMA CacheNext == CacheTypeOK /\ [PipelineNext]_allVars => CacheTypeOK'
<1> SUFFICES ASSUME CacheTypeOK, [PipelineNext]_allVars
             PROVE  CacheTypeOK'
  OBVIOUS
<1>1. CASE RefreshCache
  <2>1. now' = now
    BY <1>1 DEF RefreshCache, vars
  <2>2. CASE SetClock
    BY <2>1, <2>2, TravelAssumption DEF SetClock, CacheTypeOK
  <2>3. CASE Refresh(now)
    <3>1. PICK table \in Tables : \E rows \in Parsed(now, table) :
            reports' = [d \in Corridor |->
              IF d \in table
                THEN [delayed |-> rows[d].delayed, observed |-> rows[d].observed,
                      fetched |-> Wall(now), mono |-> now]
                ELSE reports[d]]
      BY <2>3 DEF Refresh
    <3>2. PICK rows \in Parsed(now, table) :
            reports' = [d \in Corridor |->
              IF d \in table
                THEN [delayed |-> rows[d].delayed, observed |-> rows[d].observed,
                      fetched |-> Wall(now), mono |-> now]
                ELSE reports[d]]
      BY <3>1
    <3>3. wrong' = wrong
      BY <2>3 DEF Refresh
    <3>4. Wall(now) \in Int /\ now \in Nat /\ now \in Int /\ now - 1 \in Int
      BY DEF Wall, CacheTypeOK
    <3>5. rows \in [table -> [delayed : BOOLEAN, observed : {now, now - 1}]]
      BY <3>2 DEF Parsed
    <3>6. \A d \in table : rows[d].delayed \in BOOLEAN /\ rows[d].observed \in Int
      BY <3>4, <3>5
    <3>7. \A d \in Corridor : reports'[d] \in Report \cup {NoReport}
      BY <3>2, <3>4, <3>6 DEF Report, CacheTypeOK
    <3> QED BY <2>1, <3>2, <3>3, <3>7 DEF CacheTypeOK
  <2> QED BY <1>1, <2>2, <2>3 DEF RefreshCache
<1>2. CASE Pass
  BY <1>2 DEF Pass, Tick, CacheTypeOK, cache
<1>3. ASSUME UNCHANGED cache, now' = now PROVE CacheTypeOK'
  BY <1>3 DEF CacheTypeOK, cache
<1>4. ASSUME NEW m \in Message, Draft(m) PROVE UNCHANGED cache /\ now' = now
  BY <1>4 DEF Draft, vars
<1>5. ASSUME NEW m \in Message, Receive(m) \/ AdmitRequest(m) \/ DropRequest(m)
      PROVE  UNCHANGED cache /\ now' = now
  BY <1>5 DEF Receive, ReceivePlain, ReceiveDirect, AdmitRequest, Admit, DropRequest, Drop
<1>6. ASSUME NEW m \in Message, Owned(m) PROVE UNCHANGED cache /\ now' = now
  <2>1. CASE SearchEnds(m) \/ Answered(m) \/ CallFails(m) \/ CallTimesOut(m) \/ Recovered(m)
    BY <2>1 DEF SearchEnds, Answered, CallFails, CallTimesOut, Recovered, vars
  <2>2. CASE Decline(m) \/ Transmit(m) \/ Sent(m)
    BY <2>2 DEF Decline, Quit, Transmit, Send, Sent, FinishSend
  <2> QED BY <1>6, <2>1, <2>2 DEF Owned
<1>7. CASE UNCHANGED allVars
  BY <1>3, <1>7 DEF allVars, vars
<1> QED BY <1>1, <1>2, <1>3, <1>4, <1>5, <1>6, <1>7 DEF PipelineNext

LEMMA WorkInvariant == PipelineSpec => [](LoopInv /\ CacheTypeOK /\ WorkInv)
<1>1. PipelineInit => LoopInv /\ CacheTypeOK /\ WorkInv
  BY LoopInit DEF PipelineInit, Init, CacheInit, CacheTypeOK, WorkInv
<1>2. LoopInv /\ [PipelineNext]_allVars => LoopInv'
  BY LoopNext, PipelineStep
<1> QED BY <1>1, <1>2, WorkNext, CacheNext, PTL DEF PipelineSpec

(* However drafts, retries, the search and the recovery follow each other, *)
(* a request is with the model no longer than model_timeout_s and calls it *)
(* a bounded number of times, whatever the limits are (_generate_fitting). *)
THEOREM DeadlineKeptAlways == PipelineSpec => []DeadlineKept
<1>1. CacheTypeOK /\ WorkInv => DeadlineKept
  <2> SUFFICES ASSUME CacheTypeOK, WorkInv, work # None, work.place \in {"search", "call", "recover"}
               PROVE  /\ now <= work.began + ModelTimeout
                      /\ work.calls <= 2 * (Shorten + 1) + 2
    BY DEF DeadlineKept
  <2>1. work \in Work /\ Timely(work, now) /\ FewCalls(work)
    BY DEF WorkInv, WorkOK
  <2>2. /\ now \in Nat /\ work.began \in Nat /\ ModelTimeout \in Nat /\ SearchTimeout \in Nat
        /\ SearchTimeout <= ModelTimeout
        /\ work.deadline # None => work.deadline \in Nat
    BY <2>1, PipelineAssumption DEF Work, CacheTypeOK
  <2>3. now <= work.began + ModelTimeout
    BY <2>1, <2>2 DEF Timely
  <2>4. /\ work.calls \in Nat /\ work.retries \in Nat /\ Shorten \in Nat
        /\ Spare(work) \in Nat /\ Spare(work) <= (Shorten + 1) + work.retries + 1
    BY <2>1, PipelineAssumption DEF Work, Spare, Before
  <2>5. work.calls <= 2 * (Shorten + 1) + 2
    BY <2>1, <2>4 DEF FewCalls
  <2> QED BY <2>3, <2>5
<1> QED BY <1>1, WorkInvariant, PTL

(* What is sent passed the checks: no draft that was found unusable, after *)
(* a rejected one no notice that the answer is too long, and no recovery   *)
(* when nothing was found (_handle_payload, _recover_bad_reply).           *)
THEOREM UsableOnlyAlways == PipelineSpec => []UsableOnly
<1>1. WorkInv => UsableOnly
  <2> SUFFICES ASSUME WorkInv, work # None, work.text # None
               PROVE  /\ work.text \notin Unusable
                      /\ work.rejected => work.text # "too long"
                      /\ work.web \in {"unverifiable", "fixed"} => work.text # "recovered"
    BY DEF UsableOnly
  <2>1. work \in Work /\ Checked(work)
    BY DEF WorkInv, WorkOK
  <2>2. work.text \in Texts
    BY <2>1 DEF Work
  <2> QED BY <2>1, <2>2 DEF Checked, Texts, Exchange, Unusable
<1> QED BY <1>1, WorkInvariant, PTL

-----------------------------------------------------------------------------
(* Facts *)

(* Only a transmission begins to send what was ready.                      *)
LEMMA OnlyTransmitSends ==
  ASSUME LoopInv, WorkInv, [PipelineNext]_allVars,
         work # None, work' # None, work.place = "ready", work'.place = "sending"
  PROVE  \E m \in Message : Transmit(m)
<1>1. ASSUME NEW m \in Message, Draft(m) PROVE FALSE
  BY <1>1 DEF Draft
<1>2. ASSUME UNCHANGED work PROVE FALSE
  BY <1>2
<1>3. ASSUME NEW m \in Message, Receive(m) \/ DropRequest(m) PROVE FALSE
  BY <1>2, <1>3 DEF Receive, DropRequest
<1>4. ASSUME NEW m \in Message, AdmitRequest(m) PROVE FALSE
  BY <1>4 DEF AdmitRequest, Admit, WorkInv
<1>5. ASSUME NEW m \in Message, Owned(m) PROVE Transmit(m)
  BY <1>5 DEF Owned, SearchEnds, Answered, Decline, Quit, CallFails, CallTimesOut, Recovered, Sent
<1>6. CASE RefreshCache \/ Pass \/ UNCHANGED allVars
  BY <1>2, <1>6 DEF RefreshCache, Pass, allVars
<1> QED BY <1>1, <1>3, <1>4, <1>5, <1>6 DEF PipelineNext

LEMMA AgeOfReport ==
  ASSUME CacheTypeOK, NEW r \in Report, RecentlyFetched(now, r)
  PROVE  /\ now - r.mono < MaxReportAge
         /\ FreshReport(now, r) => now - r.observed < MaxReportAge - wrong
<1>1. r.observed \in Int /\ r.mono \in Nat
  BY DEF Report
<1>2. now \in Nat /\ wrong \in Int /\ MaxReportAge \in Nat
  BY TravelAssumption DEF CacheTypeOK
<1>3. now - r.mono < MaxReportAge
  BY <1>1, <1>2 DEF RecentlyFetched
<1>4. FreshReport(now, r) => now - r.observed < MaxReportAge - wrong
  BY <1>1, <1>2 DEF FreshReport, Wall
<1> QED BY <1>3, <1>4

(* What an answer calls current, or free of delays, was fetched lately and *)
(* by a clock that cannot be set (TrafficCache.answer).                    *)
LEMMA SaidOfReports ==
  ASSUME CacheTypeOK, NEW d \in Corridor, Answer(now)[d] \in {"current", "no delay"}
  PROVE  /\ reports[d] # NoReport
         /\ now - reports[d].mono < MaxReportAge
         /\ Answer(now)[d] = "current" => now - reports[d].observed < MaxReportAge - wrong
<1> DEFINE r == reports[d]
           said == Answer(now)[d]
<1>1. /\ d \in Usable(now) /\ RecentlyFetched(now, r)
      /\ said = "current" => FreshReport(now, r)
  BY DEF Answer, Said, FreshReport
<1>2. r # NoReport /\ r \in Report
  BY <1>1 DEF Usable, CacheTypeOK
<1> QED BY <1>1, <1>2, AgeOfReport

(* A score or a forecast is not sent once it has expired, nor a report     *)
(* called current that is old by then, however long the pause before the   *)
(* transmission was and however the clock was set (_send, answer).         *)
THEOREM FactsFreshAlways == PipelineSpec => FactsFresh
<1> DEFINE Fresh ==
      work # None /\ work' # None /\ work.place = "ready" /\ work'.place = "sending" =>
        /\ work.text = "fact" => now < work.expires
        /\ work.text = "travel" =>
             \A d \in Corridor : work'.told[d] \in {"current", "no delay"} =>
               /\ reports[d] # NoReport
               /\ now - reports[d].mono < MaxReportAge
               /\ work'.told[d] = "current" => now - reports[d].observed < MaxReportAge - wrong
<1>1. LoopInv /\ CacheTypeOK /\ WorkInv /\ [PipelineNext]_allVars => Fresh
  <2> SUFFICES ASSUME LoopInv, CacheTypeOK, WorkInv, [PipelineNext]_allVars,
                      work # None, work' # None, work.place = "ready", work'.place = "sending"
               PROVE  Fresh
    OBVIOUS
  <2>1. PICK m \in Message : Transmit(m)
    BY OnlyTransmitSends
  <2>2. work \in Work /\ Checked(work)
    BY DEF WorkInv, WorkOK
  <2>3. /\ work.expires # None => now < work.expires
        /\ work' = TravelTold([work EXCEPT !.place = "sending"])
    BY <2>1 DEF Transmit
  <2>4. work.text = "travel" => work'.told = Answer(now)
    BY <2>2, <2>3 DEF TravelTold, Work
  <2>5. work.text = "fact" => now < work.expires
    BY <2>2, <2>3 DEF Checked
  <2> QED BY <2>4, <2>5, SaidOfReports
<1>2. PipelineSpec => [][Fresh]_allVars
  BY <1>1, WorkInvariant, PTL DEF PipelineSpec
<1> QED BY <1>2 DEF FactsFresh

-----------------------------------------------------------------------------
(* Memory *)

SentBy(s) == {m \in Message : SenderOf[m] = s}

(* What was forgotten and is still under way is silenced, so that it cannot*)
(* come back when it ends.                                                 *)
MemoryInv ==
  /\ forgotten \subseteq Message
  /\ remembered \subseteq Message
  /\ \A m \in forgotten : pc[m] # "idle" /\ (pc[m] # "done" => m \in silenced)
  /\ outcomes \in [Sender -> Seq(Message)]
  /\ \A s \in Sender : ToSet(outcomes[s]) \subseteq SentBy(s)
  /\ topic \in [Sender -> [of : Message, at : Nat] \cup {None}]
  /\ \A s \in Sender : topic[s] # None => topic[s].of \in SentBy(s)
  /\ RememberedHonestly

(* A message that was received stays so, and one that ended has ended.     *)
LEMMA Onward ==
  ASSUME LoopInv, [Next]_vars, NEW q \in Message
  PROVE  /\ pc[q] # "idle" => pc'[q] # "idle"
         /\ pc[q] = "done" => pc'[q] = "done"
<1>1. ASSUME NEW m \in Message, NEW place \in {"waiting", "holding", "sending", "done"},
             Goto(m, place), pc[m] # "done"
      PROVE  /\ pc[q] # "idle" => pc'[q] # "idle"
             /\ pc[q] = "done" => pc'[q] = "done"
  BY <1>1 DEF Goto, LoopInv
<1>2. ASSUME NEW m \in Message, ReceivePlain(m) \/ ReceiveDirect(m)
      PROVE  pc[m] = "idle" /\ (Goto(m, "waiting") \/ Goto(m, "done"))
  BY <1>2 DEF ReceivePlain, ReceiveDirect
<1>3. ASSUME NEW m \in Message, Drop(m) \/ Admit(m) \/ Send(m) \/ FinishSend(m)
      PROVE  pc[m] # "done" /\ (Goto(m, "done") \/ Goto(m, "holding") \/ Goto(m, "sending"))
  BY <1>3 DEF Drop, Admit, Send, FinishSend
<1>4. CASE Tick \/ UNCHANGED vars
  BY <1>4 DEF Tick, vars
<1> QED BY <1>1, <1>2, <1>3, <1>4 DEF Next

LEMMA AppendToSet ==
  ASSUME NEW S, NEW q \in Seq(S), NEW e \in S
  PROVE  Append(q, e) \in Seq(S) /\ ToSet(Append(q, e)) = ToSet(q) \cup {e}
<1>1. /\ Append(q, e) \in Seq(S) /\ Len(Append(q, e)) = Len(q) + 1 /\ Len(q) \in Nat
      /\ \A i \in 1 .. Len(q) : Append(q, e)[i] = q[i]
      /\ Append(q, e)[Len(q) + 1] = e
  BY AppendProperties
<1>2. DOMAIN q = 1 .. Len(q) /\ DOMAIN Append(q, e) = 1 .. Len(q) + 1
  BY <1>1
<1>3. 1 .. Len(q) + 1 = (1 .. Len(q)) \cup {Len(q) + 1}
  BY <1>1
<1> QED BY <1>1, <1>2, <1>3 DEF ToSet

LEMMA TailToSet ==
  ASSUME NEW S, NEW q \in Seq(S), q # << >>
  PROVE  Tail(q) \in Seq(S) /\ ToSet(Tail(q)) \subseteq ToSet(q)
<1>1. /\ Tail(q) \in Seq(S) /\ Len(q) \in Nat /\ Len(Tail(q)) = Len(q) - 1
      /\ \A i \in 1 .. Len(Tail(q)) : Tail(q)[i] = q[i + 1]
  BY HeadTailProperties
<1>2. DOMAIN q = 1 .. Len(q) /\ DOMAIN Tail(q) = 1 .. Len(q) - 1
  BY <1>1
<1>3. \A i \in 1 .. Len(q) - 1 : Tail(q)[i] = q[i + 1] /\ i + 1 \in 1 .. Len(q)
  BY <1>1
<1> QED BY <1>1, <1>2, <1>3 DEF ToSet

(* The outcome of a message is at most added to those of its sender.       *)
LEMMA RecordAdds ==
  ASSUME MemoryInv, NEW m \in Message, Record(m) \/ UNCHANGED <<outcomes, noted>>
  PROVE  /\ outcomes' \in [Sender -> Seq(Message)]
         /\ \A s \in Sender : ToSet(outcomes'[s]) \subseteq
              ToSet(outcomes[s]) \cup (IF s = SenderOf[m] /\ m \notin silenced THEN {m} ELSE {})
<1>1. CASE UNCHANGED outcomes
  BY <1>1 DEF MemoryInv
<1>2. CASE RememberActivity(m) /\ m \notin silenced
  <2> DEFINE s == SenderOf[m]
             rows == Append(outcomes[s], m)
  <2>1. s \in Sender /\ outcomes[s] \in Seq(Message)
    BY DirectAssumption DEF MemoryInv
  <2>2. rows \in Seq(Message) /\ ToSet(rows) = ToSet(outcomes[s]) \cup {m}
    BY <2>1, AppendToSet
  <2>3. Tail(rows) \in Seq(Message) /\ ToSet(Tail(rows)) \subseteq ToSet(rows)
    <3>1. rows # << >>
      BY <2>1, AppendProperties
    <3> HIDE DEF rows
    <3> QED BY <2>2, <3>1, TailToSet
  <2>4. << >> \in Seq(Message) /\ ToSet(<< >>) = {}
    BY DEF ToSet
  <2> HIDE DEF rows
  <2>5. \A x \in Sender : \/ x = s /\ outcomes'[x] \in {rows, Tail(rows), << >>}
                          \/ x # s /\ outcomes'[x] \in {outcomes[x], << >>}
    BY <1>2 DEF RememberActivity, rows
  <2>6. outcomes' \in [Sender -> Seq(Message)]
    <3> DEFINE row(x) ==
          CASE x = s -> IF Len(Append(outcomes[s], m)) > OutcomesKept
                          THEN Tail(Append(outcomes[s], m)) ELSE Append(outcomes[s], m)
            [] Len(Append(RemoveFirst(noted, s), s)) > MaxPeople
                 /\ x = Head(Append(RemoveFirst(noted, s), s)) -> << >>
            [] OTHER -> outcomes[x]
    <3>1. outcomes' = [x \in Sender |-> row(x)]
      BY <1>2 DEF RememberActivity
    <3> HIDE DEF row
    <3>2. outcomes' = [x \in Sender |-> outcomes'[x]]
      BY <3>1
    <3>3. \A x \in Sender : outcomes[x] \in Seq(Message)
      BY DEF MemoryInv
    <3>4. \A x \in Sender : outcomes'[x] \in Seq(Message)
      BY <2>2, <2>3, <2>4, <2>5, <3>3
    <3> QED BY <3>2, <3>4
  <2> QED BY <1>2, <2>2, <2>3, <2>4, <2>5, <2>6
<1> QED BY <1>1, <1>2 DEF Record

(* What a step may add to the memory is a message that was not forgotten.  *)
NotForgotten(m) == pc[m] = "idle" \/ (pc[m] # "done" /\ m \notin silenced)

LEMMA AddsHonestly ==
  ASSUME MemoryInv, LoopInv, [Next]_vars, NEW m \in Message,
         forgotten' = forgotten, silenced' = silenced,
         pc[m] # "done", Record(m) \/ UNCHANGED <<outcomes, noted>>,
         remembered' \in {remembered, remembered \cup {m}},
         NotForgotten(m) \/ remembered' = remembered,
         topic' \in [Sender -> [of : Message, at : Nat] \cup {None}],
         \A s \in Sender : \/ topic'[s] \in {topic[s], None}
                           \/ topic'[s].of = m /\ s = SenderOf[m] /\ NotForgotten(m)
  PROVE  MemoryInv'
<1>1. NotForgotten(m) => m \notin forgotten
  BY DEF NotForgotten, MemoryInv
<1>2. \A q \in forgotten' : pc'[q] # "idle" /\ (pc'[q] # "done" => q \in silenced')
  BY Onward DEF MemoryInv
<1>3. /\ outcomes' \in [Sender -> Seq(Message)]
      /\ \A s \in Sender : ToSet(outcomes'[s]) \subseteq
           ToSet(outcomes[s]) \cup (IF s = SenderOf[m] /\ NotForgotten(m) THEN {m} ELSE {})
  BY RecordAdds DEF NotForgotten
<1>4. \A s \in Sender : ToSet(outcomes'[s]) \subseteq SentBy(s) /\ ToSet(outcomes'[s]) \cap forgotten' = {}
  BY <1>1, <1>3 DEF MemoryInv, RememberedHonestly, SentBy
<1>5. remembered' \subseteq Message /\ remembered' \cap forgotten' = {}
  BY <1>1 DEF MemoryInv, RememberedHonestly
<1>6. \A s \in Sender : topic'[s] # None => topic'[s].of \in SentBy(s) /\ topic'[s].of \notin forgotten'
  BY <1>1 DEF MemoryInv, RememberedHonestly, SentBy
<1>7. forgotten' \subseteq Message
  BY DEF MemoryInv
<1> QED BY <1>2, <1>3, <1>4, <1>5, <1>6, <1>7 DEF MemoryInv, RememberedHonestly, SentBy

(* A /forget takes its sender's messages out, and nobody else's came in.   *)
LEMMA ForgetsHonestly ==
  ASSUME MemoryInv, LoopInv, [Next]_vars, NEW m \in Message,
         pc'[m] # "idle", pc'[m] # "done" => m \in silenced', ForgetSender(m),
         topic' = [topic EXCEPT ![SenderOf[m]] = None]
  PROVE  MemoryInv'
<1> DEFINE s == SenderOf[m]
<1>1. s \in Sender /\ \A q \in Message : SenderOf[q] \in Sender
  BY DirectAssumption
<1>2. forgotten' = forgotten \cup {m} \cup Received(s) /\ Received(s) \subseteq SentBy(s)
  BY DEF ForgetSender, Received, SentBy
<1>3. \A q \in forgotten' : q \in forgotten \/ q \in SentBy(s)
  BY <1>2 DEF SentBy
<1>4. \A q \in forgotten' : pc'[q] # "idle" /\ (pc'[q] # "done" => q \in silenced')
  <2> SUFFICES ASSUME NEW q \in forgotten'
               PROVE  pc'[q] # "idle" /\ (pc'[q] # "done" => q \in silenced')
    OBVIOUS
  <2>1. CASE q = m
    BY <2>1 DEF ForgetSender
  <2>2. CASE q \in forgotten
    BY <2>2, Onward DEF ForgetSender, MemoryInv
  <2>3. CASE q \in Received(s)
    BY <2>3, Onward DEF ForgetSender, Received, Live
  <2> QED BY <1>2, <2>1, <2>2, <2>3
<1>5. outcomes' = [outcomes EXCEPT ![s] = << >>] /\ ToSet(<< >>) = {} /\ << >> \in Seq(Message)
  BY DEF ForgetSender, ToSet
<1>6. outcomes' \in [Sender -> Seq(Message)]
  BY <1>1, <1>5 DEF MemoryInv
<1>7. \A x \in Sender : ToSet(outcomes'[x]) \subseteq SentBy(x) /\ ToSet(outcomes'[x]) \cap forgotten' = {}
  <2> SUFFICES ASSUME NEW x \in Sender
               PROVE  ToSet(outcomes'[x]) \subseteq SentBy(x) /\ ToSet(outcomes'[x]) \cap forgotten' = {}
    OBVIOUS
  <2>1. CASE x = s
    BY <1>5, <2>1 DEF MemoryInv
  <2>2. CASE x # s
    <3>1. outcomes'[x] = outcomes[x]
      BY <1>5, <2>2 DEF MemoryInv
    <3>2. ToSet(outcomes[x]) \subseteq SentBy(x) /\ ToSet(outcomes[x]) \cap forgotten = {}
      BY DEF MemoryInv, RememberedHonestly
    <3> QED BY <1>3, <2>2, <3>1, <3>2 DEF SentBy
  <2> QED BY <2>1, <2>2
<1>8. remembered' \subseteq Message /\ remembered' \cap forgotten' = {}
  <2>1. remembered' = {q \in remembered : SenderOf[q] # s}
    BY DEF ForgetSender
  <2> QED BY <1>3, <2>1 DEF MemoryInv, RememberedHonestly, SentBy
<1>9. topic' \in [Sender -> [of : Message, at : Nat] \cup {None}]
  BY <1>1 DEF MemoryInv
<1>10. \A x \in Sender : topic'[x] # None => topic'[x].of \in SentBy(x) /\ topic'[x].of \notin forgotten'
  <2> SUFFICES ASSUME NEW x \in Sender, topic'[x] # None
               PROVE  topic'[x].of \in SentBy(x) /\ topic'[x].of \notin forgotten'
    OBVIOUS
  <2>1. x # s /\ topic'[x] = topic[x]
    BY <1>1 DEF MemoryInv
  <2> QED BY <1>3, <2>1 DEF MemoryInv, RememberedHonestly, SentBy
<1>11. forgotten' \subseteq Message
  BY <1>3 DEF MemoryInv, SentBy
<1> QED BY <1>4, <1>6, <1>7, <1>8, <1>9, <1>10, <1>11 DEF MemoryInv, RememberedHonestly, SentBy

LEMMA MemoryNext == CacheTypeOK /\ LoopInv /\ MemoryInv /\ [PipelineNext]_allVars => MemoryInv'
<1> SUFFICES ASSUME CacheTypeOK, LoopInv, MemoryInv, [PipelineNext]_allVars
             PROVE  MemoryInv'
  OBVIOUS
<1> USE PipelineStep
<1>1. ASSUME UNCHANGED personal PROVE MemoryInv'
  <2>1. \A q \in forgotten : pc'[q] # "idle" /\ (pc'[q] # "done" => q \in silenced)
    BY Onward DEF MemoryInv
  <2> QED BY <1>1, <2>1 DEF MemoryInv, RememberedHonestly, personal, kept
<1>2. ASSUME NEW m \in Message, Receive(m) PROVE MemoryInv'
  <2>1. pc[m] = "idle" /\ pc'[m] # "idle" /\ NotForgotten(m)
    BY <1>2 DEF Receive, ReceivePlain, ReceiveDirect, Goto, LoopInv, NotForgotten
  <2>2. CASE ForgetSender(m) /\ topic' = [topic EXCEPT ![SenderOf[m]] = None]
    BY <2>1, <2>2, ForgetsHonestly DEF ForgetSender
  <2>3. CASE /\ UNCHANGED <<silenced, remembered, forgotten>>
             /\ Record(m) \/ UNCHANGED <<outcomes, noted>>
             /\ topic' \in {topic, [topic EXCEPT ![SenderOf[m]] = None]}
    <3>1. topic' \in [Sender -> [of : Message, at : Nat] \cup {None}]
      BY <2>3 DEF MemoryInv
    <3>2. \A s \in Sender : topic'[s] \in {topic[s], None}
      BY <2>3 DEF MemoryInv
    <3> QED BY <2>1, <2>3, <3>1, <3>2, AddsHonestly
  <2> QED BY <1>2, <2>2, <2>3 DEF Receive, kept
<1>3. ASSUME NEW m \in Message, UNCHANGED kept, pc[m] # "done", Record(m) PROVE MemoryInv'
  <2>1. topic' \in [Sender -> [of : Message, at : Nat] \cup {None}]
    BY <1>3 DEF MemoryInv, kept
  <2>2. UNCHANGED <<silenced, remembered, forgotten, topic>>
    BY <1>3 DEF kept
  <2> QED BY <1>3, <2>1, <2>2, AddsHonestly
<1>4. ASSUME NEW m \in Message, AdmitRequest(m) \/ DropRequest(m) \/ Decline(m) \/ Transmit(m)
      PROVE  MemoryInv'
  BY <1>3, <1>4 DEF AdmitRequest, Admit, DropRequest, Drop, Decline, Quit, Transmit, Send
<1>5. ASSUME NEW m \in Message, Sent(m) PROVE MemoryInv'
  <2>1. pc[m] = "sending" /\ Record(m) /\ UNCHANGED <<silenced, forgotten>>
    BY <1>5 DEF Sent
  <2>2. \/ UNCHANGED <<remembered, topic>>
        \/ /\ NotForgotten(m) /\ remembered' \in {remembered, remembered \cup {m}}
           /\ topic' \in {topic, [topic EXCEPT ![SenderOf[m]] = [of |-> m, at |-> now]]}
    BY <1>5 DEF Sent, NotForgotten
  <2>3. topic' \in [Sender -> [of : Message, at : Nat] \cup {None}]
    BY <2>2 DEF MemoryInv, CacheTypeOK
  <2>4. \A s \in Sender : \/ topic'[s] \in {topic[s], None}
                          \/ topic'[s].of = m /\ s = SenderOf[m] /\ NotForgotten(m)
    BY <2>2 DEF MemoryInv
  <2> QED BY <2>1, <2>2, <2>3, <2>4, AddsHonestly
<1>6. ASSUME NEW m \in Message,
             Draft(m) \/ SearchEnds(m) \/ Answered(m) \/ CallFails(m) \/ CallTimesOut(m) \/ Recovered(m)
      PROVE  UNCHANGED personal
  BY <1>6 DEF Draft, SearchEnds, Answered, CallFails, CallTimesOut, Recovered
<1>7. CASE RefreshCache \/ Pass \/ UNCHANGED allVars
  BY <1>1, <1>7 DEF RefreshCache, Pass, allVars
<1> QED BY <1>1, <1>2, <1>4, <1>5, <1>6, <1>7 DEF PipelineNext, Owned

(* After /forget nothing of what the sender said before is remembered,     *)
(* understood as a topic or known by its outcome, whichever steps the      *)
(* requests under way were in and however many there are (_handle_command).*)
THEOREM RememberedHonestlyAlways == PipelineSpec => []RememberedHonestly
<1>1. PipelineInit => MemoryInv
  BY DEF PipelineInit, Init, MemoryInv, RememberedHonestly, ToSet
<1>2. MemoryInv => RememberedHonestly
  BY DEF MemoryInv
<1> QED BY <1>1, <1>2, MemoryNext, WorkInvariant, PTL DEF PipelineSpec

=============================================================================

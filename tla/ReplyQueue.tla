----------------------------- MODULE ReplyQueue -----------------------------
(***************************************************************************)
(* The queue through which every transmission of the bot goes: the shared  *)
(* ReplyQueue of bot/service.py, the handlers and background posts that    *)
(* use it, and the limiter they reserve from.  A request is one asyncio    *)
(* task between its entry into `_request' and its exit; an action runs it  *)
(* from one await to the next.                                             *)
(*                                                                         *)
(* Kinds of request:                                                       *)
(*   reply         an answer to a message (question, command, chess move)  *)
(*   batch         a /reports or /cont request: several reports, one token *)
(*   announcement  the welcome or the persona reset, retried in a window   *)
(*   post          a fortune: generated, then sent at once or not at all   *)
(*   tip           a usage tip or a traffic alert: only on an idle bot     *)
(***************************************************************************)
EXTENDS RateLimiter

CONSTANTS
  Request,         (* the requests of a behaviour                          *)
  KindOf,          (* the kind of each                                     *)
  SenderOf,        (* whose bucket it draws on                             *)
  None,            (* no active request                                    *)
  QueueMax,        (* queue_max_pending                                    *)
  QueueWait,       (* queue_wait_s                                         *)
  RetryWindow,     (* how long an announcement or a post is retried        *)
  BatchGap,        (* pause between two reports of a batch                 *)
  BatchMax,        (* most reports in a batch                              *)
  MaxRequests,     (* requests the bot holds at once                       *)
  Horizon          (* bound of the clock: nothing arrives that could       *)
                   (* outlive it                                           *)

Kinds == {"reply", "batch", "announcement", "post", "tip", "alert"}

ASSUME QueueAssumption ==
  /\ KindOf \in [Request -> Kinds]
  /\ SenderOf \in [Request -> Sender]
  /\ None \notin Request
  /\ QueueMax \in Nat /\ QueueWait \in Nat \ {0} /\ RetryWindow \in Nat
  /\ BatchGap \in Nat /\ BatchMax \in Nat \ {0} /\ MaxRequests \in Nat
  /\ Horizon \in Nat

ASSUME FiniteRequests == IsFiniteSet(Request)

VARIABLES
  pc,           (* where each request is                                   *)
  reservation,  (* PendingReply.reservation                                *)
  received,     (* received_at, or when a post or announcement began       *)
  left,         (* ReportBurst.remaining                                   *)
  lastSend,     (* last_send_at of a batch                                 *)
  waiting,      (* ReplyQueue.waiting                                      *)
  active,       (* ReplyQueue.active                                       *)
  stopped       (* BotService._stopped, set for all channels together      *)

localVars == <<received, left, lastSend>>
vars == <<now, limiterVars, pc, reservation, localVars, waiting, active, stopped>>

(* "held" has tokens in it; "followup" is the token-free reservation of a  *)
(* later report of a batch; "committed" has been transmitted.  All three   *)
(* have allowed = True.  A refused reservation counts as "none".           *)
Reservations == {"none", "held", "followup", "committed"}

(* The stages of a request that is registered in ReplyQueue.requests ...   *)
Stages == {"waiting", "processing", "delivery_wait", "sending", "gap", "retry"}
(* ... and outside of it: not begun, a post between two attempts, over.    *)
Places == Stages \cup {"idle", "deferred", "done"}

(* Everything but which requests are still to come.                        *)
AtRest ==
  /\ now = 0
  /\ LimiterInit
  /\ reservation = [r \in Request |-> "none"]
  /\ received = [r \in Request |-> 0]
  /\ left = [r \in Request |-> 0]
  /\ lastSend = [r \in Request |-> 0]
  /\ waiting = << >>
  /\ active = None
  /\ stopped = FALSE

Init == AtRest /\ pc = [r \in Request |-> "idle"]

Live(r) == pc[r] \in Stages
Requests == {r \in Request : Live(r)}
Allowed(r) == reservation[r] # "none"

Goto(r, place) == pc' = [pc EXCEPT ![r] = place]

-----------------------------------------------------------------------------
(* The exit of `_request': an uncommitted reservation is refunded.         *)

(* Mutant: the exit forgets the refund.                                    *)
RefundForgotten(r) == UNCHANGED limiterVars

Refund(r) == IF reservation[r] = "held" THEN RefundTokens(SenderOf[r])
                                        ELSE UNCHANGED limiterVars

(* What a reservation is once its request is over; that it was committed   *)
(* is remembered, though the code has no more use for it.                  *)
Settled(r) == CASE reservation[r] = "held" -> "none"
                [] reservation[r] = "followup" -> "committed"
                [] OTHER -> reservation[r]

(* Mutant: a request that ends leaves the active mark behind.              *)
UnregisterKeepsActive(r, place) ==
  /\ Goto(r, place)
  /\ waiting' = RemoveFirst(waiting, r)
  /\ active' = active
  /\ received' = [received EXCEPT ![r] = IF place = "deferred" THEN @ ELSE 0]
  /\ left' = [left EXCEPT ![r] = 0]
  /\ lastSend' = [lastSend EXCEPT ![r] = 0]

(* Mutant: a request that ends stays in the deque.                         *)
UnregisterKeepsQueued(r, place) ==
  /\ Goto(r, place)
  /\ waiting' = waiting
  /\ active' = IF active = r THEN None ELSE active
  /\ received' = [received EXCEPT ![r] = IF place = "deferred" THEN @ ELSE 0]
  /\ left' = [left EXCEPT ![r] = 0]
  /\ lastSend' = [lastSend EXCEPT ![r] = 0]

Unregister(r, place) ==
  /\ Goto(r, place)
  /\ waiting' = RemoveFirst(waiting, r)
  /\ active' = IF active = r THEN None ELSE active
  /\ received' = [received EXCEPT ![r] = IF place = "deferred" THEN @ ELSE 0]
  /\ left' = [left EXCEPT ![r] = 0]
  /\ lastSend' = [lastSend EXCEPT ![r] = 0]

Exit(r, place) ==
  /\ Unregister(r, place)
  /\ Refund(r)
  /\ reservation' = [reservation EXCEPT ![r] = Settled(r)]
  /\ UNCHANGED <<now, stopped>>

-----------------------------------------------------------------------------
(* _admit *)

(* Mutant: another request's reservation is not looked at.                 *)
BusyQueueOnly(r) == waiting # << >> /\ Head(waiting) # r

(* Mutant: the queue is not looked at.                                     *)
BusyOwnersOnly(r) ==
  \/ active \notin {None, r}
  \/ \E q \in Requests \ {r} : Allowed(q)

Busy(r) ==
  \/ active \notin {None, r}
  \/ waiting # << >> /\ Head(waiting) # r
  \/ \E q \in Requests \ {r} : Allowed(q)

Admissible(r) == ~Busy(r) /\ Allows(SenderOf[r])

Admit(r) ==
  /\ ~Busy(r)
  /\ TakeTokens(SenderOf[r])
  /\ reservation' = [reservation EXCEPT ![r] = "held"]

Refuse(r) ==
  /\ ~Admissible(r)
  /\ IF Busy(r) THEN UNCHANGED limiterVars ELSE LookUp(SenderOf[r])
  /\ reservation' = [reservation EXCEPT ![r] = "none"]

-----------------------------------------------------------------------------
(* handle_payload and _wait_for_admission *)

Answers(r) == KindOf[r] \in {"reply", "batch"}
Deadline(r) == received[r] + (IF Answers(r) THEN QueueWait ELSE RetryWindow)

(* An admitted batch fixes the number of its reports.                      *)
(* Mutant: the first report is counted among the follow-ups.               *)
ProcessCountsFirst(r) ==
  /\ Goto(r, "processing")
  /\ active' = r
  /\ left' \in {[left EXCEPT ![r] = n] :
                  n \in IF KindOf[r] = "batch" THEN 1 .. BatchMax ELSE {0}}
  /\ UNCHANGED <<now, lastSend, stopped>>

Process(r) ==
  /\ Goto(r, "processing")
  /\ active' = r
  /\ left' \in {[left EXCEPT ![r] = n] :
                  n \in IF KindOf[r] = "batch" THEN 0 .. BatchMax - 1 ELSE {0}}
  /\ UNCHANGED <<now, lastSend, stopped>>

Overloaded == stopped \/ Cardinality(Requests) >= MaxRequests

Receive(r) ==
  /\ pc[r] = "idle" /\ Answers(r)
  /\ now + QueueWait <= Horizon
  /\ \/ Overloaded /\ Exit(r, "done")
     \/ /\ ~Overloaded
        /\ Admit(r)
        /\ Process(r)
        /\ received' = [received EXCEPT ![r] = now]
        /\ UNCHANGED waiting
     \/ /\ ~Overloaded
        /\ Refuse(r)
        /\ IF Len(waiting) < QueueMax
             THEN /\ Goto(r, "waiting")
                  /\ waiting' = Append(waiting, r)
                  /\ received' = [received EXCEPT ![r] = now]
             ELSE Goto(r, "done") /\ UNCHANGED <<waiting, received>>
        /\ UNCHANGED <<now, left, lastSend, active, stopped>>

(* The queue loop, once round: the deadline comes first, and only the head *)
(* may reserve.                                                            *)
(* Mutant: nothing expires during a pause.                                 *)
ExpireUnpaused(r) ==
  /\ pc[r] = "waiting"
  /\ now >= Deadline(r) /\ factor # Paused
  /\ Exit(r, "done")

Expire(r) ==
  /\ pc[r] = "waiting"
  /\ now >= Deadline(r)
  /\ Exit(r, "done")

AtHead(r) == waiting # << >> /\ Head(waiting) = r

Dequeue(r) ==
  /\ pc[r] = "waiting"
  /\ now < Deadline(r) /\ ~stopped
  /\ AtHead(r)
  /\ Admit(r)
  /\ waiting' = Tail(waiting)
  /\ Process(r)
  /\ UNCHANGED received

KeepWaiting(r) ==
  /\ pc[r] = "waiting"
  /\ now < Deadline(r) /\ ~stopped
  /\ AtHead(r)
  /\ Refuse(r)
  /\ UNCHANGED <<now, pc, localVars, waiting, active, stopped>>

-----------------------------------------------------------------------------
(* _send, from its entry to the radio command *)

(* The reply waits out a pause instead of being given up.                  *)
Retains(r) == Answers(r) /\ QueueMax > 0

(* usage_tip_ready, and the eligibility of a traffic alert, which may also *)
(* go out at half speed; the quiet time they also ask for only makes them  *)
(* rarer.                                                                  *)
TipReady(r) ==
  /\ ~stopped /\ waiting = << >> /\ Requests \subseteq {r}
  /\ factor = Full \/ (KindOf[r] = "alert" /\ factor # Paused)

CanSend(r) ==
  /\ Retains(r) => now < Deadline(r)
  /\ KindOf[r] = "post" => now <= Deadline(r)
  /\ KindOf[r] \in {"tip", "alert"} => TipReady(r)

Transmit(r) ==
  /\ ~stopped /\ CanSend(r) /\ factor # Paused
  /\ Goto(r, "sending")
  /\ UNCHANGED <<now, limiterVars, reservation, localVars, waiting, active, stopped>>

WaitForRadio(r) ==
  /\ ~stopped /\ CanSend(r) /\ factor = Paused /\ Retains(r)
  /\ Goto(r, "delivery_wait")
  /\ UNCHANGED <<now, limiterVars, reservation, localVars, waiting, active, stopped>>

(* Where a request that did not transmit ends: a post tries again while    *)
(* its window lasts.                                                       *)
GivenUp(r) == IF KindOf[r] = "post" /\ now < Deadline(r) THEN {"deferred", "done"} ELSE {"done"}

(* An answer is ready, or there is none: a model error, a blocked text, a  *)
(* duplicate chess message, a changed report.                              *)
StartSend(r) ==
  /\ pc[r] = "processing"
  /\ \/ Transmit(r)
     \/ WaitForRadio(r)
     \/ \E place \in GivenUp(r) : Exit(r, place)

(* Mutant: the gates are not asked again after the pause.                  *)
DeliverUnchecked(r) ==
  /\ pc[r] = "delivery_wait"
  /\ factor # Paused
  /\ Goto(r, "sending")
  /\ UNCHANGED <<now, limiterVars, reservation, localVars, waiting, active, stopped>>

(* The pause loop, once round; an answer that became stale is not sent.    *)
Deliver(r) ==
  /\ pc[r] = "delivery_wait"
  /\ \/ Transmit(r)
     \/ /\ stopped \/ ~CanSend(r) \/ factor # Paused
        /\ Exit(r, "done")

(* The radio command returned, failed or was cancelled: the attempt is     *)
(* charged in every case.                                                  *)
FinishSend(r) ==
  /\ pc[r] = "sending"
  /\ IF reservation[r] = "held" THEN CommitTokens(SenderOf[r]) ELSE UNCHANGED limiterVars
  /\ reservation' = [reservation EXCEPT ![r] = "committed"]
  /\ \/ Unregister(r, "done")
     \/ /\ left[r] > 0
        /\ Goto(r, "gap")
        /\ lastSend' = [lastSend EXCEPT ![r] = now]
        /\ UNCHANGED <<received, left, waiting, active>>
  /\ UNCHANGED <<now, stopped>>

-----------------------------------------------------------------------------
(* The later reports of a batch: _handle_traffic_channel, ReportBurst *)

GapOver(r) == now >= lastSend[r] + BatchGap /\ factor # Paused

(* Mutant: the follow-up goes out on the first report's reservation.       *)
ReserveNextReused(r) ==
  /\ reservation' = reservation
  /\ left' = [left EXCEPT ![r] = @ - 1]

ReserveNext(r) ==
  /\ reservation' = [reservation EXCEPT ![r] = "followup"]
  /\ left' = [left EXCEPT ![r] = @ - 1]

NextReport(r) ==
  /\ pc[r] = "gap"
  /\ now < Deadline(r) /\ GapOver(r)
  /\ \/ /\ ~stopped
        /\ ReserveNext(r)
        /\ Goto(r, "sending")
        /\ UNCHANGED <<now, limiterVars, received, lastSend, waiting, active, stopped>>
     \/ Exit(r, "done")                         \* the reports have changed

EndBatch(r) ==
  /\ pc[r] = "gap"
  /\ now >= Deadline(r)
  /\ Exit(r, "done")

-----------------------------------------------------------------------------
(* Background transmissions *)

(* Admission and the check of the gates in _send happen without an await.  *)
SendNow(r) ==
  \/ /\ Admit(r)
     /\ Goto(r, "sending")
     /\ UNCHANGED waiting
  \/ /\ Admissible(r)                           \* before_send failed
     /\ LookUp(SenderOf[r])
     /\ Goto(r, "done")
     /\ UNCHANGED <<reservation, waiting>>

(* The window of a background request counts from its first attempt.       *)
Began(r) == IF pc[r] = "idle" THEN now ELSE received[r]
WindowEnd(r) == Began(r) + RetryWindow
Begin(r) ==
  /\ pc[r] = "idle" => now + RetryWindow <= Horizon
  /\ received' = [received EXCEPT ![r] = Began(r)]

(* _announce and _announce_when_allowed *)
Announce(r) ==
  /\ KindOf[r] = "announcement" /\ pc[r] \in {"idle", "retry"}
  /\ now <= WindowEnd(r) /\ ~stopped
  /\ Begin(r)
  /\ \/ SendNow(r)
     \/ /\ Refuse(r)
        /\ Goto(r, IF now < WindowEnd(r) THEN "retry" ELSE "done")
        /\ UNCHANGED waiting
  /\ UNCHANGED <<now, left, lastSend, active, stopped>>

(* One attempt of a fortune, by way of post_generated.  While the model    *)
(* cools down, or the bot is stopping or has too many requests, the        *)
(* limiter is not asked.                                                   *)
Post(r) ==
  /\ KindOf[r] = "post" /\ pc[r] \in {"idle", "deferred"}
  /\ now <= WindowEnd(r)
  /\ Begin(r)
  /\ LET otherwise == IF now < WindowEnd(r) THEN "deferred" ELSE "done"
     IN  \/ ~stopped /\ Admit(r) /\ Goto(r, "processing")
         \/ ~stopped /\ Refuse(r) /\ Goto(r, otherwise)
         \/ Goto(r, otherwise) /\ UNCHANGED <<limiterVars, reservation>>
  /\ UNCHANGED <<now, left, lastSend, waiting, active, stopped>>

WindowOver(r) ==
  /\ pc[r] \in {"retry", "deferred"}
  /\ now > WindowEnd(r)
  /\ Exit(r, "done")

(* post_usage_tip and post_traffic_alert *)
Tip(r) ==
  /\ KindOf[r] \in {"tip", "alert"} /\ pc[r] = "idle"
  /\ TipReady(r)
  /\ \/ SendNow(r)
     \/ Refuse(r) /\ Goto(r, "done") /\ UNCHANGED waiting
  /\ UNCHANGED <<now, localVars, active, stopped>>

-----------------------------------------------------------------------------
(* Shutdown, the clock and the congestion monitor *)

(* stop() of every channel at once; _stop then cancels every task.  The    *)
(* cancellation of a radio command is FinishSend.                          *)
Stop ==
  /\ ~stopped
  /\ stopped' = TRUE
  /\ UNCHANGED <<now, limiterVars, pc, reservation, localVars, waiting, active>>

Cancel(r) ==
  /\ stopped
  /\ pc[r] \notin {"idle", "sending", "done"}
  /\ Exit(r, "done")

Tick ==
  /\ now < Horizon
  /\ now' = now + 1
  /\ UNCHANGED <<limiterVars, pc, reservation, localVars, waiting, active, stopped>>

ChangeFactor ==
  /\ \E f \in Factors \ {factor} : SetGlobalFactor(f)
  /\ UNCHANGED <<now, pc, reservation, localVars, waiting, active, stopped>>

Proceed(r) ==
  \/ Expire(r) \/ Dequeue(r) \/ KeepWaiting(r)
  \/ StartSend(r) \/ Deliver(r) \/ FinishSend(r)
  \/ NextReport(r) \/ EndBatch(r)
  \/ Announce(r) \/ Post(r) \/ WindowOver(r) \/ Tip(r)
  \/ Cancel(r)

Next ==
  \/ \E r \in Request : Receive(r) \/ Proceed(r)
  \/ Stop \/ Tick \/ ChangeFactor

Spec == Init /\ [][Next]_vars

(* The event loop runs every task that is ready, sleeps end, generation    *)
(* has a deadline and a radio command returns or times out.                *)
Fairness ==
  /\ WF_vars(Tick)
  /\ \A r \in Request :
       /\ WF_vars(Expire(r)) /\ WF_vars(Dequeue(r))
       /\ WF_vars(StartSend(r)) /\ WF_vars(Deliver(r)) /\ WF_vars(FinishSend(r))
       /\ WF_vars(NextReport(r)) /\ WF_vars(EndBatch(r))
       /\ WF_vars(WindowOver(r)) /\ WF_vars(Cancel(r))

FairSpec == Spec /\ Fairness

-----------------------------------------------------------------------------
(* Safety *)

TypeOK ==
  /\ LimiterTypeOK
  /\ pc \in [Request -> Places]
  /\ reservation \in [Request -> Reservations]
  /\ received \in [Request -> Nat]
  /\ left \in [Request -> 0 .. BatchMax - 1]
  /\ lastSend \in [Request -> Nat]
  /\ waiting \in Seq(Request)
  /\ active \in Request \cup {None}
  /\ stopped \in BOOLEAN

Owning == {"processing", "delivery_wait", "sending", "gap"}

(* What a request in each place has reserved.                              *)
ReservedAt(place) ==
  CASE place \in {"processing", "delivery_wait"} -> {"held"}
    [] place = "sending" -> {"held", "followup"}
    [] place = "gap" -> {"committed"}
    [] place = "done" -> {"none", "committed"}
    [] OTHER -> {"none"}

ReservedByPlace == \A r \in Request : reservation[r] \in ReservedAt(pc[r])
SingleOwner == \A q, r \in Request : pc[q] \in Owning /\ pc[r] \in Owning => q = r
GapHasNext == \A r \in Request : pc[r] = "gap" => left[r] > 0

(* The inductive invariant: the place of a request determines what it has  *)
(* reserved, and only one request at a time is past admission.             *)
QueueInv == TypeOK /\ ReservedByPlace /\ SingleOwner /\ GapHasNext

(* One request at a time, over all channels, holds an admission; a request *)
(* that is being answered holds one, and one that is not holds none, so    *)
(* that no token stays with a request that expired, failed or was          *)
(* cancelled (_admit, the exit of _request).                               *)
OneOwner ==
  /\ \A q, r \in Requests : Allowed(q) /\ Allowed(r) => q = r
  /\ \A r \in Requests : Allowed(r) <=> pc[r] \in Owning
  /\ \A r \in Request \ Requests : reservation[r] \in {"none", "committed"}

(* Every transmission spends a reservation that was never transmitted on:  *)
(* a follow-up or a retry cannot reuse a committed one (_send only asks    *)
(* whether the reservation is allowed).                                    *)
FreshReservation ==
  \A r \in Request : pc[r] = "sending" => reservation[r] \in {"held", "followup"}

(* The deque lists the waiting requests once each and within its bound,    *)
(* and the active request is one that is being answered: neither survives  *)
(* the task it names (_wait_for_admission, the exit of _request).          *)
QueueConsistent ==
  /\ ToSet(waiting) = {r \in Request : pc[r] = "waiting"}
  /\ Len(waiting) = Cardinality(ToSet(waiting))
  /\ Len(waiting) <= QueueMax
  /\ active # None => pc[active] \in Owning

(* The bucket a held reservation will be committed or refunded to is the   *)
(* one the sender's next request draws on: it was not forgotten meanwhile  *)
(* to make room for other names (_bucket_for, max_senders).                *)
HeldBucketKept ==
  \A r \in Request : reservation[r] = "held" => Contains(lru, SenderOf[r])

Starts(r) == pc'[r] = "sending" /\ pc[r] # "sending"

(* No transmission starts once the bot is stopping, during a pause, or,    *)
(* for an answer that was allowed to wait, after its waiting time; however *)
(* long the model or the pause took (the checks of _send, repeated after   *)
(* every await).                                                           *)
NoStaleSend ==
  [][\A r \in Request : Starts(r) =>
       /\ ~stopped /\ factor # Paused
       /\ Retains(r) => now < Deadline(r)]_vars

(* While a request waits, only an answer that was received no later is     *)
(* admitted: neither a newer message nor an announcement, a fortune or a   *)
(* tip overtakes it, in any channel (_admit).                              *)
NoOvertaking ==
  [][\A q, r \in Request :
       /\ pc[q] = "waiting" /\ pc'[q] = "waiting"
       /\ ~Allowed(r) /\ Allowed(r)'
       => Answers(r) /\ received'[r] <= received[q]]_vars

-----------------------------------------------------------------------------
(* The transmissions obey SendBudget.  The token of a held reservation is  *)
(* still credit; it is spent when the attempt ends.                        *)

Charged == {r \in Request : reservation[r] \in {"followup", "committed"}}

Credit ==
  LET tokens == Peek(global, factor, GlobalBurst)
  IN  IF \E r \in Request : reservation[r] = "held"
        THEN Lesser(GlobalBurst * Cost, tokens + Cost) ELSE tokens

FollowUpsLeft(r) == IF ~Live(r) THEN 0
                    ELSE CASE reservation[r] = "committed" -> left[r]
                           [] reservation[r] = "followup" -> left[r] + 1
                           [] OTHER -> 0
Allowance == IF \E r \in Request : FollowUpsLeft(r) > 0
               THEN FollowUpsLeft(CHOOSE r \in Request : FollowUpsLeft(r) > 0)
               ELSE 0

Budget == INSTANCE SendBudget WITH
  Burst <- GlobalBurst, FollowUps <- BatchMax - 1,
  credit <- Credit, sent <- Cardinality(Charged), allowance <- Allowance

(* Every charged attempt spends a token earned at the speed the congestion *)
(* allowed; failures, cancellations and abandoned requests neither lose a  *)
(* token nor create one (ratelimit.py).                                    *)
SpendsBudget == Budget!Spec

-----------------------------------------------------------------------------
(* Liveness, under Fairness *)

(* A queued message is admitted, expires or is cancelled.                  *)
QueueMoves == \A r \in Request : pc[r] = "waiting" ~> pc[r] # "waiting"

(* The bot never stays occupied by one request, paused channel included.   *)
OwnerLeaves == \A r \in Request : active = r ~> active # r

(* Shutdown ends every request.                                            *)
StopDrains == stopped ~> (Requests = {} /\ active = None)
=============================================================================

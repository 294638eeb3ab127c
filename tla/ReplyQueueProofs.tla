-------------------------- MODULE ReplyQueueProofs --------------------------
(***************************************************************************)
(* Theorems of ReplyQueue for any requests, senders, capacities and        *)
(* bounds: who has an admission, in which order, and what is kept of it;   *)
(* and that the queue implements the send budget.                          *)
(***************************************************************************)
EXTENDS ReplyQueue, FiniteSetTheorems, SequenceTheorems, WellFoundedInduction, NaturalsInduction, TLAPS

-----------------------------------------------------------------------------
(* Sequences *)

(* Taking an element out of a deque leaves a deque of the same things.     *)
LEMMA RemoveFirstType ==
  ASSUME NEW S, NEW s \in Seq(S), NEW e
  PROVE  RemoveFirst(s, e) \in Seq(S)
<1>1. CASE \E i \in 1 .. Len(s) : s[i] = e
  <2> DEFINE I == {i \in 1 .. Len(s) : s[i] = e}
  <2> DEFINE k == SelectInSeq(s, LAMBDA v : v = e)
  <2>1. \E m \in I : \A x \in I : m <= x
    <3>1. I \subseteq Nat /\ I # {}
      BY <1>1
    <3>2. PICK m \in I : \A x \in I : ~ (<<x, m>> \in OpToRel(<, Nat))
      BY <3>1, NatLessThanWellFounded, WFMin
    <3>3. \A x \in I : ~ (x < m)
      BY <3>1, <3>2 DEF OpToRel
    <3> QED BY <3>1, <3>3
  <2>2. k = Min(I)
    BY <1>1 DEF SelectInSeq
  <2>3. k \in 1 .. Len(s)
    BY <2>1, <2>2 DEF Min
  <2>4. RemoveFirst(s, e) = SubSeq(s, 1, k - 1) \o SubSeq(s, k + 1, Len(s))
    BY <1>1 DEF RemoveFirst, RemoveAt
  <2> HIDE DEF k
  <2> QED BY <2>3, <2>4
<1>2. CASE ~ \E i \in 1 .. Len(s) : s[i] = e
  BY <1>2 DEF RemoveFirst
<1> QED BY <1>1, <1>2

-----------------------------------------------------------------------------
(* Token buckets *)

(* Touching a bucket keeps it between empty and full, and dates it.        *)
LEMMA BucketTypes ==
  ASSUME NEW burst \in Nat \ {0}, NEW rate \in Nat, NEW b \in Bucket(burst),
         now \in Nat, b.updated <= now
  PROVE  /\ Refill(b, rate, burst) \in Bucket(burst)
         /\ CommitBucket(b, rate, burst) \in Bucket(burst)
         /\ RefundBucket(b, rate, burst) \in Bucket(burst)
         /\ Peek(b, rate, burst) >= Cost => Acquire(b, rate, burst) \in Bucket(burst)
         /\ Refill(b, rate, burst).updated = now
         /\ CommitBucket(b, rate, burst).updated = now
         /\ RefundBucket(b, rate, burst).updated = now
         /\ Acquire(b, rate, burst).updated = now
<1> DEFINE earned == (now - b.updated) * rate
<1> DEFINE cap == burst * Cost
<1>1. cap \in Nat /\ (burst - 1) * Cost \in Nat /\ (burst - 1) * Cost = cap - Cost /\ Cost \in Nat
  BY LimiterAssumption
<1>2. earned \in Nat
  BY DEF Bucket
<1>3. b.tokens \in 0 .. cap
  BY DEF Bucket
<1>4. Peek(b, rate, burst) = Lesser(cap, b.tokens + earned)
  BY DEF Peek, Refill
<1>5. Refill(b, rate, burst) = [tokens |-> Peek(b, rate, burst), updated |-> now]
  BY DEF Peek, Refill
<1>6. CommitBucket(b, rate, burst) = [tokens |-> Lesser(cap - Cost, Peek(b, rate, burst)), updated |-> now]
  BY <1>1 DEF CommitBucket
<1>7. RefundBucket(b, rate, burst) = [tokens |-> Lesser(cap, Peek(b, rate, burst) + Cost), updated |-> now]
  BY DEF RefundBucket
<1>8. Acquire(b, rate, burst) = [tokens |-> Peek(b, rate, burst) - Cost, updated |-> now]
  BY DEF Acquire
<1>9. Bucket(burst) = [tokens : 0 .. cap, updated : Nat]
  BY DEF Bucket
<1> HIDE DEF earned, cap
<1>10. Peek(b, rate, burst) \in 0 .. cap
  BY <1>1, <1>2, <1>3, <1>4 DEF Lesser
<1> QED BY <1>1, <1>5, <1>6, <1>7, <1>8, <1>9, <1>10 DEF Lesser

LEMMA NewBucketType ==
  ASSUME NEW burst \in Nat \ {0}
  PROVE  NewBucket(burst) \in Bucket(burst) /\ NewBucket(burst).updated = 0
<1>1. burst * Cost \in Nat
  BY LimiterAssumption
<1> QED BY <1>1 DEF NewBucket, Bucket

(* Looking a name up keeps a deque of names.                               *)
LEMMA KeptType ==
  ASSUME lru \in Seq(Sender), NEW s \in Sender
  PROVE  Kept(s) \in Seq(Sender)
<1>1. Looked(s) \in Seq(Sender)
  BY RemoveFirstType DEF Looked
<1>2. CASE Len(Looked(s)) > MaxSenders
  <2>1. Len(Looked(s)) - MaxSenders + 1 \in 1 .. Len(Looked(s)) + 1
    BY <1>1, <1>2, LimiterAssumption
  <2> QED BY <1>1, <1>2, <2>1 DEF Kept
<1>3. CASE ~ (Len(Looked(s)) > MaxSenders)
  BY <1>1, <1>3 DEF Kept
<1> QED BY <1>2, <1>3

LEMMA BucketForType ==
  ASSUME LimiterTypeOK, NEW s \in Sender, NEW b \in Bucket(SenderBurst), b.updated <= now,
         BucketFor(s, b)
  PROVE  /\ lru' \in Seq(Sender)
         /\ bucket' \in [Sender -> Bucket(SenderBurst)]
         /\ \A x \in Sender : bucket'[x].updated <= now
<1>1. lru' \in Seq(Sender)
  BY KeptType DEF BucketFor, LimiterTypeOK
<1>2. NewBucket(SenderBurst) \in Bucket(SenderBurst) /\ NewBucket(SenderBurst).updated <= now
  BY NewBucketType, LimiterAssumption DEF LimiterTypeOK
<1>3. ASSUME NEW x \in Sender
      PROVE  bucket'[x] \in Bucket(SenderBurst) /\ bucket'[x].updated <= now
  BY <1>2 DEF BucketFor, LimiterTypeOK
<1>4. bucket' = [x \in Sender |-> bucket'[x]]
  BY DEF BucketFor
<1> QED BY <1>1, <1>3, <1>4

(* Every operation of the limiter keeps its type.                          *)
LimiterStep ==
  \/ \E s \in Sender : TakeTokens(s) \/ LookUp(s) \/ CommitTokens(s) \/ RefundTokens(s)
  \/ \E f \in Factors : SetGlobalFactor(f)
  \/ UNCHANGED limiterVars

LEMMA LimiterTypes ==
  ASSUME LimiterTypeOK, LimiterStep, UNCHANGED now
  PROVE  LimiterTypeOK'
<1>1. /\ factor \in Nat /\ GlobalBurst \in Nat \ {0}
      /\ SenderRate \in Nat /\ SenderBurst \in Nat \ {0}
      /\ now \in Nat
  BY LimiterAssumption DEF LimiterTypeOK, Factors, Paused, Half, Full
<1>2. /\ global \in Bucket(GlobalBurst) /\ global.updated <= now
      /\ \A s \in Sender : bucket[s] \in Bucket(SenderBurst) /\ bucket[s].updated <= now
  BY DEF LimiterTypeOK
<1>3. /\ Refill(global, factor, GlobalBurst) \in Bucket(GlobalBurst)
      /\ Refill(global, factor, GlobalBurst).updated = now
  BY <1>1, <1>2, BucketTypes
<1>4. ASSUME NEW s \in Sender, TakeTokens(s)
      PROVE  LimiterTypeOK'
  <2>1. Peek(global, factor, GlobalBurst) >= Cost /\ Peek(bucket[s], SenderRate, SenderBurst) >= Cost
    BY <1>4 DEF TakeTokens, Allows, GlobalHasToken, SenderHasToken
  <2>2. /\ Acquire(global, factor, GlobalBurst) \in Bucket(GlobalBurst)
        /\ Acquire(global, factor, GlobalBurst).updated = now
    BY <1>1, <1>2, <2>1, BucketTypes
  <2>3. /\ Acquire(bucket[s], SenderRate, SenderBurst) \in Bucket(SenderBurst)
        /\ Acquire(bucket[s], SenderRate, SenderBurst).updated = now
    BY <1>1, <1>2, <2>1, BucketTypes
  <2>4. BucketFor(s, Acquire(bucket[s], SenderRate, SenderBurst))
    BY <1>4 DEF TakeTokens
  <2>5. /\ lru' \in Seq(Sender)
        /\ bucket' \in [Sender -> Bucket(SenderBurst)]
        /\ \A x \in Sender : bucket'[x].updated <= now
    BY <1>1, <2>3, <2>4, BucketForType
  <2> QED BY <1>1, <1>4, <2>2, <2>5 DEF TakeTokens, LimiterTypeOK, Bucket
<1>5. ASSUME NEW s \in Sender, LookUp(s)
      PROVE  LimiterTypeOK'
  <2>1. /\ Refill(bucket[s], SenderRate, SenderBurst) \in Bucket(SenderBurst)
        /\ Refill(bucket[s], SenderRate, SenderBurst).updated = now
    BY <1>1, <1>2, BucketTypes
  <2>2. PICK b \in Bucket(SenderBurst) : b.updated <= now /\ BucketFor(s, b)
    BY <1>1, <1>2, <1>5, <2>1 DEF LookUp
  <2>3. /\ lru' \in Seq(Sender)
        /\ bucket' \in [Sender -> Bucket(SenderBurst)]
        /\ \A x \in Sender : bucket'[x].updated <= now
    BY <2>2, BucketForType
  <2>4. global' \in Bucket(GlobalBurst) /\ global'.updated <= now
    <3>1. global' = global \/ global' = Refill(global, factor, GlobalBurst)
      BY <1>5 DEF LookUp
    <3>2. now \in Nat
      BY <1>1
    <3> QED BY <1>2, <1>3, <3>1, <3>2
  <2>5. factor' = factor
    BY <1>5 DEF LookUp
  <2> QED BY <2>3, <2>4, <2>5 DEF LimiterTypeOK
<1>6. ASSUME NEW s \in Sender, CommitTokens(s) \/ RefundTokens(s)
      PROVE  LimiterTypeOK'
  <2>1. /\ CommitBucket(bucket[s], SenderRate, SenderBurst) \in Bucket(SenderBurst)
        /\ CommitBucket(bucket[s], SenderRate, SenderBurst).updated = now
        /\ RefundBucket(bucket[s], SenderRate, SenderBurst) \in Bucket(SenderBurst)
        /\ RefundBucket(bucket[s], SenderRate, SenderBurst).updated = now
    BY <1>1, <1>2, BucketTypes
  <2>2. /\ CommitBucket(global, factor, GlobalBurst) \in Bucket(GlobalBurst)
        /\ CommitBucket(global, factor, GlobalBurst).updated = now
        /\ RefundBucket(global, factor, GlobalBurst) \in Bucket(GlobalBurst)
        /\ RefundBucket(global, factor, GlobalBurst).updated = now
    BY <1>1, <1>2, BucketTypes
  <2> QED BY <1>1, <1>6, <2>1, <2>2 DEF CommitTokens, RefundTokens, LimiterTypeOK
<1>7. ASSUME NEW f \in Factors, SetGlobalFactor(f)
      PROVE  LimiterTypeOK'
  BY <1>1, <1>3, <1>7 DEF SetGlobalFactor, LimiterTypeOK
<1>8. CASE UNCHANGED limiterVars
  BY <1>8 DEF limiterVars, LimiterTypeOK
<1> QED BY <1>4, <1>5, <1>6, <1>7, <1>8 DEF LimiterStep

-----------------------------------------------------------------------------
(* The inductive invariant *)

(* What an admission asks for leaves no other owner.                       *)
LEMMA NotBusy ==
  ASSUME QueueInv, NEW r \in Request, ~Busy(r)
  PROVE  \A q \in Request \ {r} : pc[q] \notin Owning
  BY DEF QueueInv, Busy, Requests, Live, Stages, Allowed, ReservedByPlace, ReservedAt, Owning

(* A step that moves one request to a place that goes with what it has     *)
(* reserved keeps the conjuncts about places.                              *)
LEMMA Moves ==
  ASSUME QueueInv, NEW r \in Request, NEW place \in Places, NEW res \in ReservedAt(place),
         Goto(r, place), reservation' = [reservation EXCEPT ![r] = res],
         place \in Owning => pc[r] \in Owning \/ \A q \in Request \ {r} : pc[q] \notin Owning,
         \A q \in Request \ {r} : left'[q] = left[q],
         place = "gap" => left'[r] > 0
  PROVE  ReservedByPlace' /\ SingleOwner' /\ GapHasNext'
<1>1. pc \in [Request -> Places] /\ reservation \in [Request -> Reservations]
  BY DEF QueueInv, TypeOK
<1>2. /\ pc'[r] = place /\ \A q \in Request \ {r} : pc'[q] = pc[q]
      /\ reservation'[r] = res /\ \A q \in Request \ {r} : reservation'[q] = reservation[q]
  BY <1>1 DEF Goto
<1>3. ReservedByPlace'
  BY <1>2 DEF QueueInv, ReservedByPlace
<1>4. SingleOwner'
  BY <1>2 DEF QueueInv, SingleOwner
<1>5. GapHasNext'
  BY <1>2 DEF QueueInv, GapHasNext
<1> QED BY <1>3, <1>4, <1>5

LEMMA MovesOnly ==
  ASSUME QueueInv, NEW r \in Request, NEW place \in Places, reservation[r] \in ReservedAt(place),
         Goto(r, place), UNCHANGED <<reservation, left>>,
         place \in Owning => pc[r] \in Owning,
         place # "gap"
  PROVE  ReservedByPlace' /\ SingleOwner' /\ GapHasNext'
<1>1. reservation' = [reservation EXCEPT ![r] = reservation[r]]
  BY DEF QueueInv, TypeOK
<1> QED BY <1>1, Moves

LEMMA AdmitMoves ==
  ASSUME QueueInv, NEW r \in Request, NEW place \in {"processing", "sending"},
         Admit(r), Goto(r, place),
         \A q \in Request \ {r} : left'[q] = left[q]
  PROVE  ReservedByPlace' /\ SingleOwner' /\ GapHasNext'
<1>1. "held" \in ReservedAt(place) /\ place \in Places /\ place # "gap"
  BY DEF ReservedAt, Places, Stages
<1>2. \A q \in Request \ {r} : pc[q] \notin Owning
  BY NotBusy DEF Admit
<1>3. reservation' = [reservation EXCEPT ![r] = "held"]
  BY DEF Admit
<1> QED BY <1>1, <1>2, <1>3, Moves

LEMMA RefuseMoves ==
  ASSUME QueueInv, NEW r \in Request, NEW place \in {"waiting", "retry", "deferred", "done"},
         Refuse(r), Goto(r, place), UNCHANGED left
  PROVE  ReservedByPlace' /\ SingleOwner' /\ GapHasNext'
<1>1. "none" \in ReservedAt(place) /\ place \in Places /\ place # "gap" /\ place \notin Owning
  BY DEF ReservedAt, Places, Stages, Owning
<1>2. reservation' = [reservation EXCEPT ![r] = "none"]
  BY DEF Refuse
<1> QED BY <1>1, <1>2, Moves

LEMMA Limiters ==
  ASSUME TypeOK, NEW r \in Request, UNCHANGED now,
         Admit(r) \/ Refuse(r) \/ Refund(r) \/ LookUp(SenderOf[r])
           \/ CommitTokens(SenderOf[r]) \/ UNCHANGED limiterVars
  PROVE  LimiterTypeOK'
<1>1. SenderOf[r] \in Sender
  BY QueueAssumption
<1>2. LimiterStep
  BY <1>1 DEF LimiterStep, Admit, Refuse, Refund
<1> QED BY <1>2, LimiterTypes DEF TypeOK

(* The exit of a request, from anywhere.                                   *)
LEMMA ExitKeeps ==
  ASSUME QueueInv, NEW r \in Request, NEW place \in {"done", "deferred"}, Exit(r, place),
         place = "deferred" => pc[r] = "processing"
  PROVE  QueueInv'
<1> USE DEF QueueInv
<1>1. TypeOK'
  <2>1. LimiterTypeOK'
    BY Limiters DEF Exit
  <2>2. waiting' \in Seq(Request)
    BY RemoveFirstType DEF Exit, Unregister, TypeOK
  <2>3. pc' \in [Request -> Places] /\ active' \in Request \cup {None}
    BY DEF Exit, Unregister, Goto, TypeOK, Places
  <2>4. reservation' \in [Request -> Reservations]
    BY DEF Exit, Settled, TypeOK, Reservations
  <2>5. received' \in [Request -> Nat] /\ lastSend' \in [Request -> Nat]
    BY DEF Exit, Unregister, TypeOK
  <2>6. left' \in [Request -> 0 .. BatchMax - 1]
    BY QueueAssumption DEF Exit, Unregister, TypeOK
  <2> QED BY <2>1, <2>2, <2>3, <2>4, <2>5, <2>6 DEF Exit, TypeOK
<1>2. ReservedByPlace' /\ SingleOwner' /\ GapHasNext'
  <2>1. Settled(r) \in ReservedAt(place)
    <3>1. CASE place = "done"
      BY <3>1 DEF Settled, ReservedAt, TypeOK, Reservations
    <3>2. CASE place = "deferred"
      <4>1. reservation[r] = "held"
        BY <3>2 DEF ReservedByPlace, ReservedAt
      <4> QED BY <3>2, <4>1 DEF Settled, ReservedAt
    <3> QED BY <3>1, <3>2
  <2>2. place \in Places /\ place \notin Owning /\ place # "gap"
    BY DEF Places, Owning
  <2>3. /\ Goto(r, place)
        /\ reservation' = [reservation EXCEPT ![r] = Settled(r)]
        /\ \A q \in Request \ {r} : left'[q] = left[q]
    BY DEF Exit, Unregister, TypeOK
  <2> QED BY <2>1, <2>2, <2>3, Moves
<1> QED BY <1>1, <1>2

-----------------------------------------------------------------------------
(* Each action keeps the invariant *)

LEMMA ProcessLeft ==
  ASSUME TypeOK, NEW r \in Request, Process(r)
  PROVE  /\ left' \in [Request -> 0 .. BatchMax - 1]
         /\ \A q \in Request \ {r} : left'[q] = left[q]
<1>1. PICK n \in 0 .. BatchMax - 1 : left' = [left EXCEPT ![r] = n]
  BY QueueAssumption DEF Process
<1> QED BY <1>1 DEF TypeOK

LEMMA ReceiveKeeps ==
  ASSUME QueueInv, NEW r \in Request, Receive(r)
  PROVE  QueueInv'
<1> USE DEF QueueInv
<1>1. CASE Overloaded /\ Exit(r, "done")
  BY <1>1, ExitKeeps
<1>2. CASE /\ Admit(r) /\ Process(r)
           /\ received' = [received EXCEPT ![r] = now]
           /\ UNCHANGED waiting
  <2>1. /\ left' \in [Request -> 0 .. BatchMax - 1]
        /\ \A q \in Request \ {r} : left'[q] = left[q]
    BY <1>2, ProcessLeft
  <2>2. LimiterTypeOK'
    BY <1>2, Limiters DEF Process
  <2>3. TypeOK'
    BY <1>2, <2>1, <2>2 DEF TypeOK, LimiterTypeOK, Admit, Process, Goto, Places, Stages, Reservations
  <2>4. ReservedByPlace' /\ SingleOwner' /\ GapHasNext'
    BY <1>2, <2>1, AdmitMoves DEF Process
  <2> QED BY <2>3, <2>4
<1>3. CASE /\ Refuse(r)
           /\ IF Len(waiting) < QueueMax
                THEN /\ Goto(r, "waiting")
                     /\ waiting' = Append(waiting, r)
                     /\ received' = [received EXCEPT ![r] = now]
                ELSE Goto(r, "done") /\ UNCHANGED <<waiting, received>>
           /\ UNCHANGED <<now, left, lastSend, active, stopped>>
  <2>1. LimiterTypeOK'
    BY <1>3, Limiters
  <2>2. waiting' \in Seq(Request) /\ received' \in [Request -> Nat]
    <3>1. CASE Len(waiting) < QueueMax
      <4>1. waiting' = Append(waiting, r) /\ received' = [received EXCEPT ![r] = now]
        BY <1>3, <3>1
      <4> QED BY <4>1 DEF TypeOK, LimiterTypeOK
    <3>2. CASE ~(Len(waiting) < QueueMax)
      BY <1>3, <3>2 DEF TypeOK
    <3> QED BY <3>1, <3>2
  <2>3. PICK place \in {"waiting", "done"} : Goto(r, place)
    BY <1>3
  <2>4. TypeOK'
    BY <1>3, <2>1, <2>2, <2>3 DEF TypeOK, Refuse, Goto, Places, Stages, Reservations
  <2>5. ReservedByPlace' /\ SingleOwner' /\ GapHasNext'
    BY <1>3, <2>3, RefuseMoves
  <2> QED BY <2>4, <2>5
<1> QED BY <1>1, <1>2, <1>3 DEF Receive

LEMMA DequeueKeeps ==
  ASSUME QueueInv, NEW r \in Request, Dequeue(r)
  PROVE  QueueInv'
<1> USE DEF QueueInv
<1>1. /\ left' \in [Request -> 0 .. BatchMax - 1]
      /\ \A q \in Request \ {r} : left'[q] = left[q]
  BY ProcessLeft DEF Dequeue
<1>2. LimiterTypeOK'
  BY Limiters DEF Dequeue, Process
<1>3. waiting' \in Seq(Request)
  BY DEF Dequeue, AtHead, TypeOK
<1>4. TypeOK'
  BY <1>1, <1>2, <1>3 DEF TypeOK, Dequeue, Admit, Process, Goto, Places, Stages, Reservations
<1>5. ReservedByPlace' /\ SingleOwner' /\ GapHasNext'
  BY <1>1, AdmitMoves DEF Dequeue, Process
<1> QED BY <1>4, <1>5

LEMMA KeepWaitingKeeps ==
  ASSUME QueueInv, NEW r \in Request, KeepWaiting(r)
  PROVE  QueueInv'
<1> USE DEF QueueInv
<1>1. LimiterTypeOK'
  BY Limiters DEF KeepWaiting
<1>2. reservation' = [reservation EXCEPT ![r] = "none"]
  BY DEF KeepWaiting, Refuse
<1>3. TypeOK'
  BY <1>1, <1>2 DEF TypeOK, KeepWaiting, localVars, Reservations
<1>4. ReservedByPlace' /\ SingleOwner' /\ GapHasNext'
  BY <1>2 DEF KeepWaiting, localVars, TypeOK, ReservedByPlace, ReservedAt, SingleOwner, GapHasNext
<1> QED BY <1>3, <1>4

LEMMA TransmitKeeps ==
  ASSUME QueueInv, NEW r \in Request, pc[r] \in {"processing", "delivery_wait"},
         Transmit(r) \/ WaitForRadio(r)
  PROVE  QueueInv'
<1> USE DEF QueueInv
<1>1. PICK place \in {"sending", "delivery_wait"} :
        /\ Goto(r, place)
        /\ UNCHANGED <<now, limiterVars, reservation, localVars, waiting, active, stopped>>
  BY DEF Transmit, WaitForRadio
<1>2. LimiterTypeOK'
  BY <1>1, Limiters
<1>3. TypeOK'
  BY <1>1, <1>2 DEF TypeOK, Goto, Places, Stages, localVars
<1>4. reservation[r] \in ReservedAt(place) /\ place \in Places /\ pc[r] \in Owning /\ place # "gap"
  BY DEF ReservedByPlace, ReservedAt, Places, Stages, Owning
<1>5. ReservedByPlace' /\ SingleOwner' /\ GapHasNext'
  BY <1>1, <1>4, MovesOnly DEF localVars
<1> QED BY <1>3, <1>5

LEMMA StartSendKeeps ==
  ASSUME QueueInv, NEW r \in Request, StartSend(r)
  PROVE  QueueInv'
<1>1. CASE Transmit(r) \/ WaitForRadio(r)
  BY <1>1, TransmitKeeps DEF StartSend
<1>2. CASE \E place \in GivenUp(r) : Exit(r, place)
  BY <1>2, ExitKeeps DEF StartSend, GivenUp
<1> QED BY <1>1, <1>2 DEF StartSend

LEMMA DeliverKeeps ==
  ASSUME QueueInv, NEW r \in Request, Deliver(r)
  PROVE  QueueInv'
  BY TransmitKeeps, ExitKeeps DEF Deliver

LEMMA FinishSendKeeps ==
  ASSUME QueueInv, NEW r \in Request, FinishSend(r)
  PROVE  QueueInv'
<1> USE DEF QueueInv
<1>1. LimiterTypeOK'
  BY Limiters DEF FinishSend
<1>2. CASE Unregister(r, "done")
  <2>1. waiting' \in Seq(Request)
    BY <1>2, RemoveFirstType DEF Unregister, TypeOK
  <2>2. left' \in [Request -> 0 .. BatchMax - 1] /\ \A q \in Request \ {r} : left'[q] = left[q]
    BY <1>2, QueueAssumption DEF Unregister, TypeOK
  <2>3. TypeOK'
    BY <1>1, <1>2, <2>1, <2>2 DEF TypeOK, FinishSend, Unregister, Goto, Places, Reservations
  <2>4. "committed" \in ReservedAt("done") /\ "done" \in Places /\ "done" \notin Owning
    BY DEF ReservedAt, Places, Owning
  <2>5. ReservedByPlace' /\ SingleOwner' /\ GapHasNext'
    BY <1>2, <2>2, <2>4, Moves DEF FinishSend, Unregister
  <2> QED BY <2>3, <2>5
<1>3. CASE /\ left[r] > 0
           /\ Goto(r, "gap")
           /\ lastSend' = [lastSend EXCEPT ![r] = now]
           /\ UNCHANGED <<received, left, waiting, active>>
  <2>1. TypeOK'
    BY <1>1, <1>3 DEF TypeOK, LimiterTypeOK, FinishSend, Goto, Places, Stages, Reservations
  <2>2. "committed" \in ReservedAt("gap") /\ "gap" \in Places /\ pc[r] \in Owning
    BY DEF ReservedAt, Places, Stages, Owning, FinishSend
  <2>3. ReservedByPlace' /\ SingleOwner' /\ GapHasNext'
    BY <1>3, <2>2, Moves DEF FinishSend
  <2> QED BY <2>1, <2>3
<1> QED BY <1>2, <1>3 DEF FinishSend

LEMMA NextReportKeeps ==
  ASSUME QueueInv, NEW r \in Request, NextReport(r)
  PROVE  QueueInv'
<1> USE DEF QueueInv
<1>1. CASE Exit(r, "done")
  BY <1>1, ExitKeeps
<1>2. CASE /\ ReserveNext(r)
           /\ Goto(r, "sending")
           /\ UNCHANGED <<now, limiterVars, received, lastSend, waiting, active, stopped>>
  <2>1. left[r] > 0 /\ pc[r] \in Owning
    BY DEF NextReport, GapHasNext, Owning
  <2>2. left' \in [Request -> 0 .. BatchMax - 1] /\ \A q \in Request \ {r} : left'[q] = left[q]
    BY <1>2, <2>1, QueueAssumption DEF ReserveNext, TypeOK
  <2>3. LimiterTypeOK'
    BY <1>2, Limiters
  <2>4. TypeOK'
    BY <1>2, <2>2, <2>3 DEF TypeOK, ReserveNext, Goto, Places, Stages, Reservations
  <2>5. "followup" \in ReservedAt("sending") /\ "sending" \in Places
    BY DEF ReservedAt, Places, Stages
  <2>6. ReservedByPlace' /\ SingleOwner' /\ GapHasNext'
    BY <1>2, <2>1, <2>2, <2>5, Moves DEF ReserveNext
  <2> QED BY <2>4, <2>6
<1> QED BY <1>1, <1>2 DEF NextReport

LEMMA SendNowKeeps ==
  ASSUME QueueInv, NEW r \in Request, pc[r] \in {"idle", "retry"}, SendNow(r),
         received' \in [Request -> Nat], UNCHANGED <<now, left, lastSend, active, stopped>>
  PROVE  QueueInv'
<1> USE DEF QueueInv
<1>1. LimiterTypeOK'
  BY Limiters DEF SendNow
<1>2. CASE Admit(r) /\ Goto(r, "sending") /\ UNCHANGED waiting
  <2>1. TypeOK'
    BY <1>1, <1>2 DEF TypeOK, Admit, Goto, Places, Stages, Reservations
  <2>2. ReservedByPlace' /\ SingleOwner' /\ GapHasNext'
    BY <1>2, AdmitMoves
  <2> QED BY <2>1, <2>2
<1>3. CASE Goto(r, "done") /\ UNCHANGED <<reservation, waiting>>
  <2>1. TypeOK'
    BY <1>1, <1>3 DEF TypeOK, Goto, Places
  <2>2. reservation[r] \in ReservedAt("done") /\ "done" \in Places /\ "done" \notin Owning
    BY DEF ReservedByPlace, ReservedAt, Places, Owning
  <2>3. ReservedByPlace' /\ SingleOwner' /\ GapHasNext'
    BY <1>3, <2>2, MovesOnly
  <2> QED BY <2>1, <2>3
<1> QED BY <1>2, <1>3 DEF SendNow

LEMMA AnnounceKeeps ==
  ASSUME QueueInv, NEW r \in Request, Announce(r)
  PROVE  QueueInv'
<1> USE DEF QueueInv
<1>1. received' \in [Request -> Nat] /\ UNCHANGED <<now, left, lastSend, active, stopped>>
  BY DEF Announce, Begin, Began, TypeOK, LimiterTypeOK
<1>2. CASE SendNow(r)
  BY <1>1, <1>2, SendNowKeeps DEF Announce
<1>3. CASE /\ Refuse(r)
           /\ Goto(r, IF now < WindowEnd(r) THEN "retry" ELSE "done")
           /\ UNCHANGED waiting
  <2>1. LimiterTypeOK'
    BY <1>1, <1>3, Limiters
  <2>2. PICK place \in {"retry", "done"} : Goto(r, place)
    BY <1>3
  <2>3. TypeOK'
    BY <1>1, <1>3, <2>1, <2>2 DEF TypeOK, Refuse, Goto, Places, Stages, Reservations
  <2>4. ReservedByPlace' /\ SingleOwner' /\ GapHasNext'
    BY <1>1, <1>3, <2>2, RefuseMoves
  <2> QED BY <2>3, <2>4
<1> QED BY <1>2, <1>3 DEF Announce

LEMMA PostKeeps ==
  ASSUME QueueInv, NEW r \in Request, Post(r)
  PROVE  QueueInv'
<1> USE DEF QueueInv
<1>1. /\ received' \in [Request -> Nat]
      /\ pc[r] \in {"idle", "deferred"} /\ reservation[r] = "none"
      /\ UNCHANGED <<now, left, lastSend, waiting, active, stopped>>
  BY DEF Post, Begin, Began, TypeOK, LimiterTypeOK, ReservedByPlace, ReservedAt
<1>2. CASE Admit(r) /\ Goto(r, "processing")
  <2>1. LimiterTypeOK'
    BY <1>1, <1>2, Limiters
  <2>2. TypeOK'
    BY <1>1, <1>2, <2>1 DEF TypeOK, Admit, Goto, Places, Stages, Reservations
  <2>3. ReservedByPlace' /\ SingleOwner' /\ GapHasNext'
    BY <1>1, <1>2, AdmitMoves
  <2> QED BY <2>2, <2>3
<1>3. ASSUME NEW place \in {"deferred", "done"}, Goto(r, place),
             Refuse(r) \/ UNCHANGED <<limiterVars, reservation>>
      PROVE  QueueInv'
  <2>1. LimiterTypeOK'
    BY <1>1, <1>3, Limiters
  <2>2. reservation' = [reservation EXCEPT ![r] = "none"]
    BY <1>1, <1>3 DEF Refuse, TypeOK
  <2>3. TypeOK'
    BY <1>1, <1>3, <2>1, <2>2 DEF TypeOK, Goto, Places, Reservations
  <2>4. "none" \in ReservedAt(place) /\ place \in Places /\ place # "gap" /\ place \notin Owning
    BY DEF ReservedAt, Places, Owning
  <2>5. ReservedByPlace' /\ SingleOwner' /\ GapHasNext'
    BY <1>1, <1>3, <2>2, <2>4, Moves
  <2> QED BY <2>3, <2>5
<1>4. PICK place \in {"deferred", "done"} :
        \/ Admit(r) /\ Goto(r, "processing")
        \/ Goto(r, place) /\ (Refuse(r) \/ UNCHANGED <<limiterVars, reservation>>)
  BY DEF Post
<1> QED BY <1>2, <1>3, <1>4

LEMMA TipKeeps ==
  ASSUME QueueInv, NEW r \in Request, Tip(r)
  PROVE  QueueInv'
<1> USE DEF QueueInv
<1>1. /\ pc[r] \in {"idle", "retry"} /\ received' \in [Request -> Nat]
      /\ UNCHANGED <<now, received, left, lastSend, active, stopped>>
  BY DEF Tip, TypeOK, localVars
<1>2. CASE SendNow(r)
  BY <1>1, <1>2, SendNowKeeps
<1>3. CASE Refuse(r) /\ Goto(r, "done") /\ UNCHANGED waiting
  <2>1. LimiterTypeOK'
    BY <1>1, <1>3, Limiters
  <2>2. TypeOK'
    BY <1>1, <1>3, <2>1 DEF TypeOK, Refuse, Goto, Places, Reservations
  <2>3. ReservedByPlace' /\ SingleOwner' /\ GapHasNext'
    BY <1>1, <1>3, RefuseMoves
  <2> QED BY <2>2, <2>3
<1> QED BY <1>2, <1>3 DEF Tip

(* Steps of the clock, the congestion monitor and the shutdown touch no    *)
(* request.                                                                *)
LEMMA GlobalKeeps ==
  ASSUME QueueInv, Stop \/ Tick \/ ChangeFactor
  PROVE  QueueInv'
<1> USE DEF QueueInv
<1>1. UNCHANGED <<pc, reservation, received, left, lastSend, waiting, active>>
  BY DEF Stop, Tick, ChangeFactor, localVars
<1>2. LimiterTypeOK'
  <2>1. CASE Stop
    BY <2>1 DEF Stop, limiterVars, TypeOK, LimiterTypeOK
  <2>2. CASE Tick
    <3>1. now' = now + 1 /\ UNCHANGED <<factor, global, lru, bucket>> /\ LimiterTypeOK
      BY <2>2 DEF Tick, limiterVars, TypeOK
    <3>2. /\ now' \in Nat /\ global'.updated <= now'
          /\ \A s \in Sender : bucket'[s].updated <= now'
      BY <3>1 DEF LimiterTypeOK, Bucket
    <3> QED BY <3>1, <3>2 DEF LimiterTypeOK
  <2>3. CASE ChangeFactor
    <3>1. PICK f \in Factors : SetGlobalFactor(f)
      BY <2>3 DEF ChangeFactor
    <3>2. LimiterTypeOK /\ UNCHANGED <<now, lru, bucket>>
      BY <2>3, <3>1 DEF ChangeFactor, SetGlobalFactor, TypeOK
    <3>3. /\ factor \in Nat /\ global \in Bucket(GlobalBurst)
          /\ now \in Nat /\ global.updated <= now
      BY <3>2 DEF LimiterTypeOK, Factors, Paused, Half, Full
    <3>4. /\ Refill(global, factor, GlobalBurst) \in Bucket(GlobalBurst)
          /\ Refill(global, factor, GlobalBurst).updated = now
      BY <3>3, BucketTypes, LimiterAssumption
    <3>5. factor' = f /\ global' = Refill(global, factor, GlobalBurst)
      BY <3>1 DEF SetGlobalFactor
    <3> QED BY <3>2, <3>3, <3>4, <3>5 DEF LimiterTypeOK
  <2> QED BY <2>1, <2>2, <2>3
<1>3. stopped' \in BOOLEAN
  BY DEF Stop, Tick, ChangeFactor, TypeOK
<1>4. TypeOK'
  BY <1>1, <1>2, <1>3 DEF TypeOK
<1> QED BY <1>1, <1>4 DEF ReservedByPlace, SingleOwner, GapHasNext

-----------------------------------------------------------------------------
(* The invariant *)

LEMMA InitQueueInv == Init => QueueInv
<1> SUFFICES ASSUME Init PROVE QueueInv
  OBVIOUS
<1>1. NewBucket(GlobalBurst) \in Bucket(GlobalBurst) /\ NewBucket(GlobalBurst).updated = 0
      /\ NewBucket(SenderBurst) \in Bucket(SenderBurst) /\ NewBucket(SenderBurst).updated = 0
  BY NewBucketType, LimiterAssumption
<1>2. LimiterTypeOK
  BY <1>1 DEF Init, AtRest, LimiterInit, LimiterTypeOK, Factors, Full
<1>3. TypeOK
  <2>1. 0 \in 0 .. BatchMax - 1
    BY QueueAssumption
  <2>2. left \in [Request -> 0 .. BatchMax - 1] /\ waiting \in Seq(Request)
    BY <2>1 DEF Init, AtRest
  <2> QED BY <1>2, <2>2 DEF Init, AtRest, TypeOK, Places, Reservations
<1>4. ReservedByPlace /\ SingleOwner /\ GapHasNext
  BY DEF Init, AtRest, ReservedByPlace, ReservedAt, SingleOwner, GapHasNext, Owning
<1> QED BY <1>3, <1>4 DEF QueueInv

LEMMA ProceedKeeps ==
  ASSUME QueueInv, NEW r \in Request, Proceed(r)
  PROVE  QueueInv'
<1>1. CASE Expire(r)
  BY <1>1, ExitKeeps DEF Expire
<1>2. CASE Dequeue(r)
  BY <1>2, DequeueKeeps
<1>3. CASE KeepWaiting(r)
  BY <1>3, KeepWaitingKeeps
<1>4. CASE StartSend(r)
  BY <1>4, StartSendKeeps
<1>5. CASE Deliver(r)
  BY <1>5, DeliverKeeps
<1>6. CASE FinishSend(r)
  BY <1>6, FinishSendKeeps
<1>7. CASE NextReport(r)
  BY <1>7, NextReportKeeps
<1>8. CASE EndBatch(r)
  BY <1>8, ExitKeeps DEF EndBatch
<1>9. CASE Announce(r)
  BY <1>9, AnnounceKeeps
<1>10. CASE Post(r)
  BY <1>10, PostKeeps
<1>11. CASE WindowOver(r)
  BY <1>11, ExitKeeps DEF WindowOver
<1>12. CASE Tip(r)
  BY <1>12, TipKeeps
<1>13. CASE Cancel(r)
  BY <1>13, ExitKeeps DEF Cancel
<1> QED BY <1>1, <1>2, <1>3, <1>4, <1>5, <1>6, <1>7, <1>8, <1>9, <1>10, <1>11, <1>12, <1>13
        DEF Proceed

LEMMA NextKeeps == QueueInv /\ [Next]_vars => QueueInv'
<1> SUFFICES ASSUME QueueInv, [Next]_vars PROVE QueueInv'
  OBVIOUS
<1>1. ASSUME NEW r \in Request, Receive(r) PROVE QueueInv'
  BY <1>1, ReceiveKeeps
<1>2. ASSUME NEW r \in Request, Proceed(r) PROVE QueueInv'
  BY <1>2, ProceedKeeps
<1>3. CASE Stop \/ Tick \/ ChangeFactor
  BY <1>3, GlobalKeeps
<1>4. CASE UNCHANGED vars
  BY <1>4 DEF vars, limiterVars, localVars, QueueInv, TypeOK, LimiterTypeOK,
              ReservedByPlace, SingleOwner, GapHasNext
<1> QED BY <1>1, <1>2, <1>3, <1>4 DEF Next

(* Whatever the requests, their kinds and the sizes of queue and buckets:  *)
(* the place of a request determines what it has reserved, and one request *)
(* at a time is past admission (_admit, _request, _send).                  *)
THEOREM QueueInvariant == Spec => []QueueInv
<1>1. Init => QueueInv
  BY InitQueueInv
<1>2. QueueInv /\ [Next]_vars => QueueInv'
  BY NextKeeps
<1> QED BY <1>1, <1>2, PTL DEF Spec

(* The types of every variable, buckets included: no bucket exceeds its    *)
(* capacity or goes below zero (TokenBucket, Reservation).                 *)
THEOREM TypeCorrect == Spec => []TypeOK
<1>1. QueueInv => TypeOK
  BY DEF QueueInv
<1> QED BY <1>1, QueueInvariant, PTL

(* At most one request, over all channels, holds an admission, and none    *)
(* that is over still holds a token (_admit, the exit of _request).        *)
THEOREM OneOwnerAlways == Spec => []OneOwner
<1>1. QueueInv => OneOwner
  <2> SUFFICES ASSUME QueueInv PROVE OneOwner
    OBVIOUS
  <2>1. \A r \in Request : Allowed(r) /\ Live(r) <=> pc[r] \in Owning
    BY DEF QueueInv, ReservedByPlace, ReservedAt, Allowed, Live, Stages, Owning
  <2>2. \A q, r \in Requests : Allowed(q) /\ Allowed(r) => q = r
    BY <2>1 DEF QueueInv, SingleOwner, Requests
  <2>3. \A r \in Request \ Requests : pc[r] \in {"idle", "deferred", "done"}
    BY DEF Requests, Live, QueueInv, TypeOK, Places
  <2>4. \A r \in Request \ Requests : reservation[r] \in {"none", "committed"}
    BY <2>3 DEF QueueInv, ReservedByPlace, ReservedAt
  <2> QED BY <2>1, <2>2, <2>4 DEF OneOwner, Requests
<1> QED BY <1>1, QueueInvariant, PTL

(* A transmission is never made on a reservation that was already spent    *)
(* (_send, ReportBurst.reserve_next).                                      *)
THEOREM FreshReservationAlways == Spec => []FreshReservation
<1>1. QueueInv => FreshReservation
  BY DEF QueueInv, ReservedByPlace, ReservedAt, FreshReservation
<1> QED BY <1>1, QueueInvariant, PTL

-----------------------------------------------------------------------------
(* No stale transmission *)

NotStale(r) ==
  /\ ~stopped /\ factor # Paused
  /\ Retains(r) => now < Deadline(r)

(* The only steps that begin a transmission, and what each of them asked.  *)
LEMMA StartsByAction ==
  ASSUME TypeOK, NEW q \in Request, Receive(q) \/ Proceed(q), NEW r \in Request, Starts(r)
  PROVE  NotStale(r)
<1>1. ASSUME NEW place \in Places, Goto(q, place)
      PROVE  q = r /\ place = "sending"
  BY <1>1 DEF Starts, Goto, TypeOK
<1>2. ASSUME NEW place \in {"done", "deferred"}, Exit(q, place)
      PROVE  FALSE
  BY <1>1, <1>2 DEF Exit, Unregister, Places
<1>3. ASSUME Transmit(q)
      PROVE  NotStale(r)
  <2>1. q = r
    BY <1>1, <1>3 DEF Transmit, Places, Stages
  <2> QED BY <1>3, <2>1 DEF Transmit, CanSend, NotStale
<1>4. ASSUME SendNow(q), ~stopped, ~Answers(q)
      PROVE  NotStale(r)
  <2>1. Admit(q) /\ q = r
    BY <1>1, <1>4 DEF SendNow, Places, Stages
  <2>2. factor # Paused
    BY <2>1 DEF Admit, TakeTokens, Allows, GlobalHasToken
  <2> QED BY <1>4, <2>1, <2>2 DEF NotStale, Retains
<1>5. ~Receive(q)
  <2>1. \A place \in {"waiting", "done", "processing"} : ~Goto(q, place)
    BY <1>1 DEF Places, Stages
  <2> QED BY <1>2, <2>1 DEF Receive, Process
<1>6. ~Expire(q) /\ ~EndBatch(q) /\ ~WindowOver(q) /\ ~Cancel(q)
  BY <1>2 DEF Expire, EndBatch, WindowOver, Cancel
<1>7. ~Dequeue(q) /\ ~KeepWaiting(q)
  <2>1. ~Goto(q, "processing")
    BY <1>1 DEF Places, Stages
  <2> QED BY <2>1 DEF Dequeue, Process, KeepWaiting, Starts
<1>8. CASE StartSend(q)
  <2>1. ~WaitForRadio(q)
    BY <1>1 DEF WaitForRadio, Places, Stages
  <2>2. ~\E place \in GivenUp(q) : Exit(q, place)
    BY <1>2 DEF GivenUp
  <2> QED BY <1>3, <1>8, <2>1, <2>2 DEF StartSend
<1>9. CASE Deliver(q)
  BY <1>2, <1>3, <1>9 DEF Deliver
<1>10. ~FinishSend(q)
  <2>1. ~Goto(q, "done") /\ ~Goto(q, "gap")
    BY <1>1 DEF Places, Stages
  <2> QED BY <2>1 DEF FinishSend, Unregister
<1>11. CASE NextReport(q)
  <2>1. ~Exit(q, "done")
    BY <1>2
  <2>2. Goto(q, "sending") /\ ~stopped
    BY <1>11, <2>1 DEF NextReport
  <2>3. q = r
    BY <1>1, <2>2 DEF Places, Stages
  <2> QED BY <1>11, <2>2, <2>3 DEF NextReport, GapOver, NotStale
<1>12. CASE Announce(q)
  <2>1. ~stopped /\ ~Answers(q)
    BY <1>12 DEF Announce, Answers
  <2>2. ~Goto(q, "retry") /\ ~Goto(q, "done")
    BY <1>1 DEF Places, Stages
  <2>3. SendNow(q)
    BY <1>12, <2>2 DEF Announce
  <2> QED BY <1>4, <2>1, <2>3
<1>13. ~Post(q)
  <2>1. \A place \in {"processing", "deferred", "done"} : ~Goto(q, place)
    BY <1>1 DEF Places, Stages
  <2> QED BY <2>1 DEF Post
<1>14. CASE Tip(q)
  <2>1. ~stopped /\ ~Answers(q)
    BY <1>14 DEF Tip, Answers, TipReady
  <2>2. ~Goto(q, "done")
    BY <1>1 DEF Places, Stages
  <2>3. SendNow(q)
    BY <1>14, <2>2 DEF Tip
  <2> QED BY <1>4, <2>1, <2>3
<1> QED BY <1>5, <1>6, <1>7, <1>8, <1>9, <1>10, <1>11, <1>12, <1>13, <1>14 DEF Proceed

(* No transmission starts while the bot stops, during a pause, or after    *)
(* the waiting time of a queued answer, for queues and deadlines of any    *)
(* size (_send).                                                           *)
THEOREM NoStaleSendAlways == Spec => NoStaleSend
<1>1. TypeOK /\ [Next]_vars =>
        [\A r \in Request : Starts(r) =>
           /\ ~stopped /\ factor # Paused
           /\ Retains(r) => now < Deadline(r)]_vars
  <2> SUFFICES ASSUME TypeOK, Next, NEW r \in Request, Starts(r)
               PROVE  NotStale(r)
    BY DEF NotStale
  <2>1. ~(Stop \/ Tick \/ ChangeFactor)
    BY DEF Stop, Tick, ChangeFactor, Starts
  <2> QED BY <2>1, StartsByAction DEF Next
<1> QED BY <1>1, TypeCorrect, PTL DEF Spec, NoStaleSend

-----------------------------------------------------------------------------
(* The deque lists those that wait in the order in which they were         *)
(* received; and the sender buckets.                                       *)

(* Every place of the deque belongs to one waiting request, which is an    *)
(* answer, and those further back were received later.                     *)
DequeInv ==
  /\ \A i \in 1 .. Len(waiting) : pc[waiting[i]] = "waiting"
  /\ \A r \in Request : pc[r] = "waiting" => \E i \in 1 .. Len(waiting) : waiting[i] = r
  /\ \A i, j \in 1 .. Len(waiting) : i < j => waiting[i] # waiting[j]
  /\ \A i, j \in 1 .. Len(waiting) : i < j => received[waiting[i]] <= received[waiting[j]]
  /\ \A r \in Request : pc[r] = "waiting" => Answers(r) /\ received[r] <= now
  /\ Len(waiting) <= QueueMax

ActiveOwns == active # None => pc[active] \in Owning

OrderInv == QueueInv /\ DequeInv /\ ActiveOwns

-----------------------------------------------------------------------------
(* Sequences *)

(* t is s without its k-th element.                                        *)
Without(s, k, t) ==
  /\ k \in 1 .. Len(s)
  /\ Len(t) = Len(s) - 1
  /\ \A i \in 1 .. Len(t) : t[i] = IF i < k THEN s[i] ELSE s[i + 1]

LEMMA RemoveFirstShape ==
  ASSUME NEW S, NEW s \in Seq(S), NEW e, NEW n \in 1 .. Len(s), s[n] = e
  PROVE  \E k \in 1 .. Len(s) : s[k] = e /\ Without(s, k, RemoveFirst(s, e))
<1> DEFINE I == {i \in 1 .. Len(s) : s[i] = e}
<1> DEFINE k == SelectInSeq(s, LAMBDA v : v = e)
<1>1. \E m \in I : \A x \in I : m <= x
  <2>1. I \subseteq Nat /\ I # {}
    OBVIOUS
  <2>2. PICK m \in I : \A x \in I : ~ (<<x, m>> \in OpToRel(<, Nat))
    BY <2>1, NatLessThanWellFounded, WFMin
  <2>3. \A x \in I : ~ (x < m)
    BY <2>1, <2>2 DEF OpToRel
  <2> QED BY <2>1, <2>3
<1>2. k = Min(I)
  BY DEF SelectInSeq
<1>3. k \in I
  BY <1>1, <1>2 DEF Min
<1>4. RemoveFirst(s, e) = SubSeq(s, 1, k - 1) \o SubSeq(s, k + 1, Len(s))
  BY DEF RemoveFirst, RemoveAt
<1>5. k \in 1 .. Len(s) /\ s[k] = e
  BY <1>3
<1> HIDE DEF k, I
<1> DEFINE a == SubSeq(s, 1, k - 1)
<1> DEFINE b == SubSeq(s, k + 1, Len(s))
<1>6. a \in Seq(S) /\ Len(a) = k - 1 /\ \A i \in 1 .. k - 1 : a[i] = s[i]
  BY <1>5
<1>7. b \in Seq(S) /\ Len(b) = Len(s) - k /\ \A i \in 1 .. Len(s) - k : b[i] = s[k + i]
  BY <1>5
<1> HIDE DEF a, b
<1>8. /\ Len(a \o b) = Len(a) + Len(b)
      /\ \A i \in 1 .. Len(a) + Len(b) : (a \o b)[i] = IF i <= Len(a) THEN a[i] ELSE b[i - Len(a)]
  BY <1>6, <1>7, ConcatProperties
<1>9. RemoveFirst(s, e) = a \o b
  BY <1>4 DEF a, b
<1>10. Len(a \o b) = Len(s) - 1
  BY <1>5, <1>6, <1>7, <1>8
<1>11. ASSUME NEW i \in 1 .. Len(s) - 1
       PROVE  (a \o b)[i] = IF i < k THEN s[i] ELSE s[i + 1]
  BY <1>5, <1>6, <1>7, <1>8
<1> QED BY <1>5, <1>9, <1>10, <1>11 DEF Without

-----------------------------------------------------------------------------
(* How a step may change the deque *)

OthersStay(r) ==
  /\ now' = now
  /\ \A q \in Request \ {r} : pc'[q] = pc[q] /\ received'[q] = received[q]

(* A request that does not wait goes elsewhere.                            *)
LEMMA DequeStays ==
  ASSUME QueueInv, DequeInv, NEW r \in Request, OthersStay(r), waiting' = waiting,
         pc[r] # "waiting", pc'[r] # "waiting"
  PROVE  DequeInv'
<1>1. \A i \in 1 .. Len(waiting) : waiting[i] \in Request /\ waiting[i] # r
  <2> TAKE i \in 1 .. Len(waiting)
  <2>1. waiting[i] \in Request
    BY DEF QueueInv, TypeOK
  <2>2. pc[waiting[i]] = "waiting"
    BY DEF DequeInv
  <2> QED BY <2>1, <2>2
<1>2. \A i \in 1 .. Len(waiting) :
        pc'[waiting[i]] = "waiting" /\ received'[waiting[i]] = received[waiting[i]]
  BY <1>1 DEF OthersStay, DequeInv
<1>3. \A q \in Request : pc'[q] = "waiting" =>
        pc[q] = "waiting" /\ received'[q] = received[q] /\ now' = now
  BY DEF OthersStay
<1>4. \A q \in Request : pc'[q] = "waiting" =>
        /\ \E i \in 1 .. Len(waiting) : waiting[i] = q
        /\ Answers(q) /\ received'[q] <= now'
  BY <1>3 DEF DequeInv
<1>5. \A i, j \in 1 .. Len(waiting) : i < j =>
        waiting[i] # waiting[j] /\ received'[waiting[i]] <= received'[waiting[j]]
  BY <1>2 DEF DequeInv
<1>6. Len(waiting) <= QueueMax
  BY DEF DequeInv
<1> QED BY <1>2, <1>4, <1>5, <1>6 DEF DequeInv, Answers

(* A request leaves its place.                                             *)
LEMMA DequeLeaves ==
  ASSUME QueueInv, DequeInv, NEW r \in Request, OthersStay(r), NEW k, waiting' \in Seq(Request),
         Without(waiting, k, waiting'), waiting[k] = r, pc'[r] # "waiting"
  PROVE  DequeInv'
<1> DEFINE n == Len(waiting)
<1>1. n \in Nat /\ k \in 1 .. n /\ Len(waiting') = n - 1
  BY DEF Without, QueueInv, TypeOK
<1> DEFINE From(i) == IF i < k THEN i ELSE i + 1
<1>2. ASSUME NEW i \in 1 .. Len(waiting')
      PROVE  /\ From(i) \in 1 .. n /\ From(i) # k
             /\ waiting'[i] = waiting[From(i)]
             /\ waiting'[i] \in Request \ {r}
  <2>1. From(i) \in 1 .. n /\ From(i) # k /\ waiting'[i] = waiting[From(i)]
    BY <1>1 DEF Without
  <2>2. waiting[From(i)] # r
    BY <1>1, <2>1 DEF DequeInv
  <2> QED BY <2>1, <2>2
<1>3. \A i, j \in 1 .. Len(waiting') : i < j => From(i) < From(j)
  BY <1>1
<1> HIDE DEF From
<1>4. \A i \in 1 .. Len(waiting') : pc'[waiting'[i]] = "waiting"
  BY <1>2 DEF OthersStay, DequeInv
<1>5. ASSUME NEW q \in Request, pc'[q] = "waiting"
      PROVE  \E i \in 1 .. Len(waiting') : waiting'[i] = q
  <2>1. q # r /\ pc[q] = "waiting"
    BY <1>5 DEF OthersStay
  <2>2. PICK j \in 1 .. n : waiting[j] = q
    BY <2>1 DEF DequeInv
  <2>3. j # k
    BY <2>1, <2>2
  <2>4. CASE j < k
    BY <1>1, <2>2, <2>4 DEF Without
  <2>5. CASE j > k
    <3>1. j - 1 \in 1 .. Len(waiting') /\ ~(j - 1 < k) /\ (j - 1) + 1 = j
      BY <1>1, <2>5
    <3> QED BY <2>2, <3>1 DEF Without
  <2> QED BY <1>1, <2>3, <2>4, <2>5
<1>6. ASSUME NEW i \in 1 .. Len(waiting'), NEW j \in 1 .. Len(waiting'), i < j
      PROVE  waiting'[i] # waiting'[j] /\ received'[waiting'[i]] <= received'[waiting'[j]]
  <2>1. From(i) < From(j)
    BY <1>3, <1>6
  <2>2. /\ waiting[From(i)] # waiting[From(j)]
        /\ received[waiting[From(i)]] <= received[waiting[From(j)]]
    BY <1>2, <2>1 DEF DequeInv
  <2> QED BY <1>2, <2>2 DEF OthersStay
<1>7. \A q \in Request : pc'[q] = "waiting" => Answers(q) /\ received'[q] <= now'
  BY DEF OthersStay, DequeInv
<1>8. Len(waiting') <= QueueMax
  BY <1>1, QueueAssumption DEF DequeInv
<1> QED BY <1>4, <1>5, <1>6, <1>7, <1>8 DEF DequeInv, Answers

(* An answer that was just received joins at the end.                      *)
LEMMA DequeJoins ==
  ASSUME QueueInv, DequeInv, NEW r \in Request, OthersStay(r), waiting' = Append(waiting, r),
         pc[r] # "waiting", pc'[r] = "waiting", Answers(r), received'[r] = now, Len(waiting) < QueueMax
  PROVE  DequeInv'
<1> DEFINE n == Len(waiting)
<1>1. n \in Nat /\ Len(waiting') = n + 1 /\ waiting'[n + 1] = r /\ now \in Nat
  BY DEF QueueInv, TypeOK, LimiterTypeOK
<1>2. \A i \in 1 .. n : /\ waiting'[i] = waiting[i] /\ waiting[i] \in Request \ {r}
                        /\ received[waiting[i]] <= now
  <2> TAKE i \in 1 .. n
  <2>1. waiting \in Seq(Request) /\ waiting[i] \in Request
    BY DEF QueueInv, TypeOK
  <2>2. pc[waiting[i]] = "waiting"
    BY DEF DequeInv
  <2>3. received[waiting[i]] <= now
    BY <2>1, <2>2 DEF DequeInv
  <2>4. waiting'[i] = waiting[i]
    BY <2>1
  <2> QED BY <2>1, <2>2, <2>3, <2>4
<1>3. \A i \in 1 .. n + 1 : i \in 1 .. n \/ i = n + 1
  BY <1>1
<1>4. \A i \in 1 .. n + 1 : pc'[waiting'[i]] = "waiting"
  BY <1>1, <1>2, <1>3 DEF OthersStay, DequeInv
<1>5. \A q \in Request : pc'[q] = "waiting" => \E i \in 1 .. n + 1 : waiting'[i] = q
  <2> SUFFICES ASSUME NEW q \in Request, pc'[q] = "waiting"
               PROVE  \E i \in 1 .. n + 1 : waiting'[i] = q
    OBVIOUS
  <2>1. CASE q = r
    BY <1>1, <2>1
  <2>2. CASE q # r
    <3>1. PICK i \in 1 .. n : waiting[i] = q
      BY <2>2 DEF OthersStay, DequeInv
    <3> QED BY <1>1, <1>2, <3>1
  <2> QED BY <2>1, <2>2
<1>6. ASSUME NEW i \in 1 .. n + 1, NEW j \in 1 .. n + 1, i < j
      PROVE  waiting'[i] # waiting'[j] /\ received'[waiting'[i]] <= received'[waiting'[j]]
  <2>1. i \in 1 .. n
    BY <1>1, <1>6
  <2>2. CASE j = n + 1
    BY <1>1, <1>2, <2>1, <2>2 DEF OthersStay
  <2>3. CASE j \in 1 .. n
    BY <1>2, <1>6, <2>1, <2>3 DEF OthersStay, DequeInv
  <2> QED BY <1>3, <2>2, <2>3
<1>7. \A q \in Request : pc'[q] = "waiting" => Answers(q) /\ received'[q] <= now'
  BY <1>1 DEF OthersStay, DequeInv
<1>8. Len(waiting') <= QueueMax
  BY <1>1, QueueAssumption
<1> QED BY <1>1, <1>4, <1>5, <1>6, <1>7, <1>8 DEF DequeInv, Answers

-----------------------------------------------------------------------------
(* Each action keeps the order *)

DequeNext == DequeInv' /\ ActiveOwns'

(* A request that is not active now goes from one place to another, of     *)
(* which neither is the deque.                                             *)
LEMMA ElsewhereKeeps ==
  ASSUME OrderInv, NEW r \in Request, NEW place \in Places, Goto(r, place),
         OthersStay(r), waiting' = waiting,
         pc[r] # "waiting", place # "waiting",
         \/ active' = active /\ (pc[r] \in Owning => place \in Owning)
         \/ active' = r /\ place \in Owning
  PROVE  DequeNext
<1>1. pc'[r] = place /\ \A q \in Request : pc'[q] = IF q = r THEN place ELSE pc[q]
  BY DEF Goto, OrderInv, QueueInv, TypeOK
<1>2. DequeInv'
  BY <1>1, DequeStays DEF OrderInv
<1>3. active \in Request \cup {None}
  BY DEF OrderInv, QueueInv, TypeOK
<1>4. ActiveOwns'
  BY <1>1, <1>3 DEF OrderInv, ActiveOwns, Owning
<1> QED BY <1>2, <1>4 DEF DequeNext

(* The exit of a request, from the deque or from anywhere else.            *)
LEMMA UnregisterKeeps ==
  ASSUME OrderInv, NEW r \in Request, NEW place \in {"done", "deferred"},
         Unregister(r, place), now' = now, waiting' \in Seq(Request)
  PROVE  DequeNext
<1>1. pc'[r] = place /\ OthersStay(r) /\ \A q \in Request \ {r} : pc'[q] = pc[q]
  BY DEF Unregister, Goto, OthersStay, OrderInv, QueueInv, TypeOK
<1>2. waiting' = RemoveFirst(waiting, r) /\ waiting \in Seq(Request)
  BY DEF Unregister, OrderInv, QueueInv, TypeOK
<1>3. ASSUME pc[r] = "waiting" PROVE DequeInv'
  <2>1. PICK n \in 1 .. Len(waiting) : waiting[n] = r
    BY <1>3 DEF OrderInv, DequeInv
  <2>2. PICK k \in 1 .. Len(waiting) : waiting[k] = r /\ Without(waiting, k, waiting')
    BY <1>2, <2>1, RemoveFirstShape
  <2> QED BY <1>1, <2>2, DequeLeaves DEF OrderInv
<1>4. ASSUME pc[r] # "waiting" PROVE DequeInv'
  <2>1. ~ \E i \in 1 .. Len(waiting) : waiting[i] = r
    BY <1>4 DEF OrderInv, DequeInv
  <2>2. waiting' = waiting
    BY <1>2, <2>1 DEF RemoveFirst
  <2> QED BY <1>1, <1>4, <2>2, DequeStays DEF OrderInv
<1>5. DequeInv'
  BY <1>3, <1>4
<1>6. active' = IF active = r THEN None ELSE active
  BY DEF Unregister
<1>7. active \in Request \cup {None}
  BY DEF OrderInv, QueueInv, TypeOK
<1>8. ActiveOwns'
  BY <1>1, <1>6, <1>7 DEF OrderInv, ActiveOwns
<1> QED BY <1>5, <1>8 DEF DequeNext

LEMMA ReceiveInOrder ==
  ASSUME OrderInv, NEW r \in Request, Receive(r), waiting' \in Seq(Request)
  PROVE  DequeNext
<1>1. /\ pc[r] = "idle" /\ Answers(r)
      /\ pc \in [Request -> Places] /\ received \in [Request -> Nat]
  BY DEF Receive, OrderInv, QueueInv, TypeOK
<1>2. CASE Exit(r, "done")
  BY <1>2, UnregisterKeeps DEF Exit
<1>3. CASE Admit(r) /\ Process(r) /\ received' = [received EXCEPT ![r] = now] /\ UNCHANGED waiting
  <2>1. OthersStay(r)
    BY <1>1, <1>3 DEF Process, Goto, OthersStay
  <2> QED BY <1>1, <1>3, <2>1, ElsewhereKeeps DEF Process, Places, Stages, Owning
<1>4. CASE /\ Len(waiting) < QueueMax
           /\ Goto(r, "waiting")
           /\ waiting' = Append(waiting, r)
           /\ received' = [received EXCEPT ![r] = now]
           /\ UNCHANGED <<now, active>>
  <2>1. OthersStay(r) /\ pc'[r] = "waiting" /\ received'[r] = now
    BY <1>1, <1>4 DEF Goto, OthersStay
  <2>2. DequeInv'
    BY <1>1, <1>4, <2>1, DequeJoins DEF OrderInv
  <2>3. ActiveOwns'
    BY <1>1, <1>4 DEF OrderInv, ActiveOwns, Goto, Owning
  <2> QED BY <2>2, <2>3 DEF DequeNext
<1>5. CASE Goto(r, "done") /\ UNCHANGED <<waiting, received, now, active>>
  <2>1. OthersStay(r)
    BY <1>1, <1>5 DEF Goto, OthersStay
  <2> QED BY <1>1, <1>5, <2>1, ElsewhereKeeps DEF Places, Owning
<1> QED BY <1>2, <1>3, <1>4, <1>5 DEF Receive

LEMMA DequeueInOrder ==
  ASSUME OrderInv, NEW r \in Request, Dequeue(r), waiting' \in Seq(Request)
  PROVE  DequeNext
<1>1. /\ waiting # << >> /\ Head(waiting) = r /\ waiting' = Tail(waiting)
      /\ waiting \in Seq(Request)
      /\ Goto(r, "processing") /\ active' = r /\ UNCHANGED <<now, received>>
  BY DEF Dequeue, AtHead, Process, OrderInv, QueueInv, TypeOK
<1>2. /\ Len(Tail(waiting)) = Len(waiting) - 1
      /\ \A i \in 1 .. Len(Tail(waiting)) : Tail(waiting)[i] = waiting[i + 1]
  BY <1>1, HeadTailProperties
<1>3. 1 \in 1 .. Len(waiting) /\ waiting[1] = r
  BY <1>1
<1>4. Without(waiting, 1, waiting')
  BY <1>1, <1>2, <1>3 DEF Without
<1>5. OthersStay(r) /\ pc'[r] = "processing"
  BY <1>1 DEF Goto, OthersStay, OrderInv, QueueInv, TypeOK
<1>6. DequeInv'
  BY <1>3, <1>4, <1>5, DequeLeaves DEF OrderInv
<1>7. ActiveOwns'
  BY <1>1, <1>5 DEF ActiveOwns, Owning
<1> QED BY <1>6, <1>7 DEF DequeNext

(* The background requests come from nowhere and never wait in the deque.  *)
LEMMA BackgroundInOrder ==
  ASSUME OrderInv, NEW r \in Request, Announce(r) \/ Post(r) \/ Tip(r)
  PROVE  DequeNext
<1>1. /\ pc \in [Request -> Places] /\ received \in [Request -> Nat]
      /\ pc[r] \in {"idle", "retry", "deferred"} /\ pc[r] \notin Owning
  BY DEF Announce, Post, Tip, OrderInv, QueueInv, TypeOK, Owning
<1>2. \E place \in {"sending", "done", "retry", "processing", "deferred"} : Goto(r, place)
  BY DEF Announce, Post, Tip, SendNow
<1>3. PICK place \in {"sending", "done", "retry", "processing", "deferred"} : Goto(r, place)
  BY <1>2
<1>4. UNCHANGED <<now, waiting, active>>
  BY DEF Announce, Post, Tip, SendNow
<1>5. \A q \in Request \ {r} : received'[q] = received[q]
  BY <1>1 DEF Announce, Post, Tip, Begin, localVars
<1>6. OthersStay(r)
  BY <1>1, <1>3, <1>4, <1>5 DEF Goto, OthersStay
<1>7. place \in Places /\ place # "waiting"
  BY <1>3 DEF Places, Stages
<1> QED BY <1>1, <1>3, <1>4, <1>6, <1>7, ElsewhereKeeps

LEMMA ProceedInOrder ==
  ASSUME OrderInv, NEW r \in Request, Proceed(r), waiting' \in Seq(Request)
  PROVE  DequeNext
<1>1. pc \in [Request -> Places]
  BY DEF OrderInv, QueueInv, TypeOK
<1>2. ASSUME NEW place \in {"done", "deferred"}, Exit(r, place) PROVE DequeNext
  BY <1>2, UnregisterKeeps DEF Exit
<1>3. ASSUME NEW place \in Owning, pc[r] \in Owning, Goto(r, place),
             UNCHANGED <<now, received, waiting, active>>
      PROVE  DequeNext
  <2>1. OthersStay(r)
    BY <1>1, <1>3 DEF Goto, OthersStay
  <2>2. place \in Places /\ place # "waiting" /\ pc[r] # "waiting"
    BY <1>3 DEF Places, Stages, Owning
  <2> QED BY <1>3, <2>1, <2>2, ElsewhereKeeps
<1>4. ASSUME pc[r] \in Owning, Transmit(r) \/ WaitForRadio(r) PROVE DequeNext
  BY <1>3, <1>4 DEF Transmit, WaitForRadio, localVars, Owning
<1>5. CASE Expire(r) \/ EndBatch(r) \/ WindowOver(r) \/ Cancel(r)
  BY <1>2, <1>5 DEF Expire, EndBatch, WindowOver, Cancel
<1>6. CASE Dequeue(r)
  BY <1>6, DequeueInOrder
<1>7. CASE KeepWaiting(r)
  BY <1>7 DEF KeepWaiting, localVars, DequeNext, OrderInv, DequeInv, ActiveOwns, Answers
<1>8. CASE StartSend(r)
  BY <1>2, <1>4, <1>8 DEF StartSend, GivenUp, Owning
<1>9. CASE Deliver(r)
  BY <1>2, <1>4, <1>9 DEF Deliver, Owning
<1>10. CASE FinishSend(r)
  <2>1. pc[r] \in Owning /\ now' = now
    BY <1>10 DEF FinishSend, Owning
  <2>2. CASE Unregister(r, "done")
    BY <2>1, <2>2, UnregisterKeeps
  <2>3. CASE Goto(r, "gap") /\ UNCHANGED <<received, left, waiting, active>>
    BY <1>3, <2>1, <2>3 DEF Owning
  <2> QED BY <1>10, <2>2, <2>3 DEF FinishSend
<1>11. CASE NextReport(r)
  <2>1. pc[r] \in Owning
    BY <1>11 DEF NextReport, Owning
  <2>2. CASE Goto(r, "sending") /\ UNCHANGED <<now, limiterVars, received, lastSend, waiting, active, stopped>>
    BY <1>3, <2>1, <2>2 DEF Owning
  <2> QED BY <1>2, <1>11, <2>2 DEF NextReport
<1>12. CASE Announce(r) \/ Post(r) \/ Tip(r)
  BY <1>12, BackgroundInOrder
<1> QED BY <1>5, <1>6, <1>7, <1>8, <1>9, <1>10, <1>11, <1>12 DEF Proceed

LEMMA OrderNext == OrderInv /\ [Next]_vars => OrderInv'
<1> SUFFICES ASSUME OrderInv, [Next]_vars PROVE OrderInv'
  OBVIOUS
<1>1. QueueInv'
  BY NextKeeps DEF OrderInv
<1>2. waiting' \in Seq(Request)
  BY <1>1 DEF QueueInv, TypeOK
<1>3. ASSUME NEW r \in Request, Receive(r) \/ Proceed(r) PROVE DequeNext
  BY <1>2, <1>3, ReceiveInOrder, ProceedInOrder
<1>4. ASSUME Stop \/ Tick \/ ChangeFactor PROVE DequeNext
  <2>1. UNCHANGED <<pc, received, waiting, active>>
    BY <1>4 DEF Stop, Tick, ChangeFactor, localVars
  <2>2. now' \in Nat /\ now \in Nat /\ now <= now' /\ received \in [Request -> Nat]
    <3>1. now \in Nat /\ received \in [Request -> Nat]
      BY DEF OrderInv, QueueInv, TypeOK, LimiterTypeOK
    <3>2. now' = now \/ now' = now + 1
      BY <1>4 DEF Stop, Tick, ChangeFactor
    <3> QED BY <3>1, <3>2
  <2>3. \A r \in Request : received[r] <= now => received[r] <= now'
    BY <2>2
  <2>4. \A r \in Request : pc[r] = "waiting" => Answers(r) /\ received[r] <= now'
    BY <2>3 DEF OrderInv, DequeInv
  <2>5. DequeInv'
    BY <2>1, <2>4 DEF OrderInv, DequeInv, Answers
  <2> QED BY <2>1, <2>5 DEF OrderInv, ActiveOwns, DequeNext
<1>5. ASSUME UNCHANGED vars PROVE DequeNext
  BY <1>5 DEF vars, localVars, OrderInv, DequeInv, ActiveOwns, DequeNext, Answers
<1>6. DequeNext
  BY <1>3, <1>4, <1>5 DEF Next
<1> QED BY <1>1, <1>6 DEF OrderInv, DequeNext

-----------------------------------------------------------------------------
(* The order of the whole behaviour *)

LEMMA OrderInit == Init => OrderInv
<1> SUFFICES ASSUME Init PROVE OrderInv
  OBVIOUS
<1>1. QueueInv
  BY InitQueueInv
<1>2. Len(waiting) = 0 /\ \A r \in Request : pc[r] = "idle"
  BY DEF Init, AtRest
<1>3. DequeInv
  BY <1>2, QueueAssumption DEF DequeInv
<1>4. ActiveOwns
  BY DEF Init, AtRest, ActiveOwns
<1> QED BY <1>1, <1>3, <1>4 DEF OrderInv

LEMMA OrderAlways == Spec => []OrderInv
BY OrderInit, OrderNext, PTL DEF Spec

LEMMA OrderConsistent == OrderInv => QueueConsistent
<1> SUFFICES ASSUME OrderInv PROVE QueueConsistent
  OBVIOUS
<1> DEFINE n == Len(waiting)
<1>1. waiting \in Seq(Request) /\ n \in Nat /\ DOMAIN waiting = 1 .. n
  BY DEF OrderInv, QueueInv, TypeOK
<1>2. ToSet(waiting) = {waiting[i] : i \in 1 .. n}
  BY <1>1 DEF ToSet
<1>3. ToSet(waiting) = {r \in Request : pc[r] = "waiting"}
  BY <1>1, <1>2 DEF OrderInv, DequeInv
<1>4. n = Cardinality(ToSet(waiting))
  <2>1. waiting \in [1 .. n -> ToSet(waiting)]
    BY <1>1, <1>2
  <2>2. \A i, j \in 1 .. n : waiting[i] = waiting[j] => i = j
    BY <1>1 DEF OrderInv, DequeInv
  <2>3. waiting \in Bijection(1 .. n, ToSet(waiting))
    BY <1>2, <2>1, <2>2 DEF Bijection, Injection, Surjection, IsInjective
  <2>4. ExistsBijection(1 .. n, ToSet(waiting))
    BY <2>3 DEF ExistsBijection
  <2> QED BY <1>1, <2>4, FS_CountingElements
<1> QED BY <1>3, <1>4 DEF OrderInv, DequeInv, ActiveOwns, QueueConsistent

(* The deque of the reply queue lists the waiting requests once each and   *)
(* within its bound, and the active request is being answered: neither     *)
(* survives the task it names (_wait_for_admission, `_request').           *)
THEOREM QueueConsistentAlways == Spec => []QueueConsistent
BY OrderAlways, OrderConsistent, PTL

-----------------------------------------------------------------------------
(* Nobody overtakes *)

(* A reservation comes from an admission, and only an answer that leaves   *)
(* the deque is admitted without beginning at that moment.                 *)
LEMMA AllowedByAdmission ==
  ASSUME QueueInv, NEW q \in Request, Receive(q) \/ Proceed(q),
         NEW r \in Request, ~Allowed(r), Allowed(r)'
  PROVE  ~Busy(r) /\ (pc[r] = "waiting" => UNCHANGED received)
<1>1. reservation \in [Request -> Reservations] /\ \A x \in Request : reservation[x] \in ReservedAt(pc[x])
  BY DEF QueueInv, TypeOK, ReservedByPlace
<1>2. reservation[r] = "none" /\ reservation'[r] # "none"
  BY DEF Allowed
<1>3. ASSUME NEW res, reservation' = [reservation EXCEPT ![q] = res] PROVE q = r /\ res # "none"
  BY <1>1, <1>2, <1>3
<1>4. ASSUME Admit(q) PROVE q = r /\ ~Busy(r)
  BY <1>3, <1>4 DEF Admit
<1>5. ~Refuse(q)
  BY <1>3 DEF Refuse
<1>6. ASSUME NEW place, Exit(q, place) PROVE FALSE
  BY <1>2, <1>3, <1>6 DEF Exit, Settled
<1>7. ASSUME pc[q] \in {"sending", "gap"}, NEW res, reservation' = [reservation EXCEPT ![q] = res] PROVE FALSE
  BY <1>1, <1>2, <1>3, <1>7 DEF ReservedAt
<1>8. ASSUME UNCHANGED reservation PROVE FALSE
  BY <1>2, <1>8
<1>9. ASSUME SendNow(q) PROVE q = r /\ ~Busy(r)
  BY <1>4, <1>8, <1>9 DEF SendNow
<1>10. CASE Receive(q)
  BY <1>4, <1>5, <1>6, <1>10 DEF Receive
<1>11. CASE Dequeue(q)
  BY <1>4, <1>11 DEF Dequeue
<1>12. CASE Announce(q) \/ Post(q) \/ Tip(q)
  <2>1. pc[q] # "waiting"
    BY <1>12 DEF Announce, Post, Tip
  <2>2. Admit(q) \/ SendNow(q)
    BY <1>5, <1>8, <1>12 DEF Announce, Post, Tip
  <2> QED BY <1>4, <1>9, <2>1, <2>2
<1>13. ~Transmit(q) /\ ~WaitForRadio(q)
  BY <1>8 DEF Transmit, WaitForRadio
<1>14. ~Expire(q) /\ ~KeepWaiting(q) /\ ~EndBatch(q) /\ ~WindowOver(q) /\ ~Cancel(q)
  BY <1>5, <1>6 DEF Expire, KeepWaiting, EndBatch, WindowOver, Cancel
<1>15. ~StartSend(q) /\ ~Deliver(q)
  BY <1>6, <1>13 DEF StartSend, Deliver
<1>16. ~FinishSend(q)
  BY <1>7 DEF FinishSend
<1>17. ~NextReport(q)
  BY <1>6, <1>7 DEF NextReport, ReserveNext
<1> QED BY <1>10, <1>11, <1>12, <1>14, <1>15, <1>16, <1>17 DEF Proceed

(* While a request waits, only an answer that was received no later is     *)
(* admitted, in any channel and for queues of any length (_admit).         *)
THEOREM NoOvertakingAlways == Spec => NoOvertaking
<1>1. OrderInv /\ [Next]_vars =>
        [\A q, r \in Request :
           /\ pc[q] = "waiting" /\ pc'[q] = "waiting"
           /\ ~Allowed(r) /\ Allowed(r)'
           => Answers(r) /\ received'[r] <= received[q]]_vars
  <2> SUFFICES ASSUME OrderInv, Next, NEW q \in Request, NEW r \in Request,
                      pc[q] = "waiting", ~Allowed(r), Allowed(r)'
               PROVE  Answers(r) /\ received'[r] <= received[q]
    OBVIOUS
  <2>1. ~(Stop \/ Tick \/ ChangeFactor)
    BY DEF Stop, Tick, ChangeFactor, Allowed
  <2>2. ~Busy(r) /\ (pc[r] = "waiting" => UNCHANGED received)
    BY <2>1, AllowedByAdmission DEF Next, OrderInv
  <2>3. waiting \in Seq(Request) /\ received \in [Request -> Nat]
    BY DEF OrderInv, QueueInv, TypeOK
  <2>4. PICK i \in 1 .. Len(waiting) : waiting[i] = q
    BY DEF OrderInv, DequeInv
  <2>5. waiting[1] = r /\ 1 \in 1 .. Len(waiting)
    BY <2>2, <2>3, <2>4 DEF Busy
  <2>6. pc[r] = "waiting"
    BY <2>5 DEF OrderInv, DequeInv
  <2>7. Answers(r) /\ received' = received
    BY <2>2, <2>6 DEF OrderInv, DequeInv
  <2>8. received[r] <= received[q]
    <3>1. CASE i = 1
      BY <2>3, <2>4, <2>5, <3>1
    <3>2. CASE 1 < i
      BY <2>4, <2>5, <3>2 DEF OrderInv, DequeInv
    <3> QED BY <3>1, <3>2
  <2> QED BY <2>7, <2>8
<1> QED BY <1>1, OrderAlways, PTL DEF Spec, NoOvertaking

-----------------------------------------------------------------------------
(* The bucket of a reservation *)

(* The name that was looked up last is never the one forgotten.            *)
LEMMA KeptContains ==
  ASSUME lru \in Seq(Sender), NEW s \in Sender
  PROVE  Contains(Kept(s), s)
<1> DEFINE t == Looked(s)
<1> DEFINE n == Len(t)
<1>1. RemoveFirst(lru, s) \in Seq(Sender)
  BY RemoveFirstType
<1>2. t \in Seq(Sender) /\ n \in Nat \ {0} /\ t[n] = s
  BY <1>1 DEF Looked
<1>3. Kept(s) = IF n > MaxSenders THEN SubSeq(t, n - MaxSenders + 1, n) ELSE t
  BY DEF Kept
<1> HIDE DEF t
<1>4. CASE n > MaxSenders
  <2> DEFINE first == n - MaxSenders + 1
  <2> DEFINE u == SubSeq(t, first, n)
  <2>1. /\ first \in 1 .. n /\ MaxSenders \in 1 .. n - first + 1
        /\ n - first + 1 = MaxSenders /\ first + MaxSenders - 1 = n
    BY <1>2, <1>4, LimiterAssumption
  <2>2. \A i \in first .. n : t[i] \in Sender
    BY <1>2, <2>1
  <2> HIDE DEF first
  <2>3. /\ Len(u) = IF first <= n THEN n - first + 1 ELSE 0
        /\ \A i \in 1 .. n - first + 1 : u[i] = t[first + i - 1]
    BY <1>2, <2>1, <2>2, SubSeqProperties
  <2> HIDE DEF u
  <2>4. u[MaxSenders] = t[first + MaxSenders - 1]
    BY <2>1, <2>3
  <2>5. u[MaxSenders] = s /\ MaxSenders \in 1 .. Len(u)
    BY <1>2, <2>1, <2>3, <2>4
  <2>6. Contains(u, s)
    BY <2>5 DEF Contains
  <2> QED BY <1>3, <1>4, <2>6 DEF u, first
<1>5. CASE ~ (n > MaxSenders)
  BY <1>2, <1>3, <1>5 DEF Contains
<1> QED BY <1>4, <1>5

(* What a step may do to reservations and to the list of names: either it  *)
(* takes nothing and leaves the list, or it looks a name up while nobody   *)
(* else has a reservation.                                                 *)
LeavesNames ==
  /\ lru' = lru
  /\ \A r \in Request : reservation'[r] = "held" => reservation[r] = "held"

LooksUp(r) ==
  /\ ~Busy(r)
  /\ lru' = Kept(SenderOf[r])
  /\ \A q \in Request \ {r} : reservation'[q] = reservation[q]

LEMMA NamesByAction ==
  ASSUME TypeOK, NEW r \in Request, Receive(r) \/ Proceed(r)
  PROVE  LeavesNames \/ LooksUp(r)
<1>1. reservation \in [Request -> Reservations]
  BY DEF TypeOK
<1>2. ASSUME Admit(r) PROVE LooksUp(r)
  BY <1>1, <1>2 DEF Admit, TakeTokens, BucketFor, LooksUp
<1>3. ASSUME Refuse(r) PROVE LeavesNames \/ LooksUp(r)
  BY <1>1, <1>3 DEF Refuse, LookUp, BucketFor, limiterVars, LeavesNames, LooksUp
<1>4. ASSUME SendNow(r) PROVE LooksUp(r)
  BY <1>2, <1>4 DEF SendNow, Admissible, LookUp, BucketFor, LooksUp
<1>5. ASSUME UNCHANGED limiterVars, UNCHANGED reservation PROVE LeavesNames
  BY <1>5 DEF limiterVars, LeavesNames
<1>6. ASSUME NEW place, Exit(r, place) PROVE LeavesNames
  <2>1. lru' = lru
    BY <1>6 DEF Exit, Refund, RefundTokens, limiterVars
  <2>2. \A q \in Request : reservation'[q] = IF q = r THEN Settled(r) ELSE reservation[q]
    BY <1>1, <1>6 DEF Exit
  <2> QED BY <2>1, <2>2 DEF LeavesNames, Settled
<1>7. CASE Receive(r)
  BY <1>2, <1>3, <1>6, <1>7 DEF Receive
<1>8. CASE Dequeue(r) \/ KeepWaiting(r)
  BY <1>2, <1>3, <1>8 DEF Dequeue, KeepWaiting
<1>9. CASE Announce(r) \/ Post(r) \/ Tip(r)
  BY <1>2, <1>3, <1>4, <1>5, <1>9 DEF Announce, Post, Tip
<1>10. CASE Expire(r) \/ EndBatch(r) \/ WindowOver(r) \/ Cancel(r)
  BY <1>6, <1>10 DEF Expire, EndBatch, WindowOver, Cancel
<1>11. CASE StartSend(r) \/ Deliver(r)
  BY <1>5, <1>6, <1>11 DEF StartSend, Deliver, Transmit, WaitForRadio
<1>12. CASE FinishSend(r)
  <2>1. lru' = lru
    BY <1>12 DEF FinishSend, CommitTokens, limiterVars
  <2>2. reservation' = [reservation EXCEPT ![r] = "committed"]
    BY <1>12 DEF FinishSend
  <2> QED BY <1>1, <2>1, <2>2 DEF LeavesNames
<1>13. CASE NextReport(r)
  <2>1. CASE ReserveNext(r) /\ UNCHANGED limiterVars
    BY <1>1, <2>1 DEF ReserveNext, limiterVars, LeavesNames
  <2> QED BY <1>6, <1>13, <2>1 DEF NextReport
<1> QED BY <1>7, <1>8, <1>9, <1>10, <1>11, <1>12, <1>13 DEF Proceed

LEMMA HeldKeeps == QueueInv /\ HeldBucketKept /\ [Next]_vars => HeldBucketKept'
<1> SUFFICES ASSUME QueueInv, HeldBucketKept, [Next]_vars PROVE HeldBucketKept'
  OBVIOUS
<1>1. ASSUME LeavesNames PROVE HeldBucketKept'
  BY <1>1 DEF LeavesNames, HeldBucketKept
<1>2. ASSUME NEW r \in Request, LooksUp(r) PROVE HeldBucketKept'
  <2>1. Contains(lru', SenderOf[r])
    <3>1. lru \in Seq(Sender) /\ SenderOf[r] \in Sender
      BY QueueAssumption DEF QueueInv, TypeOK, LimiterTypeOK
    <3> QED BY <1>2, <3>1, KeptContains DEF LooksUp
  <2>2. \A q \in Request \ {r} : reservation'[q] # "held"
    <3>1. \A q \in Request \ {r} : pc[q] \notin Owning
      BY <1>2, NotBusy DEF LooksUp
    <3>2. \A q \in Request \ {r} : reservation[q] # "held"
      BY <3>1 DEF QueueInv, TypeOK, ReservedByPlace, ReservedAt, Owning
    <3> QED BY <1>2, <3>2 DEF LooksUp
  <2> QED BY <2>1, <2>2 DEF HeldBucketKept
<1>3. CASE \E r \in Request : Receive(r) \/ Proceed(r)
  BY <1>1, <1>2, <1>3, NamesByAction DEF QueueInv
<1>4. CASE Stop \/ Tick \/ ChangeFactor
  BY <1>1, <1>4 DEF Stop, Tick, ChangeFactor, SetGlobalFactor, limiterVars, LeavesNames
<1>5. CASE UNCHANGED vars
  BY <1>1, <1>5 DEF vars, limiterVars, LeavesNames
<1> QED BY <1>3, <1>4, <1>5 DEF Next

(* The bucket a held reservation will be committed or refunded to is never *)
(* forgotten meanwhile, however few names the limiter keeps (_bucket_for,  *)
(* max_senders).                                                           *)
THEOREM HeldBucketKeptAlways == Spec => []HeldBucketKept
<1>1. Init => HeldBucketKept
  BY DEF Init, AtRest, HeldBucketKept
<1> QED BY <1>1, HeldKeeps, QueueInvariant, PTL DEF Spec

-----------------------------------------------------------------------------
(***************************************************************************)
(* The reply queue implements the send budget.  The argument: a request    *)
(* that holds a token is the only one past admission, so the token it      *)
(* holds can be counted as credit until the attempt is charged; what a     *)
(* commit forgets and a refund returns is then exactly one token.          *)
(***************************************************************************)

Tokens == Peek(global, factor, GlobalBurst)
Capacity == GlobalBurst * Cost
Held == \E r \in Request : reservation[r] = "held"

Only(r) == \A q \in Request \ {r} :
  pc'[q] = pc[q] /\ reservation'[q] = reservation[q] /\ left'[q] = left[q]

-----------------------------------------------------------------------------
(* Tokens of the global bucket *)

LEMMA TokensType ==
  ASSUME LimiterTypeOK
  PROVE  /\ Tokens \in 0 .. Capacity
         /\ Capacity \in Nat /\ Cost \in Nat \ {0} /\ Capacity >= Cost
<1>1. /\ GlobalBurst \in Nat \ {0} /\ factor \in Nat /\ now \in Nat
      /\ global \in Bucket(GlobalBurst) /\ global.updated <= now
  BY LimiterAssumption DEF LimiterTypeOK, Factors, Paused, Half, Full
<1>2. Refill(global, factor, GlobalBurst) \in Bucket(GlobalBurst)
  BY <1>1, BucketTypes
<1>3. Capacity = Cost + (GlobalBurst - 1) * Cost /\ (GlobalBurst - 1) * Cost \in Nat
  BY LimiterAssumption DEF Capacity
<1> QED BY <1>2, <1>3, LimiterAssumption DEF Tokens, Peek, Bucket, Capacity

(* A bucket that was brought up to date shows what it contains.            *)
LEMMA PeekFresh ==
  ASSUME LimiterTypeOK, now' = now, NEW n \in 0 .. Capacity, factor' \in Factors,
         global' = [tokens |-> n, updated |-> now]
  PROVE  Tokens' = n
<1>1. now \in Nat /\ Capacity \in Nat /\ factor' \in Nat
  BY TokensType DEF LimiterTypeOK, Factors, Paused, Half, Full
<1>2. (now' - global'.updated) * factor' = 0
  <2>1. global'.updated = now
    OBVIOUS
  <2>2. \A x \in Nat : 0 * x = 0
    OBVIOUS
  <2>3. now - now = 0
    BY <1>1
  <2> QED BY <1>1, <2>1, <2>2, <2>3
<1>3. Tokens' = Lesser(Capacity, n + 0)
  BY <1>2 DEF Tokens, Peek, Refill, Capacity
<1> QED BY <1>1, <1>3 DEF Lesser

LEMMA TokensAfter ==
  ASSUME LimiterTypeOK, now' = now, NEW s \in Sender
  PROVE  /\ TakeTokens(s) => Tokens >= Cost /\ Tokens' = Tokens - Cost
         /\ LookUp(s) => Tokens' = Tokens
         /\ CommitTokens(s) => Tokens' = Lesser(Capacity - Cost, Tokens)
         /\ RefundTokens(s) => Tokens' = Lesser(Capacity, Tokens + Cost)
         /\ UNCHANGED limiterVars => Tokens' = Tokens
<1> USE TokensType
<1>1. factor \in Factors
  BY DEF LimiterTypeOK
<1>2. ASSUME TakeTokens(s)
      PROVE  Tokens >= Cost /\ Tokens' = Tokens - Cost
  <2>1. Tokens >= Cost
    BY <1>2 DEF TakeTokens, Allows, GlobalHasToken, Tokens
  <2>2. global' = [tokens |-> Tokens - Cost, updated |-> now] /\ factor' = factor
    BY <1>2 DEF TakeTokens, Acquire, Tokens
  <2>3. Tokens - Cost \in 0 .. Capacity
    BY <2>1
  <2> QED BY <1>1, <2>1, <2>2, <2>3, PeekFresh
<1>3. ASSUME LookUp(s)
      PROVE  Tokens' = Tokens
  <2>1. CASE factor = Paused
    BY <1>3, <2>1 DEF LookUp, Tokens, Peek, Refill
  <2>2. CASE factor # Paused
    <3>1. global' = [tokens |-> Tokens, updated |-> now] /\ factor' = factor
      BY <1>3, <2>2 DEF LookUp, Refill, Peek, Tokens
    <3> QED BY <1>1, <3>1, PeekFresh
  <2> QED BY <2>1, <2>2
<1>4. ASSUME CommitTokens(s)
      PROVE  Tokens' = Lesser(Capacity - Cost, Tokens)
  <2>1. (GlobalBurst - 1) * Cost = Capacity - Cost
    BY LimiterAssumption DEF Capacity
  <2>2. /\ global' = [tokens |-> Lesser(Capacity - Cost, Tokens), updated |-> now]
        /\ factor' = factor
    BY <1>4, <2>1 DEF CommitTokens, CommitBucket, Tokens
  <2>3. Lesser(Capacity - Cost, Tokens) \in 0 .. Capacity
    BY DEF Lesser
  <2> QED BY <1>1, <2>2, <2>3, PeekFresh
<1>5. ASSUME RefundTokens(s)
      PROVE  Tokens' = Lesser(Capacity, Tokens + Cost)
  <2>1. /\ global' = [tokens |-> Lesser(Capacity, Tokens + Cost), updated |-> now]
        /\ factor' = factor
    BY <1>5 DEF RefundTokens, RefundBucket, Tokens, Capacity
  <2>2. Lesser(Capacity, Tokens + Cost) \in 0 .. Capacity
    BY DEF Lesser
  <2> QED BY <1>1, <2>1, <2>2, PeekFresh
<1>6. UNCHANGED limiterVars => Tokens' = Tokens
  BY DEF limiterVars, Tokens, Peek, Refill
<1> QED BY <1>2, <1>3, <1>4, <1>5, <1>6

-----------------------------------------------------------------------------
(* Held tokens, follow-ups and charged transmissions *)

LEMMA CreditIs ==
  Credit = IF Held THEN Lesser(Capacity, Tokens + Cost) ELSE Tokens
  BY DEF Credit, Held, Tokens, Capacity

LEMMA CreditIsNext ==
  Credit' = IF Held' THEN Lesser(Capacity, Tokens' + Cost) ELSE Tokens'
  BY DEF Credit, Held, Tokens, Capacity

LEMMA FollowUpsType ==
  ASSUME QueueInv, NEW r \in Request
  PROVE  /\ FollowUpsLeft(r) \in 0 .. BatchMax
         /\ FollowUpsLeft(r) # 0 => pc[r] \in Owning
         /\ reservation[r] = "held" => pc[r] \in Owning
<1>1. left[r] \in 0 .. BatchMax - 1 /\ BatchMax \in Nat
  BY QueueAssumption DEF QueueInv, TypeOK
<1> QED BY <1>1 DEF QueueInv, ReservedByPlace, ReservedAt, FollowUpsLeft, Live, Stages, Owning

LEMMA AllowanceIs ==
  ASSUME NEW r \in Request, FollowUpsLeft(r) \in Nat,
         \A q \in Request \ {r} : ~(FollowUpsLeft(q) > 0)
  PROVE  Allowance = FollowUpsLeft(r)
  BY DEF Allowance

LEMMA AllowanceIsNext ==
  ASSUME NEW r \in Request, FollowUpsLeft(r)' \in Nat,
         \A q \in Request \ {r} : ~(FollowUpsLeft(q)' > 0)
  PROVE  Allowance' = FollowUpsLeft(r)'
  BY DEF Allowance

(* A step of the request that is past admission.                           *)
LEMMA OwnerStep ==
  ASSUME QueueInv, NEW r \in Request, pc[r] \in Owning, Only(r), FollowUpsLeft(r)' \in Nat
  PROVE  /\ Allowance = FollowUpsLeft(r) /\ Allowance' = FollowUpsLeft(r)'
         /\ Held <=> reservation[r] = "held"
         /\ Held' <=> reservation'[r] = "held"
<1>1. \A q \in Request \ {r} : pc[q] \notin Owning
  BY DEF QueueInv, SingleOwner
<1>2. \A q \in Request \ {r} : FollowUpsLeft(q) = 0 /\ reservation[q] # "held"
  BY <1>1, FollowUpsType
<1>3. \A q \in Request \ {r} : FollowUpsLeft(q)' = 0 /\ reservation'[q] # "held"
  BY <1>2 DEF Only, FollowUpsLeft, Live
<1>4. FollowUpsLeft(r) \in Nat
  BY FollowUpsType
<1> QED BY <1>2, <1>3, <1>4, AllowanceIs, AllowanceIsNext DEF Held

(* A step of a request that owes no follow-up before or after.             *)
LEMMA QuietStep ==
  ASSUME QueueInv, NEW r \in Request, Only(r), FollowUpsLeft(r) = 0, FollowUpsLeft(r)' = 0
  PROVE  Allowance' = Allowance
<1>1. \A q \in Request : FollowUpsLeft(q)' = FollowUpsLeft(q)
  BY DEF Only, FollowUpsLeft, Live
<1>2. CASE \E q \in Request : FollowUpsLeft(q) > 0
  <2>1. PICK q \in Request : FollowUpsLeft(q) > 0
    BY <1>2
  <2>2. pc[q] \in Owning /\ FollowUpsLeft(q) \in Nat
    BY <2>1, FollowUpsType
  <2>3. \A x \in Request \ {q} : FollowUpsLeft(x) = 0
    BY <2>2, FollowUpsType DEF QueueInv, SingleOwner
  <2> QED BY <1>1, <2>2, <2>3, AllowanceIs, AllowanceIsNext
<1>3. CASE ~\E q \in Request : FollowUpsLeft(q) > 0
  BY <1>1, <1>3 DEF Allowance
<1> QED BY <1>2, <1>3

(* Nothing is charged or uncharged when r is as charged as before.         *)
LEMMA ChargedSame ==
  ASSUME NEW r \in Request, Only(r),
         reservation[r] \in {"followup", "committed"}
           <=> reservation'[r] \in {"followup", "committed"}
  PROVE  Cardinality(Charged)' = Cardinality(Charged)
<1>1. Charged' = Charged
  BY DEF Charged, Only
<1> QED BY <1>1

-----------------------------------------------------------------------------
(* What each kind of step is to the budget *)

LEMMA ExitRefines ==
  ASSUME QueueInv, NEW r \in Request, NEW place \in {"done", "deferred"}, Exit(r, place),
         pc[r] # "sending"
  PROVE  Budget!EndFollowUps \/ UNCHANGED Budget!vars
<1> USE DEF QueueInv
<1>1. /\ now' = now /\ factor' = factor /\ LimiterTypeOK /\ SenderOf[r] \in Sender
  BY QueueAssumption DEF Exit, Refund, RefundTokens, limiterVars, TypeOK
<1>2. /\ Only(r) /\ pc'[r] = place /\ reservation'[r] = Settled(r)
  BY DEF Exit, Unregister, Goto, Only, TypeOK
<1>3. FollowUpsLeft(r)' = 0
  BY <1>2 DEF FollowUpsLeft, Live, Stages
<1>4. CASE pc[r] \in {"processing", "delivery_wait"}
  <2>1. reservation[r] = "held" /\ reservation'[r] = "none" /\ pc[r] \in Owning
    BY <1>2, <1>4 DEF ReservedByPlace, ReservedAt, Settled, Owning
  <2>2. Tokens' = Lesser(Capacity, Tokens + Cost)
    BY <1>1, <2>1, TokensAfter DEF Exit, Refund
  <2>3. Held /\ ~Held' /\ Allowance' = 0 /\ Allowance = FollowUpsLeft(r)
    BY <1>2, <1>3, <2>1, OwnerStep
  <2>4. Credit' = Credit
    BY <2>2, <2>3, CreditIs, CreditIsNext
  <2>5. FollowUpsLeft(r) = 0
    BY <2>1 DEF FollowUpsLeft
  <2>6. Cardinality(Charged)' = Cardinality(Charged)
    BY <1>2, <2>1, ChargedSame
  <2> QED BY <1>1, <2>3, <2>4, <2>5, <2>6 DEF Budget!vars
<1>5. CASE pc[r] = "gap"
  <2>1. reservation[r] = "committed" /\ reservation'[r] = "committed" /\ pc[r] \in Owning
    BY <1>2, <1>5 DEF ReservedByPlace, ReservedAt, Settled, Owning
  <2>2. Tokens' = Tokens
    BY <1>1, <2>1, TokensAfter DEF Exit, Refund
  <2>3. ~Held /\ ~Held' /\ Allowance' = 0
    BY <1>2, <1>3, <2>1, OwnerStep
  <2>4. Credit' = Credit
    BY <2>2, <2>3, CreditIs, CreditIsNext
  <2>5. Cardinality(Charged)' = Cardinality(Charged)
    BY <1>2, <2>1, ChargedSame
  <2> QED BY <1>1, <2>3, <2>4, <2>5 DEF Budget!EndFollowUps
<1>6. CASE pc[r] \notin Owning
  <2>1. /\ reservation[r] \in {"none", "committed"} /\ reservation'[r] = reservation[r]
        /\ FollowUpsLeft(r) = 0
    BY <1>2, <1>6, FollowUpsType
       DEF ReservedByPlace, ReservedAt, Settled, Owning, TypeOK, Places, Stages
  <2>2. Tokens' = Tokens
    BY <1>1, <2>1, TokensAfter DEF Exit, Refund
  <2>3. Held' = Held
    BY <1>2, <2>1 DEF Held, Only
  <2>4. Credit' = Credit
    BY <2>2, <2>3, CreditIs, CreditIsNext
  <2>5. Cardinality(Charged)' = Cardinality(Charged)
    BY <1>2, <2>1, ChargedSame
  <2>6. Allowance' = Allowance
    BY <1>2, <1>3, <2>1, QuietStep
  <2> QED BY <1>1, <2>4, <2>5, <2>6 DEF Budget!vars
<1> QED BY <1>4, <1>5, <1>6 DEF Owning

(* Admission is not yet a transmission: the token remains credit.          *)
LEMMA AdmitRefines ==
  ASSUME QueueInv, NEW r \in Request, Admit(r), now' = now,
         pc[r] \in {"idle", "waiting", "retry", "deferred"},
         NEW place \in {"processing", "sending"}, Goto(r, place),
         \A q \in Request \ {r} : left'[q] = left[q]
  PROVE  UNCHANGED Budget!vars
<1> USE DEF QueueInv
<1>1. LimiterTypeOK /\ SenderOf[r] \in Sender /\ factor' = factor
  BY QueueAssumption DEF Admit, TakeTokens, TypeOK
<1>2. \A q \in Request : pc[q] \notin Owning
  BY NotBusy DEF Admit, Owning
<1>3. reservation'[r] = "held" /\ reservation[r] = "none"
  BY DEF Admit, TypeOK, ReservedByPlace, ReservedAt
<1>4. Only(r)
  BY DEF Admit, Goto, Only, TypeOK
<1>5. ~Held /\ Held'
  BY <1>2, <1>3, FollowUpsType DEF Held
<1>6. Tokens >= Cost /\ Tokens' = Tokens - Cost
  BY <1>1, TokensAfter DEF Admit
<1>7. Credit' = Credit
  BY <1>1, <1>5, <1>6, CreditIs, CreditIsNext, TokensType DEF Lesser
<1>8. FollowUpsLeft(r) = 0 /\ FollowUpsLeft(r)' = 0
  BY <1>2, <1>3, FollowUpsType DEF FollowUpsLeft
<1>9. Allowance' = Allowance
  BY <1>4, <1>8, QuietStep
<1>10. Cardinality(Charged)' = Cardinality(Charged)
  BY <1>3, <1>4, ChargedSame
<1> QED BY <1>1, <1>7, <1>9, <1>10 DEF Budget!vars

(* A refused reservation leaves the global bucket as full as it was.       *)
LEMMA RefuseRefines ==
  ASSUME QueueInv, NEW r \in Request, now' = now,
         pc[r] \in {"idle", "waiting", "retry", "deferred"},
         \/ Refuse(r)
         \/ (LookUp(SenderOf[r]) \/ UNCHANGED limiterVars) /\ UNCHANGED reservation,
         NEW place \in {"waiting", "retry", "deferred", "done"}, Goto(r, place), UNCHANGED left
  PROVE  UNCHANGED Budget!vars
<1> USE DEF QueueInv
<1>1. LimiterTypeOK /\ SenderOf[r] \in Sender
  BY QueueAssumption DEF TypeOK
<1>2. LookUp(SenderOf[r]) \/ UNCHANGED limiterVars
  BY DEF Refuse
<1>3. factor' = factor /\ Tokens' = Tokens
  BY <1>1, <1>2, TokensAfter DEF LookUp, limiterVars
<1>4. reservation[r] = "none" /\ reservation' = reservation
  BY DEF Refuse, TypeOK, ReservedByPlace, ReservedAt
<1>5. Only(r)
  BY <1>4 DEF Only, Goto, TypeOK
<1>6. Held' = Held
  BY <1>4 DEF Held
<1>7. Credit' = Credit
  BY <1>3, <1>6, CreditIs, CreditIsNext
<1>8. FollowUpsLeft(r) = 0 /\ FollowUpsLeft(r)' = 0
  BY <1>4 DEF FollowUpsLeft
<1>9. Allowance' = Allowance
  BY <1>5, <1>8, QuietStep
<1>10. Cardinality(Charged)' = Cardinality(Charged)
  BY <1>4, <1>5, ChargedSame
<1> QED BY <1>3, <1>7, <1>9, <1>10 DEF Budget!vars

(* A step that only waits for the radio or begins to use it.               *)
LEMMA TransmitRefines ==
  ASSUME QueueInv, NEW r \in Request, Transmit(r) \/ WaitForRadio(r),
         pc[r] \in {"processing", "delivery_wait"}
  PROVE  UNCHANGED Budget!vars
<1> USE DEF QueueInv
<1>1. UNCHANGED <<now, factor, global, reservation, left>>
  BY DEF Transmit, WaitForRadio, limiterVars, localVars
<1>2. Only(r) /\ reservation[r] = "held" /\ reservation'[r] = "held"
  BY <1>1 DEF Transmit, WaitForRadio, Goto, Only, TypeOK, ReservedByPlace, ReservedAt
<1>3. Credit' = Credit
  BY <1>1 DEF Credit, Peek, Refill
<1>4. FollowUpsLeft(r) = 0 /\ FollowUpsLeft(r)' = 0
  BY <1>2 DEF FollowUpsLeft
<1>5. Allowance' = Allowance
  BY <1>2, <1>4, QuietStep
<1>6. Cardinality(Charged)' = Cardinality(Charged)
  BY <1>1 DEF Charged
<1> QED BY <1>1, <1>3, <1>5, <1>6 DEF Budget!vars

(* The end of a radio command charges the attempt.                         *)
LEMMA FinishSendRefines ==
  ASSUME QueueInv, NEW r \in Request, FinishSend(r)
  PROVE  Budget!Send \/ Budget!FollowUp
<1> USE DEF QueueInv
<1>1. /\ LimiterTypeOK /\ SenderOf[r] \in Sender /\ now' = now /\ factor' = factor
      /\ BatchMax \in Nat \ {0} /\ left[r] \in 0 .. BatchMax - 1
  BY QueueAssumption DEF FinishSend, CommitTokens, limiterVars, TypeOK
<1>2. /\ Only(r) /\ reservation'[r] = "committed"
      /\ \/ pc'[r] = "done"
         \/ pc'[r] = "gap" /\ left'[r] = left[r]
  BY DEF FinishSend, Unregister, Goto, Only, TypeOK
<1>3. FollowUpsLeft(r)' \in 0 .. left[r]
  BY <1>1, <1>2 DEF FollowUpsLeft, Live, Stages
<1>4. /\ Allowance = FollowUpsLeft(r) /\ Allowance' \in 0 .. left[r]
      /\ Held <=> reservation[r] = "held"
      /\ ~Held'
  BY <1>1, <1>2, <1>3, OwnerStep DEF FinishSend, Owning
<1>5. reservation[r] \in {"held", "followup"} /\ Live(r)
  BY DEF FinishSend, ReservedByPlace, ReservedAt, Live, Stages
<1>6. CASE reservation[r] = "held"
  <2>1. Tokens' = Lesser(Capacity - Cost, Tokens)
    BY <1>1, <1>6, TokensAfter DEF FinishSend
  <2>2. Credit >= Cost /\ Credit' = Credit - Cost
    BY <1>1, <1>4, <1>6, <2>1, CreditIs, CreditIsNext, TokensType DEF Lesser
  <2>3. Charged' = Charged \cup {r} /\ r \notin Charged
    BY <1>2, <1>6 DEF Charged, Only
  <2>4. IsFiniteSet(Charged)
    BY FiniteRequests, FS_Subset DEF Charged
  <2>5. Cardinality(Charged)' = Cardinality(Charged) + 1
    BY <2>3, <2>4, FS_AddElement
  <2>6. Allowance = 0 /\ Allowance' \in 0 .. BatchMax - 1
    BY <1>1, <1>4, <1>6 DEF FollowUpsLeft
  <2> QED BY <1>1, <2>2, <2>5, <2>6 DEF Budget!Send
<1>7. CASE reservation[r] = "followup"
  <2>1. Tokens' = Tokens
    BY <1>1, <1>7, TokensAfter DEF FinishSend
  <2>2. Credit' = Credit
    BY <1>4, <1>7, <2>1, CreditIs, CreditIsNext
  <2>3. Allowance = left[r] + 1
    BY <1>4, <1>5, <1>7 DEF FollowUpsLeft
  <2>4. Cardinality(Charged)' = Cardinality(Charged)
    BY <1>2, <1>7, ChargedSame
  <2>5. Allowance > 0 /\ Allowance' \in 0 .. Allowance - 1
    BY <1>1, <1>4, <2>3
  <2> QED BY <1>1, <2>2, <2>4, <2>5 DEF Budget!FollowUp
<1> QED BY <1>5, <1>6, <1>7

(* Reserving a follow-up takes it from what the batch may still send.      *)
LEMMA NextReportRefines ==
  ASSUME QueueInv, NEW r \in Request, NextReport(r)
  PROVE  Budget!EndFollowUps \/ UNCHANGED Budget!vars
<1> USE DEF QueueInv
<1>1. CASE Exit(r, "done")
  BY <1>1, ExitRefines DEF NextReport
<1>2. CASE ReserveNext(r) /\ Goto(r, "sending") /\ UNCHANGED <<now, limiterVars>>
  <2>1. /\ reservation[r] = "committed" /\ reservation'[r] = "followup"
        /\ left'[r] = left[r] - 1 /\ left[r] \in 0 .. BatchMax - 1 /\ BatchMax \in Nat \ {0}
        /\ pc[r] = "gap" /\ pc'[r] = "sending" /\ left[r] > 0
    BY <1>2, QueueAssumption
       DEF NextReport, ReserveNext, Goto, TypeOK, ReservedByPlace, ReservedAt, GapHasNext
  <2>2. Only(r)
    BY <1>2 DEF Only, ReserveNext, Goto, TypeOK
  <2>3. FollowUpsLeft(r) = left[r] /\ FollowUpsLeft(r)' = left[r]
    BY <2>1 DEF FollowUpsLeft, Live, Stages
  <2>4. Allowance' = Allowance /\ ~Held /\ ~Held'
    BY <2>1, <2>2, <2>3, OwnerStep DEF Owning
  <2>5. Credit' = Credit
    BY <1>2, <2>4 DEF Credit, Held, Peek, Refill, limiterVars
  <2>6. Cardinality(Charged)' = Cardinality(Charged)
    BY <2>1, <2>2, ChargedSame
  <2> QED BY <1>2, <2>4, <2>5, <2>6 DEF Budget!vars, limiterVars
<1> QED BY <1>1, <1>2 DEF NextReport

LEMMA TickRefines ==
  ASSUME QueueInv, Tick
  PROVE  Budget!Tick
<1> USE DEF QueueInv
<1>1. /\ now < Horizon /\ now' = now + 1
      /\ UNCHANGED <<factor, global, pc, reservation, left>>
  BY DEF Tick, limiterVars, localVars
<1>2. Allowance' = Allowance /\ Charged' = Charged /\ Held' = Held
  BY <1>1 DEF Allowance, FollowUpsLeft, Live, Charged, Held
<1> DEFINE earned == (now - global.updated) * factor
<1>3. /\ now \in Nat /\ global.updated \in Nat /\ global.updated <= now
      /\ factor \in {0, 1, 2} /\ global.tokens \in Nat
      /\ Capacity \in Nat /\ Cost \in Nat /\ Cost <= Capacity
  BY TokensType DEF TypeOK, LimiterTypeOK, Factors, Paused, Half, Full, Bucket
<1>4. earned \in Nat
  BY <1>3
<1>5. (now' - global.updated) * factor = earned + factor
  <2>1. now' - global.updated = (now - global.updated) + 1
    BY <1>1, <1>3
  <2>2. \A d \in Nat : (d + 1) * factor = d * factor + factor
    BY <1>3
  <2>3. now - global.updated \in Nat
    BY <1>3
  <2> QED BY <2>1, <2>2, <2>3
<1>6. Tokens = Lesser(Capacity, global.tokens + earned)
  BY DEF Tokens, Peek, Refill, Capacity
<1>7. Tokens' = Lesser(Capacity, global.tokens + (earned + factor))
  BY <1>1, <1>5 DEF Tokens, Peek, Refill, Capacity
<1> HIDE DEF earned
<1>8. Tokens' = Lesser(Capacity, Tokens + factor)
  BY <1>3, <1>4, <1>6, <1>7 DEF Lesser
<1>9. Tokens \in 0 .. Capacity
  BY TokensType DEF TypeOK
<1>10. Credit' = Lesser(Capacity, Credit + factor)
  <2>1. CASE Held
    BY <1>2, <1>3, <1>8, <1>9, <2>1, CreditIs, CreditIsNext DEF Lesser
  <2>2. CASE ~Held
    BY <1>2, <1>8, <2>2, CreditIs, CreditIsNext
  <2> QED BY <2>1, <2>2
<1>11. Credit' = Budget!Smaller(GlobalBurst * Cost, Credit + factor)
  BY <1>10 DEF Lesser, Budget!Smaller, Capacity
<1> QED BY <1>1, <1>2, <1>11 DEF Budget!Tick

LEMMA ChangeFactorRefines ==
  ASSUME QueueInv, ChangeFactor
  PROVE  Budget!ChangeFactor
<1> USE DEF QueueInv
<1>1. PICK f \in Factors : SetGlobalFactor(f)
  BY DEF ChangeFactor
<1>2. UNCHANGED <<now, pc, reservation, left>> /\ LimiterTypeOK
  BY DEF ChangeFactor, localVars, TypeOK
<1>3. global' = [tokens |-> Tokens, updated |-> now] /\ factor' \in Factors
  BY <1>1 DEF SetGlobalFactor, Tokens, Peek, Refill
<1>4. Tokens' = Tokens
  BY <1>2, <1>3, PeekFresh, TokensType
<1>5. Allowance' = Allowance /\ Charged' = Charged /\ Held' = Held
  BY <1>2 DEF Allowance, FollowUpsLeft, Live, Charged, Held
<1>6. Credit' = Credit
  BY <1>4, <1>5, CreditIs, CreditIsNext
<1> QED BY <1>2, <1>3, <1>5, <1>6 DEF Budget!ChangeFactor, Factors, Paused, Half, Full

-----------------------------------------------------------------------------
(* Every step *)

LEMMA SendNowRefines ==
  ASSUME QueueInv, NEW r \in Request, pc[r] \in {"idle", "retry"}, SendNow(r),
         UNCHANGED <<now, left>>
  PROVE  UNCHANGED Budget!vars
<1>1. CASE Admit(r) /\ Goto(r, "sending")
  BY <1>1, AdmitRefines
<1>2. CASE LookUp(SenderOf[r]) /\ Goto(r, "done") /\ UNCHANGED reservation
  BY <1>2, RefuseRefines
<1> QED BY <1>1, <1>2 DEF SendNow

LEMMA ReceiveRefines ==
  ASSUME QueueInv, NEW r \in Request, Receive(r)
  PROVE  Budget!EndFollowUps \/ UNCHANGED Budget!vars
<1>1. CASE Exit(r, "done")
  BY <1>1, ExitRefines DEF Receive
<1>2. CASE Admit(r) /\ Process(r)
  <2>1. \A q \in Request \ {r} : left'[q] = left[q]
    BY <1>2, ProcessLeft DEF QueueInv
  <2> QED BY <1>2, <2>1, AdmitRefines DEF Receive, Process
<1>3. CASE /\ Refuse(r)
           /\ IF Len(waiting) < QueueMax
                THEN /\ Goto(r, "waiting")
                     /\ waiting' = Append(waiting, r)
                     /\ received' = [received EXCEPT ![r] = now]
                ELSE Goto(r, "done") /\ UNCHANGED <<waiting, received>>
           /\ UNCHANGED <<now, left, lastSend, active, stopped>>
  <2>1. PICK place \in {"waiting", "done"} : Goto(r, place)
    BY <1>3
  <2> QED BY <1>3, <2>1, RefuseRefines DEF Receive
<1> QED BY <1>1, <1>2, <1>3 DEF Receive

LEMMA BackgroundRefines ==
  ASSUME QueueInv, NEW r \in Request, Announce(r) \/ Post(r) \/ Tip(r)
  PROVE  UNCHANGED Budget!vars
<1>1. CASE Announce(r)
  <2>1. CASE SendNow(r)
    BY <1>1, <2>1, SendNowRefines DEF Announce
  <2>2. CASE Refuse(r) /\ Goto(r, IF now < WindowEnd(r) THEN "retry" ELSE "done")
    <3>1. PICK place \in {"retry", "done"} : Goto(r, place)
      BY <2>2
    <3> QED BY <1>1, <2>2, <3>1, RefuseRefines DEF Announce
  <2> QED BY <1>1, <2>1, <2>2 DEF Announce
<1>2. CASE Post(r)
  <2>1. CASE Admit(r) /\ Goto(r, "processing")
    BY <1>2, <2>1, AdmitRefines DEF Post
  <2>2. ASSUME NEW place \in {"deferred", "done"}, Goto(r, place),
               Refuse(r) \/ UNCHANGED <<limiterVars, reservation>>
        PROVE  UNCHANGED Budget!vars
    BY <1>2, <2>2, RefuseRefines DEF Post
  <2>3. PICK place \in {"deferred", "done"} :
          \/ Admit(r) /\ Goto(r, "processing")
          \/ Goto(r, place) /\ (Refuse(r) \/ UNCHANGED <<limiterVars, reservation>>)
    BY <1>2 DEF Post
  <2> QED BY <2>1, <2>2, <2>3
<1>3. CASE Tip(r)
  <2>1. CASE SendNow(r)
    BY <1>3, <2>1, SendNowRefines DEF Tip, localVars
  <2>2. CASE Refuse(r) /\ Goto(r, "done")
    BY <1>3, <2>2, RefuseRefines DEF Tip, localVars
  <2> QED BY <1>3, <2>1, <2>2 DEF Tip
<1> QED BY <1>1, <1>2, <1>3

LEMMA ProceedRefines ==
  ASSUME QueueInv, NEW r \in Request, Proceed(r)
  PROVE  Budget!Next \/ UNCHANGED Budget!vars
<1> USE DEF Budget!Next
<1>1. CASE Expire(r) \/ EndBatch(r) \/ WindowOver(r) \/ Cancel(r)
  <2>1. Exit(r, "done") /\ pc[r] # "sending"
    BY <1>1 DEF Expire, EndBatch, WindowOver, Cancel
  <2> QED BY <2>1, ExitRefines
<1>2. CASE Dequeue(r)
  <2>1. \A q \in Request \ {r} : left'[q] = left[q]
    BY <1>2, ProcessLeft DEF QueueInv, Dequeue
  <2>2. UNCHANGED Budget!vars
    BY <1>2, <2>1, AdmitRefines DEF Dequeue, Process
  <2> QED BY <2>2
<1>3. CASE KeepWaiting(r)
  <2>1. Goto(r, "waiting") /\ UNCHANGED <<now, left>> /\ Refuse(r) /\ pc[r] = "waiting"
    BY <1>3 DEF KeepWaiting, Goto, localVars, QueueInv, TypeOK
  <2>2. UNCHANGED Budget!vars
    BY <2>1, RefuseRefines
  <2> QED BY <2>2
<1>4. CASE StartSend(r) \/ Deliver(r)
  <2>1. CASE Transmit(r) \/ WaitForRadio(r)
    <3>1. UNCHANGED Budget!vars
      BY <1>4, <2>1, TransmitRefines DEF StartSend, Deliver
    <3> QED BY <3>1
  <2>2. CASE \E place \in {"done", "deferred"} : Exit(r, place)
    BY <1>4, <2>2, ExitRefines DEF StartSend, Deliver
  <2> QED BY <1>4, <2>1, <2>2 DEF StartSend, Deliver, GivenUp
<1>5. CASE FinishSend(r)
  BY <1>5, FinishSendRefines
<1>6. CASE NextReport(r)
  BY <1>6, NextReportRefines
<1>7. CASE Announce(r) \/ Post(r) \/ Tip(r)
  <2>1. UNCHANGED Budget!vars
    BY <1>7, BackgroundRefines
  <2> QED BY <2>1
<1> QED BY <1>1, <1>2, <1>3, <1>4, <1>5, <1>6, <1>7 DEF Proceed

LEMMA StepRefines == QueueInv /\ [Next]_vars => [Budget!Next]_(Budget!vars)
<1> SUFFICES ASSUME QueueInv, [Next]_vars PROVE Budget!Next \/ UNCHANGED Budget!vars
  OBVIOUS
<1>1. ASSUME NEW r \in Request, Receive(r) PROVE Budget!Next \/ UNCHANGED Budget!vars
  BY <1>1, ReceiveRefines DEF Budget!Next
<1>2. ASSUME NEW r \in Request, Proceed(r) PROVE Budget!Next \/ UNCHANGED Budget!vars
  BY <1>2, ProceedRefines
<1>3. CASE Tick
  BY <1>3, TickRefines DEF Budget!Next
<1>4. CASE ChangeFactor
  BY <1>4, ChangeFactorRefines DEF Budget!Next
<1>5. CASE Stop \/ UNCHANGED vars
  <2>1. UNCHANGED <<now, factor, global, pc, reservation, left>>
    BY <1>5 DEF Stop, vars, limiterVars, localVars
  <2> QED BY <2>1 DEF Budget!vars, Credit, Charged, Allowance, FollowUpsLeft, Live, Peek, Refill
<1> QED BY <1>1, <1>2, <1>3, <1>4, <1>5 DEF Next

LEMMA InitRefines == Init => Budget!Init
<1> SUFFICES ASSUME Init PROVE Budget!Init
  OBVIOUS
<1>1. now = 0 /\ factor = 2 /\ ~Held /\ Charged = {}
  BY DEF Init, AtRest, LimiterInit, Full, Held, Charged
<1>2. Tokens = Capacity
  <2>1. Capacity \in Nat
    BY LimiterAssumption DEF Capacity
  <2> QED BY <1>1, <2>1 DEF Init, AtRest, LimiterInit, NewBucket, Tokens, Peek, Refill, Lesser, Capacity
<1>3. Credit = GlobalBurst * Cost
  BY <1>1, <1>2, CreditIs DEF Capacity
<1>4. \A r \in Request : FollowUpsLeft(r) = 0
  BY DEF Init, AtRest, FollowUpsLeft, Live, Stages
<1>5. Allowance = 0
  BY <1>4 DEF Allowance
<1> QED BY <1>1, <1>3, <1>5, FS_EmptySet DEF Budget!Init

(* The whole queue, with every kind of request, every failure, pause and   *)
(* cancellation, transmits as the send budget allows: each charged attempt *)
(* spends one token earned at the speed congestion allowed, a batch adds   *)
(* at most its follow-ups, and no token is lost or made by an attempt that *)
(* ends otherwise (ratelimit.py, _request, _send).                         *)
THEOREM QueueImplementsBudget == Spec => SpendsBudget
<1>1. Init => Budget!Init
  BY InitRefines
<1>2. QueueInv /\ [Next]_vars => [Budget!Next]_(Budget!vars)
  BY StepRefines
<1> QED BY <1>1, <1>2, QueueInvariant, PTL DEF Spec, SpendsBudget, Budget!Spec

=============================================================================

---------------------------- MODULE RateLimiter ----------------------------
(***************************************************************************)
(* Admission tokens of bot/ratelimit.py: one global bucket and one bucket  *)
(* per sender name, the least recently used names being forgotten.         *)
(*                                                                         *)
(* Tokens are counted in integer units: one token is Cost units.  The      *)
(* global bucket gains `factor' units per tick, so that full speed (2),    *)
(* half speed (1) and paused (0) are all integers; a sender bucket gains   *)
(* SenderRate units per tick whatever the factor.  As in the code a bucket *)
(* is brought up to date only when it is touched.                          *)
(***************************************************************************)
EXTENDS Integers, SequencesExt

CONSTANTS
  Sender,       (* sender names, the bot's own name among them             *)
  Cost,         (* units per token                                         *)
  GlobalBurst,  (* capacity of the global bucket, in tokens                *)
  SenderBurst,  (* capacity of a sender bucket, in tokens                  *)
  SenderRate,   (* units a sender bucket gains per tick                    *)
  MaxSenders    (* sender buckets kept                                     *)

ASSUME LimiterAssumption ==
  /\ Cost \in Nat \ {0}
  /\ GlobalBurst \in Nat \ {0}
  /\ SenderBurst \in Nat \ {0}
  /\ SenderRate \in Nat \ {0}
  /\ MaxSenders \in Nat \ {0}

VARIABLES
  now,     (* the monotonic clock, in ticks                                *)
  factor,  (* RateLimiter._global_factor: Full, Half or Paused             *)
  global,  (* RateLimiter._global                                          *)
  lru,     (* RateLimiter._senders: names, least recently used first       *)
  bucket   (* RateLimiter._senders: the bucket of each name                *)

limiterVars == <<factor, global, lru, bucket>>

Paused == 0
Half == 1
Full == 2
Factors == {Paused, Half, Full}

Lesser(a, b) == IF a < b THEN a ELSE b

Bucket(burst) == [tokens : 0 .. burst * Cost, updated : Nat]

(* A name that is not in lru has no bucket; the one it will get is full,   *)
(* and being full its date does not matter.                                *)
NewBucket(burst) == [tokens |-> burst * Cost, updated |-> 0]

-----------------------------------------------------------------------------
(* TokenBucket and Reservation *)

Refill(b, rate, burst) ==
  [tokens |-> Lesser(burst * Cost, b.tokens + (now - b.updated) * rate),
   updated |-> now]

Peek(b, rate, burst) == Refill(b, rate, burst).tokens

Acquire(b, rate, burst) ==
  [tokens |-> Peek(b, rate, burst) - Cost, updated |-> now]

(* Mutant: what refilled during the attempt is kept.                       *)
CommitBucketKept(b, rate, burst) ==
  [tokens |-> Peek(b, rate, burst), updated |-> now]

CommitBucket(b, rate, burst) ==
  [tokens |-> Lesser((burst - 1) * Cost, Peek(b, rate, burst)), updated |-> now]

(* Mutant: the refund is not capped.                                       *)
RefundBucketUncapped(b, rate, burst) ==
  [tokens |-> Peek(b, rate, burst) + Cost, updated |-> now]

RefundBucket(b, rate, burst) ==
  [tokens |-> Lesser(burst * Cost, Peek(b, rate, burst) + Cost), updated |-> now]

-----------------------------------------------------------------------------
(* RateLimiter *)

LimiterInit ==
  /\ factor = Full
  /\ global = NewBucket(GlobalBurst)
  /\ lru = << >>
  /\ bucket = [s \in Sender |-> NewBucket(SenderBurst)]

(* The names after s was looked up, and the name forgotten to make room.   *)
Looked(s) == Append(RemoveFirst(lru, s), s)
Forgotten(s) == {Looked(s)[i] : i \in 1 .. (Len(Looked(s)) - MaxSenders)}
Kept(s) == IF Len(Looked(s)) > MaxSenders
             THEN SubSeq(Looked(s), Len(Looked(s)) - MaxSenders + 1, Len(Looked(s)))
             ELSE Looked(s)

(* _bucket_for(s), with the looked-up bucket replaced by b.                *)
BucketFor(s, b) ==
  /\ lru' = Kept(s)
  /\ bucket' = [x \in Sender |-> IF x = s THEN b
                                 ELSE IF x \in Forgotten(s) THEN NewBucket(SenderBurst)
                                 ELSE bucket[x]]

GlobalHasToken == factor # Paused /\ Peek(global, factor, GlobalBurst) >= Cost
SenderHasToken(s) == Peek(bucket[s], SenderRate, SenderBurst) >= Cost

Allows(s) == GlobalHasToken /\ SenderHasToken(s)

(* reserve(s), decided: a token of both buckets, ...                       *)
TakeTokens(s) ==
  /\ Allows(s)
  /\ global' = Acquire(global, factor, GlobalBurst)
  /\ BucketFor(s, Acquire(bucket[s], SenderRate, SenderBurst))
  /\ UNCHANGED factor

(* ... or of none; a bucket that was looked into is up to date.  A token   *)
(* taken and at once refunded leaves the same.                             *)
LookUp(s) ==
  /\ global' = IF factor = Paused THEN global ELSE Refill(global, factor, GlobalBurst)
  /\ BucketFor(s, IF GlobalHasToken THEN Refill(bucket[s], SenderRate, SenderBurst)
                                    ELSE bucket[s])
  /\ UNCHANGED factor

(* Reservation.commit() and refund() of a reservation made for s.          *)
CommitTokens(s) ==
  /\ global' = CommitBucket(global, factor, GlobalBurst)
  /\ bucket' = [bucket EXCEPT ![s] = CommitBucket(@, SenderRate, SenderBurst)]
  /\ UNCHANGED <<factor, lru>>

RefundTokens(s) ==
  /\ global' = RefundBucket(global, factor, GlobalBurst)
  /\ bucket' = [bucket EXCEPT ![s] = RefundBucket(@, SenderRate, SenderBurst)]
  /\ UNCHANGED <<factor, lru>>

(* set_global_factor(f): what was earned at the old rate is kept.          *)
SetGlobalFactor(f) ==
  /\ factor' = f
  /\ global' = Refill(global, factor, GlobalBurst)
  /\ UNCHANGED <<lru, bucket>>

LimiterTypeOK ==
  /\ now \in Nat
  /\ factor \in Factors
  /\ global \in Bucket(GlobalBurst) /\ global.updated <= now
  /\ lru \in Seq(Sender)
  /\ bucket \in [Sender -> Bucket(SenderBurst)]
  /\ \A s \in Sender : bucket[s].updated <= now

=============================================================================

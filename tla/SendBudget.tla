----------------------------- MODULE SendBudget -----------------------------
(***************************************************************************)
(* What the limiter promises about the radio, without requests, queues or  *)
(* reservations: transmissions draw on one token bucket that fills at the  *)
(* speed the channel's congestion allows, and a transmission may be        *)
(* followed by a few that cost nothing, with no other in between.          *)
(***************************************************************************)
EXTENDS Integers

CONSTANTS
  Cost,       (* units per token                                           *)
  Burst,      (* capacity, in tokens                                       *)
  FollowUps,  (* most transmissions that may follow a charged one          *)
  Horizon     (* bound of the clock                                        *)

ASSUME BudgetAssumption ==
  Cost \in Nat \ {0} /\ Burst \in Nat \ {0} /\ FollowUps \in Nat

VARIABLES
  now,       (* ticks                                                      *)
  factor,    (* units gained per tick: 0, 1 or 2                           *)
  credit,    (* units                                                      *)
  sent,      (* transmissions charged                                      *)
  allowance  (* transmissions that may still follow the last charged one   *)

vars == <<now, factor, credit, sent, allowance>>

Smaller(a, b) == IF a < b THEN a ELSE b

Init ==
  /\ now = 0 /\ factor = 2
  /\ credit = Burst * Cost
  /\ sent = 0 /\ allowance = 0

(* Mutant: a transmission is charged without a whole token.                *)
SendEarly ==
  /\ credit >= Cost - 1 /\ allowance = 0
  /\ credit' = credit - (Cost - 1)
  /\ sent' = sent + 1
  /\ allowance' \in 0 .. FollowUps
  /\ UNCHANGED <<now, factor>>

Send ==
  /\ credit >= Cost /\ allowance = 0
  /\ credit' = credit - Cost
  /\ sent' = sent + 1
  /\ allowance' \in 0 .. FollowUps
  /\ UNCHANGED <<now, factor>>

FollowUp ==
  /\ allowance > 0
  /\ allowance' \in 0 .. allowance - 1
  /\ UNCHANGED <<now, factor, credit, sent>>

EndFollowUps ==
  /\ allowance' = 0
  /\ UNCHANGED <<now, factor, credit, sent>>

Tick ==
  /\ now < Horizon
  /\ now' = now + 1
  /\ credit' = Smaller(Burst * Cost, credit + factor)
  /\ UNCHANGED <<factor, sent, allowance>>

ChangeFactor ==
  /\ factor' \in 0 .. 2
  /\ UNCHANGED <<now, credit, sent, allowance>>

Next == Send \/ FollowUp \/ EndFollowUps \/ Tick \/ ChangeFactor

Spec == Init /\ [][Next]_vars

TypeOK ==
  /\ now \in Nat /\ factor \in 0 .. 2
  /\ credit \in 0 .. Burst * Cost
  /\ sent \in Nat /\ allowance \in 0 .. FollowUps

(* The rate limit as a reader states it: the charged transmissions of the  *)
(* first `now' ticks are at most the burst and what full speed earned.     *)
RateBound == Cost * sent + credit <= Burst * Cost + 2 * now

=============================================================================

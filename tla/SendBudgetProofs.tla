-------------------------- MODULE SendBudgetProofs --------------------------
(***************************************************************************)
(* The rate bound and the spacing of ordinary replies, for every token     *)
(* cost, burst and number of follow-ups.                                   *)
(***************************************************************************)
EXTENDS SendSpacing, TLAPS

Full == Burst * Cost

LEMMA FullType == Full \in Nat /\ Full >= Cost /\ (Burst = 1 => Full = Cost)
<1>1. Full = Cost + (Burst - 1) * Cost
  BY BudgetAssumption DEF Full
<1>2. (Burst - 1) * Cost \in Nat
  BY BudgetAssumption
<1> QED BY <1>1, <1>2, BudgetAssumption DEF Full

(* What the steps do to the numbers.                                       *)
LEMMA BudgetSteps ==
  ASSUME TypeOK, Next
  PROVE  /\ TypeOK'
         /\ RateBound => RateBound'
<1> USE BudgetAssumption, FullType
<1>1. /\ now \in Nat /\ factor \in 0 .. 2 /\ sent \in Nat /\ allowance \in 0 .. FollowUps
      /\ credit \in 0 .. Full /\ Cost \in Nat
  BY DEF TypeOK, Full
<1>2. CASE Send
  <2>1. credit' \in 0 .. Full /\ Cost * sent' = Cost * sent + Cost
    BY <1>1, <1>2 DEF Send
  <2>2. TypeOK'
    BY <1>1, <1>2, <2>1 DEF Send, TypeOK, Full
  <2>3. Cost * sent \in Nat
    BY <1>1
  <2> QED BY <1>1, <1>2, <2>1, <2>2, <2>3 DEF Send, RateBound, Full
<1>3. CASE FollowUp \/ EndFollowUps \/ ChangeFactor
  <2>1. /\ UNCHANGED <<now, credit, sent>>
        /\ allowance' \in 0 .. FollowUps /\ factor' \in 0 .. 2
    BY <1>1, <1>3 DEF FollowUp, EndFollowUps, ChangeFactor
  <2> QED BY <1>1, <2>1 DEF TypeOK, RateBound
<1>4. CASE Tick
  <2>1. /\ now' = now + 1 /\ credit' \in 0 .. Full /\ credit' <= credit + 2
        /\ UNCHANGED <<factor, sent, allowance>>
    BY <1>1, <1>4 DEF Tick, Smaller, Full
  <2>2. TypeOK'
    BY <1>1, <2>1 DEF TypeOK, Full
  <2>3. Cost * sent \in Nat /\ Cost * sent' = Cost * sent
    BY <1>1, <2>1
  <2>4. ASSUME NEW spent \in Nat, spent + credit <= Full + 2 * now
        PROVE  spent + credit' <= Full + 2 * now'
    <3>1. credit' \in Nat /\ credit' <= credit + 2 /\ 2 * now' = 2 * now + 2
      BY <1>1, <2>1
    <3> QED BY <1>1, <2>4, <3>1
  <2>5. RateBound => RateBound'
    BY <2>3, <2>4 DEF RateBound, Full
  <2> QED BY <2>2, <2>5
<1> QED BY <1>2, <1>3, <1>4 DEF Next

LEMMA BudgetInit == Init => TypeOK /\ RateBound
  BY BudgetAssumption, FullType DEF Init, TypeOK, RateBound, Full

(* The charged transmissions of any period that begins with a full bucket  *)
(* never exceed the burst and what full speed earns in that time.          *)
THEOREM RateBoundAlways == Spec => []RateBound
<1>1. TypeOK /\ RateBound /\ [Next]_vars => (TypeOK /\ RateBound)'
  <2> SUFFICES ASSUME TypeOK, RateBound, [Next]_vars PROVE (TypeOK /\ RateBound)'
    OBVIOUS
  <2>1. CASE UNCHANGED vars
    BY <2>1 DEF vars, TypeOK, RateBound
  <2> QED BY <2>1, BudgetSteps
<1> QED BY <1>1, BudgetInit, PTL DEF Spec

LEMMA EarnedSinceKept == EarnedSince /\ [SpacingNext]_spacingVars => EarnedSince'
<1> SUFFICES ASSUME EarnedSince, [SpacingNext]_spacingVars PROVE EarnedSince'
  OBVIOUS
<1> USE BudgetAssumption, FullType
<1>1. /\ now \in Nat /\ credit \in 0 .. Full /\ last \in 0 .. now
      /\ factor \in 0 .. 2 /\ sent \in Nat
  BY DEF EarnedSince, TypeOK, Full
<1>2. CASE SpacedSend
  <2>1. TypeOK'
    BY <1>2, BudgetSteps DEF SpacedSend, EarnedSince, Next
  <2>2. last' = now' /\ now' = now /\ credit' = credit - Cost
    BY <1>2 DEF SpacedSend, Send
  <2>3. Burst = 1 => credit' <= 0
    BY <1>1, <2>2
  <2> QED BY <1>1, <2>1, <2>2, <2>3 DEF EarnedSince
<1>3. CASE (FollowUp \/ EndFollowUps \/ Tick \/ ChangeFactor) /\ UNCHANGED last
  <2>1. TypeOK'
    BY <1>3, BudgetSteps DEF EarnedSince, Next
  <2>2. CASE Tick
    <3>1. now' = now + 1 /\ sent' = sent /\ credit' <= credit + 2
      BY <1>1, <2>2 DEF Tick, Smaller, Full
    <3> QED BY <1>1, <1>3, <2>1, <3>1 DEF EarnedSince, TypeOK
  <2>3. CASE FollowUp \/ EndFollowUps \/ ChangeFactor
    <3>1. UNCHANGED <<now, sent, credit>>
      BY <2>3 DEF FollowUp, EndFollowUps, ChangeFactor
    <3> QED BY <1>3, <2>1, <3>1 DEF EarnedSince
  <2> QED BY <1>3, <2>2, <2>3
<1>4. CASE UNCHANGED spacingVars
  BY <1>4 DEF spacingVars, vars, EarnedSince, TypeOK
<1> QED BY <1>2, <1>3, <1>4 DEF SpacingNext

(* With a burst of one, consecutive ordinary transmissions are at least    *)
(* the time apart that full speed needs for a token (Reservation.commit).  *)
THEOREM SpacedAlways == SpacingSpec => Spaced
<1>1. SpacingInit => EarnedSince
  BY BudgetInit DEF SpacingInit, EarnedSince, Init
<1>2. EarnedSince /\ [SpacingNext]_spacingVars =>
        [Burst = 1 /\ sent > 0 /\ sent' # sent => 2 * (now - last) >= Cost]_spacingVars
  <2> SUFFICES ASSUME EarnedSince, SpacingNext, Burst = 1, sent > 0, sent' # sent
               PROVE  2 * (now - last) >= Cost
    OBVIOUS
  <2>1. Send
    BY DEF SpacingNext, SpacedSend, FollowUp, EndFollowUps, Tick, ChangeFactor
  <2> QED BY <2>1, BudgetAssumption DEF Send, EarnedSince, TypeOK
<1> QED BY <1>1, <1>2, EarnedSinceKept, PTL DEF SpacingSpec, Spaced

=============================================================================

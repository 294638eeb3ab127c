---------------------------- MODULE SendSpacing ----------------------------
(***************************************************************************)
(* SendBudget with a memory of when it last charged a transmission, to     *)
(* state how far apart the ordinary replies are.                           *)
(***************************************************************************)
EXTENDS SendBudget

VARIABLE last  (* the tick of the last charged transmission                *)

spacingVars == <<vars, last>>

SpacingInit == Init /\ last = 0

SpacedSend == Send /\ last' = now

SpacingNext ==
  \/ SpacedSend
  \/ (FollowUp \/ EndFollowUps \/ Tick \/ ChangeFactor) /\ UNCHANGED last

SpacingSpec == SpacingInit /\ [][SpacingNext]_spacingVars

(* What is left after a transmission was earned since.                     *)
EarnedSince ==
  /\ TypeOK /\ last \in 0 .. now
  /\ Burst = 1 /\ sent > 0 => credit <= 2 * (now - last)

(* With the default burst of one, two ordinary replies are at least one    *)
(* whole refill apart, however often the speed changes and however long    *)
(* the channel was idle before (Reservation.commit; manual.md and          *)
(* README.md call it 15 seconds).                                          *)
Spaced ==
  [][Burst = 1 /\ sent > 0 /\ sent' # sent => 2 * (now - last) >= Cost]_spacingVars

=============================================================================

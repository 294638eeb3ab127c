--------------------------- MODULE MCUtilization ---------------------------
(* Four polls to a window, a unit of received airtime per poll is busy and *)
(* two are congested; a unit of own airtime is the whole budget.           *)
EXTENDS Utilization

(* Quiet, busy, congested, and own transmissions over twice the budget.    *)
MixedAir == {[rx |-> 0, tx |-> 0], [rx |-> 1, tx |-> 0], [rx |-> 3, tx |-> 0], [rx |-> 0, tx |-> 2]}

(* Quiet and congested only.                                               *)
PlainAir == {[rx |-> 0, tx |-> 0], [rx |-> 3, tx |-> 0]}
=============================================================================

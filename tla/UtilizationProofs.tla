------------------------- MODULE UtilizationProofs -------------------------
(***************************************************************************)
(* The level of the congestion monitor moves only on evidence, whatever    *)
(* the radio reports, how often, and over which window it is judged.       *)
(***************************************************************************)
EXTENDS Utilization, TLAPS

(* A streak is of decisions on the present window that left the level      *)
(* alone, so it is never longer than they are many.                        *)
Backed(streak) == streak \in Streaks /\ streak.over <= decided /\ streak.under <= decided

MonitorInv ==
  /\ level \in Levels
  /\ errors \in 0 .. CountLimit
  /\ decided \in 0 .. CountLimit
  /\ Backed(rxStreak) /\ Backed(txStreak)

-----------------------------------------------------------------------------
(* One reading *)

(* A reading lengthens either count by one at most, or begins a new one.   *)
LEMMA ReadingGrows ==
  ASSUME NEW streak, Backed(streak), level \in Levels, decided \in 0 .. CountLimit,
         NEW duty, NEW low, NEW high
  PROVE  LET reading == Updated(streak, duty, low, high)
         IN  /\ reading \in Streaks
             /\ reading.over <= Capped(decided + 1) /\ reading.under <= Capped(decided + 1)
             /\ reading.over <= decided + 1 /\ reading.under <= decided + 1
             /\ reading.over > 0 => reading.target > level
             /\ reading.under > 0 => level > Full /\ Relaxable(duty, low, high)
<1> DEFINE reading == Updated(streak, duty, low, high)
<1>1. Target(duty, low, high) \in Levels
  BY DEF Target, Levels
<1>2. /\ streak.over \in 0 .. 3 /\ streak.under \in 0 .. 3
      /\ streak.over <= decided /\ streak.under <= decided
  BY DEF Backed, Streaks, CountLimit
<1>3. /\ level \in 0 .. 2 /\ decided \in 0 .. 3 /\ Target(duty, low, high) \in 0 .. 2
  BY <1>1 DEF Levels, CountLimit, Full, Half, Paused
<1>4. /\ reading.over \in 0 .. 3 /\ reading.under \in 0 .. 3
      /\ reading.target = Target(duty, low, high)
      /\ reading = [over |-> reading.over, under |-> reading.under, target |-> reading.target]
  BY <1>2, <1>3 DEF Updated, Capped, CountLimit
<1>5. /\ reading.over <= Capped(decided + 1) /\ reading.under <= Capped(decided + 1)
      /\ reading.over <= decided + 1 /\ reading.under <= decided + 1
  BY <1>2, <1>3 DEF Updated, Capped, CountLimit
<1>6. /\ reading.over > 0 => reading.target > level
      /\ reading.under > 0 => level > Full /\ Relaxable(duty, low, high)
  <2>1. reading.under > 0 => Relaxable(duty, low, high)
    BY DEF Updated
  <2>2. reading.under > 0 => level > Full
    BY <1>3, <2>1 DEF Relaxable, Full
  <2>3. reading.over > 0 => reading.target > level
    BY <1>3 DEF Updated
  <2> QED BY <2>1, <2>2, <2>3
<1> QED BY <1>1, <1>4, <1>5, <1>6 DEF Streaks, CountLimit

(* What a policy makes of a reading: it tightens on the second of a kind   *)
(* and relaxes on the third.                                               *)
LEMMA PolicyMoves ==
  ASSUME NEW streak, Backed(streak), level \in Levels, decided \in 0 .. CountLimit,
         NEW duty, NEW low, NEW high
  PROVE  LET next == NextLevel(Updated(streak, duty, low, high))
         IN  /\ next \in Levels
             /\ next > level => decided >= TightenPolls - 1
             /\ next < level => decided >= RelaxPolls - 1 /\ Relaxable(duty, low, high)
<1> DEFINE reading == Updated(streak, duty, low, high)
<1>1. /\ reading \in Streaks
      /\ reading.over <= decided + 1 /\ reading.under <= decided + 1
      /\ reading.over > 0 => reading.target > level
      /\ reading.under > 0 => level > Full /\ Relaxable(duty, low, high)
  BY ReadingGrows, Zenon
<1> HIDE DEF reading
<1>2. /\ reading.over \in 0 .. 3 /\ reading.under \in 0 .. 3 /\ reading.target \in 0 .. 2
      /\ level \in 0 .. 2 /\ decided \in 0 .. 3
  BY <1>1 DEF Streaks, CountLimit, Levels, Full, Half, Paused
<1>3. /\ NextLevel(reading) \in {0, 1, 2}
      /\ NextLevel(reading) > level => decided >= 1
      /\ NextLevel(reading) < level => decided >= 2 /\ Relaxable(duty, low, high)
  BY <1>1, <1>2 DEF NextLevel, TightenPolls, RelaxPolls, Full
<1> QED BY <1>3 DEF reading, TightenPolls, RelaxPolls, Levels, Full, Half, Paused

-----------------------------------------------------------------------------
(* One step *)

(* What a step that moves the level needs.                                 *)
Evidence ==
  level' # level /\ running' /\ errors' = 0 =>
    /\ decided >= (IF level' > level THEN TightenPolls ELSE RelaxPolls) - 1
    /\ level' < level => level' = level - 1 /\ BothQuiet(samples')

LEMMA MonitorSteps ==
  ASSUME MonitorInv, [Next]_vars
  PROVE  MonitorInv' /\ Evidence
<1>1. /\ level \in 0 .. 2 /\ decided \in 0 .. 3 /\ errors \in 0 .. 3
  BY DEF MonitorInv, Levels, CountLimit, Full, Half, Paused
<1>2. ASSUME Decide, Remember, errors' = 0
      PROVE  MonitorInv' /\ Evidence
  <2>1. PICK rx : rx = RxReading
    OBVIOUS
  <2>2. PICK tx : tx = TxReading
    OBVIOUS
  <2>3. /\ rx \in Streaks /\ tx \in Streaks
        /\ rx.over <= Capped(decided + 1) /\ rx.under <= Capped(decided + 1)
        /\ tx.over <= Capped(decided + 1) /\ tx.under <= Capped(decided + 1)
    BY <2>1, <2>2, ReadingGrows, Zenon DEF RxReading, TxReading, MonitorInv
  <2>4. /\ NextLevel(rx) \in Levels /\ NextLevel(tx) \in Levels
        /\ NextLevel(rx) > level => decided >= TightenPolls - 1
        /\ NextLevel(rx) < level =>
             decided >= RelaxPolls - 1 /\ Relaxable(RxDuty(samples'), DutyLow, DutyHigh)
        /\ NextLevel(tx) > level => decided >= TightenPolls - 1
        /\ NextLevel(tx) < level => Relaxable(TxDuty(samples'), TxBudget, 2 * TxBudget)
    BY <2>1, <2>2, PolicyMoves, Zenon DEF RxReading, TxReading, MonitorInv
  <2>5. level' = Combined(NextLevel(rx), NextLevel(tx))
    BY <1>2, <2>1, <2>2 DEF Decide
  <2>6. PICK a, b : a = NextLevel(rx) /\ b = NextLevel(tx)
    OBVIOUS
  <2>7. /\ a \in {0, 1, 2} /\ b \in {0, 1, 2}
        /\ a > level => decided >= 1
        /\ a < level => decided >= 2
        /\ b > level => decided >= 1
        /\ a < level /\ b < level => BothQuiet(samples')
        /\ level' = Combined(a, b)
    BY <2>4, <2>5, <2>6 DEF BothQuiet, Levels, TightenPolls, RelaxPolls, Full, Half, Paused
  <2>8. /\ level' \in {0, 1, 2}
        /\ level' > level => decided >= 1
        /\ level' < level => decided >= 2 /\ level' = level - 1 /\ BothQuiet(samples')
    BY <1>1, <2>7 DEF Combined, Higher
  <2>9. Evidence
    BY <1>1, <2>8 DEF Evidence, TightenPolls, RelaxPolls
  <2>10. decided' \in 0 .. CountLimit /\ (level' = level => decided' = Capped(decided + 1))
         /\ (level' # level => decided' = 0)
    BY <1>1, <1>2 DEF Remember, Capped, CountLimit
  <2>11. NoStreak \in Streaks /\ NoStreak.over = 0 /\ NoStreak.under = 0
    BY DEF NoStreak, Streaks, Levels, CountLimit
  <2>12. /\ rxStreak' = IF level' = level THEN rx ELSE NoStreak
         /\ txStreak' = IF level' = level THEN tx ELSE NoStreak
    BY <1>2, <2>1, <2>2 DEF Decide
  <2>13. Backed(rxStreak)' /\ Backed(txStreak)'
    <3>1. CASE level' = level
      BY <2>3, <2>10, <2>12, <3>1 DEF Backed
    <3>2. CASE level' # level
      BY <2>10, <2>11, <2>12, <3>2 DEF Backed
    <3> QED BY <3>1, <3>2
  <2> QED BY <1>2, <2>8, <2>9, <2>10, <2>13 DEF MonitorInv, Levels, Full, Half, Paused, CountLimit
<1>3. ASSUME ResetStreaks
      PROVE  Backed(rxStreak)' /\ Backed(txStreak)' /\ decided' \in 0 .. CountLimit
  BY <1>3 DEF ResetStreaks, Backed, NoStreak, Streaks, Levels, CountLimit
<1>4. CASE Poll
  <2>1. CASE Decide /\ Remember
    BY <1>2, <1>4, <2>1 DEF Poll
  <2>2. CASE UNCHANGED level /\ (ResetStreaks \/ UNCHANGED <<rxStreak, txStreak, decided>>)
    <3>1. Backed(rxStreak)' /\ Backed(txStreak)' /\ decided' \in 0 .. CountLimit
      BY <1>3, <2>2 DEF MonitorInv, Backed
    <3> QED BY <1>4, <2>2, <3>1 DEF Evidence, Poll, MonitorInv, CountLimit
  <2> QED BY <1>4, <2>1, <2>2, Zenon DEF Poll
<1>5. CASE PollError
  <2>1. errors' \in 1 .. CountLimit
    BY <1>1, <1>5 DEF PollError, Capped, CountLimit
  <2>2. level' \in Levels
    BY <1>5 DEF PollError, MonitorInv, Levels
  <2> QED BY <1>3, <1>5, <2>1, <2>2 DEF Evidence, PollError, MonitorInv, CountLimit
<1>6. CASE Stop
  BY <1>6 DEF Evidence, Stop, MonitorInv, Backed, Levels
<1>7. CASE UNCHANGED vars
  BY <1>7 DEF Evidence, vars, MonitorInv, Backed
<1> QED BY <1>4, <1>5, <1>6, <1>7 DEF Next

(* Whatever the window, the thresholds and what polls find: each streak    *)
(* rests on decisions on the present window (Streaks, _reset_window).      *)
THEOREM MonitorInvariant == Spec => []MonitorInv
<1>1. Init => MonitorInv
  BY DEF Init, MonitorInv, Backed, NoStreak, Streaks, Levels, CountLimit
<1> QED BY <1>1, MonitorSteps, PTL DEF Spec

(* No single reading, no reading from before a reboot, a gap or an error,  *)
(* and none of those that led to the last change moves the level, and the  *)
(* bot resumes by one level if both policies allow it, for any two         *)
(* policies and any gaps between polls (sample, next_level).               *)
THEOREM SteadyAlways == Spec => Steady
<1>1. MonitorInv /\ [Next]_vars => Evidence
  BY MonitorSteps, Zenon
<1>2. Spec => [][Evidence]_vars
  BY <1>1, MonitorInvariant, PTL DEF Spec
<1> QED BY <1>2 DEF Steady, Evidence

=============================================================================

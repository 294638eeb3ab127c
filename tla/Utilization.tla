---------------------------- MODULE Utilization ----------------------------
(***************************************************************************)
(* The congestion monitor of bot/utilization.py: it polls the radio's      *)
(* counters, keeps a sliding window of them and moves the sending rate on  *)
(* a ladder of three levels, which RateLimiter takes as its factor.        *)
(*                                                                         *)
(* Time is counted in polls.  A sample holds what the counters gained      *)
(* since the sample before it instead of their values, and a duty cycle is *)
(* the airtime gained and the time it was gained in, compared without      *)
(* division: a threshold of x stands for x/10 units of airtime per poll.   *)
(***************************************************************************)
EXTENDS Integers, SequencesExt

CONSTANTS
  Air,       (* what one poll may find: [rx, tx], in units of airtime      *)
  Delays,    (* times between two polls, one or longer                     *)
  Window,    (* window_s                                                   *)
  DutyLow,   (* duty_low                                                   *)
  DutyHigh,  (* duty_high                                                  *)
  TxBudget   (* tx_duty_budget                                             *)

ASSUME UtilizationAssumption ==
  /\ Air \subseteq [rx : Nat, tx : Nat]
  /\ Delays \subseteq Nat \ {0}
  /\ Window \in Nat \ {0}
  /\ DutyLow \in Nat /\ DutyHigh \in Nat /\ DutyLow < DutyHigh
  /\ TxBudget \in Nat \ {0}

VARIABLES
  samples,   (* _samples                                                   *)
  rxStreak,  (* _rx_streak                                                 *)
  txStreak,  (* _tx_streak                                                 *)
  level,     (* level, as its place in LEVELS                              *)
  errors,    (* _consecutive_errors, counted up to ErrorLimit              *)
  running,   (* _task is not None                                          *)
  polls,     (* polls, modulo 2: a poll is a step even if all else stays   *)
  decided    (* history: decisions in a row that left the level alone      *)

vars == <<samples, rxStreak, txStreak, level, errors, running, polls, decided>>

Full == 0
Half == 1
Paused == 2
Levels == {Full, Half, Paused}

TightenPolls == 2
RelaxPolls == 3
ErrorLimit == 3
CountLimit == 3                  \* bound of the counters nothing else bounds

Capped(n) == IF n > CountLimit THEN CountLimit ELSE n
Higher(a, b) == IF a > b THEN a ELSE b

Streaks == [over : 0 .. CountLimit, under : 0 .. CountLimit, target : Levels]
NoStreak == [over |-> 0, under |-> 0, target |-> Full]

Init ==
  /\ samples = << >>
  /\ rxStreak = NoStreak /\ txStreak = NoStreak
  /\ level = Full
  /\ errors = 0
  /\ running = TRUE
  /\ polls = 0
  /\ decided = 0

-----------------------------------------------------------------------------
(* Policy: target_level, Streaks.update, next_level *)

AtLeast(duty, x) == 10 * duty.air >= x * duty.time
WellUnder(duty, x) == 100 * duty.air < 6 * x * duty.time     \* RELAX_MARGIN

Target(duty, low, high) ==
  IF AtLeast(duty, high) THEN Paused ELSE IF AtLeast(duty, low) THEN Half ELSE Full

Relaxable(duty, low, high) ==
  /\ Target(duty, low, high) < level
  /\ WellUnder(duty, IF level = Paused THEN high ELSE low)

(* Mutant: every poll begins a new streak of quiet.                        *)
UpdatedForgetful(streak, duty, low, high) ==
  LET target == Target(duty, low, high)
  IN  [over |-> IF target <= level THEN 0
                ELSE IF target = streak.target THEN Capped(streak.over + 1) ELSE 1,
       under |-> IF Relaxable(duty, low, high) THEN 1 ELSE 0,
       target |-> target]

Updated(streak, duty, low, high) ==
  LET target == Target(duty, low, high)
  IN  [over |-> IF target <= level THEN 0
                ELSE IF target = streak.target THEN Capped(streak.over + 1) ELSE 1,
       under |-> IF Relaxable(duty, low, high) THEN Capped(streak.under + 1) ELSE 0,
       target |-> target]

NextLevel(streak) ==
  CASE streak.over >= TightenPolls -> streak.target
    [] streak.under >= RelaxPolls -> level - 1
    [] OTHER -> level

(* Mutant: either policy relaxes.                                          *)
CombinedLoose(rx, tx) ==
  IF Higher(rx, tx) > level THEN Higher(rx, tx)
  ELSE IF rx < level \/ tx < level THEN level - 1
  ELSE level

(* Either policy tightens; only both together relax, one level.            *)
Combined(rx, tx) ==
  IF Higher(rx, tx) > level THEN Higher(rx, tx)
  ELSE IF rx < level /\ tx < level THEN level - 1
  ELSE level

-----------------------------------------------------------------------------
(* The window *)

Gained(field, s) == FoldSeq(LAMBDA x, total : x[field] + total, 0, Tail(s))
Elapsed(s) == Gained("after", s)

(* What is kept of the samples: one at or before the edge of the window.   *)
Edge(s) ==
  CHOOSE k \in 1 .. Len(s) :
    LET outside(i) == Len(s) - i >= 2 /\ Elapsed(SubSeq(s, i + 1, Len(s))) >= Window
    IN  ~outside(k) /\ \A i \in 1 .. k - 1 : outside(i)

(* The gains of the oldest sample no longer matter.                        *)
FirstSample == [rx |-> 0, tx |-> 0, after |-> 0]
Trimmed(s) == <<FirstSample>> \o SubSeq(s, Edge(s) + 1, Len(s))

RxDuty(s) == [air |-> Gained("rx", s), time |-> Elapsed(s)]
TxDuty(s) == [air |-> Gained("tx", s), time |-> Elapsed(s)]

Established(s) == Len(s) > 1 /\ 2 * Elapsed(s) >= Window

-----------------------------------------------------------------------------
(* sample() *)

RxReading == Updated(rxStreak, RxDuty(samples'), DutyLow, DutyHigh)
TxReading == Updated(txStreak, TxDuty(samples'), TxBudget, 2 * TxBudget)

(* Mutant: the streaks survive a change of level.                          *)
DecideStreaksKept ==
  /\ level' = Combined(NextLevel(RxReading), NextLevel(TxReading))
  /\ rxStreak' = RxReading
  /\ txStreak' = TxReading

Decide ==
  /\ level' = Combined(NextLevel(RxReading), NextLevel(TxReading))
  /\ rxStreak' = IF level' = level THEN RxReading ELSE NoStreak
  /\ txStreak' = IF level' = level THEN TxReading ELSE NoStreak

(* The history of a decision.                                              *)
Remember == decided' = IF level' = level THEN Capped(decided + 1) ELSE 0

ResetStreaks ==
  /\ rxStreak' = NoStreak /\ txStreak' = NoStreak
  /\ decided' = 0

(* The counters went back (the radio restarted), or polling paused for     *)
(* longer than the window: the samples say nothing about the present.      *)
Lost(restarted, after) ==
  samples # << >> /\ (restarted \/ after > Higher(Window, 2))

Poll ==
  /\ running
  /\ \E air \in Air, after \in Delays, restarted \in BOOLEAN :
       samples' = Trimmed(Append(IF Lost(restarted, after) THEN << >> ELSE samples,
                                 [rx |-> air.rx, tx |-> air.tx, after |-> after]))
  /\ \/ Established(samples') /\ Decide /\ Remember
     \/ /\ ~Established(samples')
        /\ UNCHANGED level
        /\ IF Len(samples') = 1 THEN ResetStreaks
                                ELSE UNCHANGED <<rxStreak, txStreak, decided>>
  /\ errors' = 0 /\ polls' = 1 - polls
  /\ UNCHANGED running

PollError ==
  /\ running
  /\ samples' = << >> /\ ResetStreaks
  /\ errors' = Capped(errors + 1) /\ polls' = 1 - polls
  /\ level' = IF errors' >= ErrorLimit THEN Half ELSE level
  /\ UNCHANGED running

Stop ==
  /\ running
  /\ running' = FALSE
  /\ level' = Full
  /\ UNCHANGED <<samples, rxStreak, txStreak, errors, polls, decided>>

Next == Poll \/ PollError \/ Stop

Spec == Init /\ [][Next]_vars

(* The task polls for as long as it runs, whatever a poll brings.          *)
FairSpec == Spec /\ WF_vars(Poll \/ PollError)

-----------------------------------------------------------------------------
(* Safety *)

TypeOK ==
  /\ samples \in Seq([rx : Nat, tx : Nat, after : Nat])
  /\ rxStreak \in Streaks /\ txStreak \in Streaks
  /\ level \in Levels
  /\ errors \in 0 .. ErrorLimit
  /\ running \in BOOLEAN /\ polls \in {0, 1}
  /\ decided \in 0 .. CountLimit

(* Both policies find the channel quiet enough for the next level.         *)
BothQuiet(s) ==
  /\ Relaxable(RxDuty(s), DutyLow, DutyHigh)
  /\ Relaxable(TxDuty(s), TxBudget, 2 * TxBudget)

(* A decision to change the level was preceded by enough others on the     *)
(* same window that left it alone: a single reading, a reading from before *)
(* a reboot or a gap, or the readings that led to the last change cannot   *)
(* move the bot.  And neither policy resumes what the other holds back:    *)
(* the bot speeds up by one level, and only if both find the window quiet  *)
(* (Streaks, _reset_window, sample).                                       *)
Steady ==
  [][level' # level /\ running' /\ errors' = 0 =>
       /\ decided >= (IF level' > level THEN TightenPolls ELSE RelaxPolls) - 1
       /\ level' < level => level' = level - 1 /\ BothQuiet(samples')]_vars

-----------------------------------------------------------------------------
(* Liveness *)

Quiet == Len(samples) > 1 /\ Last(samples).rx = 0 /\ Last(samples).tx = 0

(* Once the channel is quiet and polls succeed, the bot returns to full    *)
(* speed and stays there.                                                  *)
Recovers == <>[]Quiet => <>[](level = Full)

(* utilization.py:189 says that stale telemetry must not latch the channel *)
(* off forever: a pause that lasts is backed by an established window      *)
(* again and again.                                                        *)
NotLatched == []<>(level # Paused \/ Established(samples))

=============================================================================

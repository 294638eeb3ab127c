---------------------------- MODULE TravelTimes ----------------------------
(***************************************************************************)
(* The cache of travel times: TrafficCache in bot/traffic/__init__.py.     *)
(* A report is measured by 511, fetched by a task of the bot and read when *)
(* an answer is sent.  Its age is taken by the clock of the computer,      *)
(* which may be corrected, and by a monotonic one; `t' is the time of the  *)
(* latter.  The clock of 511 is right.  Minutes and wording are left out,  *)
(* but for whether there is a delay.                                       *)
(***************************************************************************)
EXTENDS Integers

CONSTANTS
  Corridor,    (* the directions that are asked for together               *)
  NoReport,
  MaxReportAge,(* MAX_AGE_S                                                *)
  Corrections  (* bound: what the computer's clock may be wrong by         *)

ASSUME TravelAssumption == MaxReportAge \in Nat \ {0} /\ Corrections \subseteq Int

VARIABLES
  reports,     (* the last report of each direction                        *)
  wrong        (* what the computer's clock is wrong by                    *)

cache == <<reports, wrong>>

Report == [delayed : BOOLEAN, observed : Int, fetched : Int, mono : Nat]

CacheInit ==
  /\ reports = [d \in Corridor |-> NoReport]
  /\ wrong = 0

Wall(t) == t + wrong

-----------------------------------------------------------------------------
(* fetch_table: of two searches one may fail, and rows may be missing.     *)
Tables == (SUBSET Corridor) \ {{}}

(* parse_reports: a measurement from the computer's future is no report.   *)
Parsed(t, table) ==
  {rows \in [table -> [delayed : BOOLEAN, observed : {t, t - 1}]] :
     \A d \in table : rows[d].observed <= Wall(t)}

(* The directions that were read are replaced.  A table that cannot be     *)
(* read changes nothing.                                                   *)
Refresh(t) ==
  /\ \E table \in Tables : \E rows \in Parsed(t, table) :
       reports' = [d \in Corridor |->
         IF d \in table
           THEN [delayed |-> rows[d].delayed, observed |-> rows[d].observed,
                 fetched |-> Wall(t), mono |-> t]
           ELSE reports[d]]
  /\ UNCHANGED wrong

(* The computer's clock is set.                                            *)
SetClock ==
  /\ \E x \in Corrections : x # wrong /\ wrong' = x
  /\ UNCHANGED reports

-----------------------------------------------------------------------------
Usable(t) ==
  {d \in Corridor : /\ reports[d] # NoReport
                    /\ Wall(t) >= reports[d].observed /\ Wall(t) >= reports[d].fetched
                    /\ t >= reports[d].mono}

RecentlyFetched(t, r) ==
  /\ Wall(t) - r.fetched \in 0 .. MaxReportAge - 1
  /\ t - r.mono \in 0 .. MaxReportAge - 1

FreshReport(t, r) ==
  /\ Wall(t) - r.observed \in 0 .. MaxReportAge - 1
  /\ RecentlyFetched(t, r)

(* answer: what is said of each direction.  If 511 was read a moment ago   *)
(* and reports no delay, that is said even if its measurement is old.      *)
Said(t, d) ==
  LET r == reports[d]
  IN  IF d \notin Usable(t) THEN "unavailable"
      ELSE IF FreshReport(t, r) THEN "current"
      ELSE IF ~r.delayed /\ RecentlyFetched(t, r) THEN "no delay" ELSE "last known"

(* No delay anywhere is said in one sentence.                              *)
Answer(t) ==
  LET allClear == /\ Usable(t) = Corridor
                  /\ \A d \in Corridor : ~reports[d].delayed /\ RecentlyFetched(t, reports[d])
  IN  [d \in Corridor |-> IF allClear THEN "no delay" ELSE Said(t, d)]

=============================================================================

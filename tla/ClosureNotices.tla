--------------------------- MODULE ClosureNotices ---------------------------
(***************************************************************************)
(* The city's closure notices: bot/traffic/planned.py.  Articles that are  *)
(* read late, again, edited and out of order are merged into one record of *)
(* each event, and from the record follows what there is to announce.      *)
(*                                                                         *)
(* This module has no state: a history of records goes in, another comes   *)
(* out.  A notice is what parse_notice made of one article.  Times are in  *)
(* one unit; texts are compared, never read.  The capacities of a history, *)
(* at which a poll fails as a whole, are left out.                         *)
(***************************************************************************)
EXTENDS Integers, SequencesExt

CONSTANTS
  None,
  Day,        (* also the end of a notice that has none                    *)
  Week,       (* for so long an event may still be cancelled or linked to  *)
  OpenEnded,  (* a notice without an end counts for 30 days                *)
  Ahead,      (* and one that begins within 180 days                       *)
  Shift       (* a change of time is material from 30 minutes on           *)

ASSUME NoticesAssumption ==
  /\ Day \in Nat \ {0} /\ Week \in Nat /\ OpenEnded \in Nat /\ Ahead \in Nat
  /\ Shift \in Nat \ {0}

Terminal == {"cancelled", "postponed", "reopened"}

Or(a, b) == IF a # None THEN a ELSE b
Later(a, b) == IF a >= b THEN a ELSE b
Gap2(a, b) == IF a >= b THEN a - b ELSE b - a

(* Notice; with it, from when to when the city shows the article (shown,   *)
(* gone), and the closure that it is in truth about.                       *)
Parts ==
  {"source", "published", "subject", "place", "start", "end", "timing", "restriction", "status",
   "precise", "detail", "significant", "related", "segment", "previous", "inherit", "reinstated",
   "shown", "gone", "about"}

IsNotice(n) ==
  /\ DOMAIN n = Parts /\ n = [part \in Parts |-> n[part]]
  /\ n.source \in Nat /\ n.published \in Nat /\ n.inherit \in BOOLEAN
  /\ n.status \in Terminal \cup {"scheduled"}

(* Notice.fingerprint, and what identifies the publication of it.          *)
FactsOf(n) == <<n.place, n.start, n.end, n.timing, n.restriction, n.status, n.precise, n.detail>>
Publication(n) == <<n.source, n.published>>

(* Notice.relevant *)
NoticeRelevant(n, t) ==
  IF n.status \in Terminal THEN n.published >= t - Week
  ELSE /\ n.start # None /\ n.start <= t + Ahead
       /\ IF n.end = None THEN t < Later(n.start, n.published) + OpenEnded ELSE n.end > t

-----------------------------------------------------------------------------
(* Which event a notice is about *)

Overlaps(a, b) ==
  /\ a.start # None /\ b.start # None
  /\ Later(a.start, b.start) < Or(a.end, a.start + Day)
  /\ Later(a.start, b.start) < Or(b.end, b.start + Day)

SameDay(a, b) == a # None /\ b # None /\ a \div Day = b \div Day

(* An article that was read before, or that has no schedule of its own.    *)
SameArticle(n, old) ==
  /\ ~(n.start # None /\ old.end # None /\ n.start > old.end + Week /\ n.previous = None)
  /\ \/ Overlaps(n, old)
     \/ /\ n.published <= Or(old.end, Or(old.start, old.published)) + Week
        /\ \/ n.status \in Terminal \/ old.status \in Terminal \/ old.end = None
           \/ n.published < old.end

SameSubject(n, old) ==
  \/ SameDay(n.previous, old.start)
  \/ Overlaps(n, old)
  \/ /\ n.status \in Terminal \/ n.inherit
     /\ n.start = None
     /\ n.published <= Or(old.end, Or(old.start, 0)) + Week

(* Another source must name the same segment and the same times.           *)
SameSegment(n, old) ==
  /\ n.segment # None /\ n.segment = old.segment
  /\ n.start = old.start /\ n.end = old.end /\ n.restriction = old.restriction

SameEvent(n, record) ==
  LET old == record.latest
  IN  IF n.related \cap record.aliases # {} THEN TRUE
      ELSE IF n.source \in record.aliases THEN SameArticle(n, old)
      ELSE IF n.subject = old.subject THEN SameSubject(n, old)
      ELSE SameSegment(n, old)

-----------------------------------------------------------------------------
(* observe: a snapshot is merged into the history *)

(* A cancellation or a correction without times takes those of the event.  *)
Completed(n, old) ==
  LET m == IF n.status \in Terminal /\ n.start = None
             THEN [n EXCEPT !.start = old.start, !.end = old.end, !.timing = old.timing,
                            !.precise = old.precise, !.restriction = old.restriction,
                            !.segment = old.segment]
             ELSE n
  IN  IF n.inherit
        THEN [m EXCEPT !.start = old.start, !.end = old.end, !.timing = old.timing,
                       !.precise = old.precise, !.inherit = FALSE]
        ELSE m

Founded(n, silent) ==
  [latest |-> n, aliases |-> {n.source}, announced |-> None, at |-> None,
   baseline |-> IF silent THEN n ELSE None, reminded |-> FALSE, conflict |-> FALSE,
   order |-> n.published, observations |-> n.source :> [print |-> FactsOf(n), order |-> n.published]]

(* Mutant: an article counts again once it was edited.                     *)
OutdatedUnread(n, old) == FALSE

(* An article from before a cancellation does not take it back.            *)
Outdated(n, old) ==
  /\ old.status \in Terminal /\ n.status = "scheduled"
  /\ n.published <= old.published /\ ~n.reinstated

(* The name that a record gets from the notice it begins with.             *)
EventKey(n) == <<n.source, n.start, n.subject>>

(* When an article was first seen to say what it says: an edit counts from *)
(* the poll that found it, whatever date the article bears.                *)
OrderOf(n, record, t) ==
  IF n.source \notin DOMAIN record.observations THEN n.published
  ELSE LET previous == record.observations[n.source]
       IN  IF previous.print # FactsOf(n) THEN t ELSE Later(n.published, previous.order)

(* The record with one more notice.                                        *)
Revised(record, n, t) ==
  LET old == record.latest
      known == [record EXCEPT !.aliases = @ \cup {n.source}]
      order == OrderOf(n, record, t)
      noted == [known EXCEPT !.observations = (n.source :> [print |-> FactsOf(n), order |-> order]) @@ @]
  IN  IF Outdated(n, old) THEN known
      ELSE IF order < record.order THEN noted
      ELSE IF order = record.order /\ n.source # old.source /\ FactsOf(n) # FactsOf(old)
        THEN [noted EXCEPT !.conflict = TRUE]
      ELSE [noted EXCEPT !.latest = n, !.order = order, !.conflict = FALSE]

(* A notice that changes nothing does not keep its event in the reports.   *)
Counts(record, n, t) ==
  ~Outdated(n, record.latest) /\ OrderOf(n, record, t) >= record.order

(* One notice: two events that match it contradict each other.             *)
Merge(known, n, t, silent) ==
  LET history == known.history
      matches == {k \in DOMAIN history : SameEvent(n, history[k])}
  IN  IF Cardinality(matches) > 1
        THEN [history |-> [k \in DOMAIN history |->
                             IF k \in matches THEN [history[k] EXCEPT !.conflict = TRUE] ELSE history[k]],
              active |-> known.active \cup matches]
      ELSE IF matches = {}
        THEN IF n.inherit THEN known
             ELSE LET key == EventKey(n)
                  IN  IF key \in DOMAIN history
                        THEN [history |-> [history EXCEPT ![key] = Revised(@, n, t)],
                              active |-> known.active \cup (IF Counts(history[key], n, t) THEN {key} ELSE {})]
                        ELSE [history |-> [k \in DOMAIN history \cup {key} |->
                                          IF k = key THEN Founded(n, silent) ELSE history[k]],
                              active |-> known.active \cup {key}]
      ELSE LET key == CHOOSE k \in matches : TRUE
               m == Completed(n, history[key].latest)
           IN  [history |-> [history EXCEPT ![key] = Revised(@, m, t)],
                active |-> known.active \cup (IF Counts(history[key], m, t) THEN {key} ELSE {})]

(* The code also reads an article that is dated up to a minute from now,   *)
(* which is far less than the unit of time.                                *)
Readable(n, t) ==
  n.published <= t /\ (NoticeRelevant(n, t) \/ (n.inherit /\ n.published >= t - Week))

(* In the order of publication; an article is in a snapshot once.          *)
First(notices) ==
  CHOOSE n \in notices : \A m \in notices :
    n.published < m.published \/ (n.published = m.published /\ n.source <= m.source)

(* After i notices: what is known by then, and what is yet to be read.     *)
Observe(history, notices, t, silent) ==
  LET readable == {n \in notices : Readable(n, t)}
      after[i \in 0 .. Cardinality(readable)] ==
        IF i = 0 THEN [known |-> [history |-> history, active |-> {}], unread |-> readable]
        ELSE LET before == after[i - 1]
                 n == First(before.unread)
             IN  [known |-> Merge(before.known, n, t, silent), unread |-> before.unread \ {n}]
  IN  after[Cardinality(readable)].known

-----------------------------------------------------------------------------
(* decision: what of a record is to be announced *)

(* Small shifts add up against what was last told, not what was last read. *)
Material(n, old, t) ==
  LET times == {<<n.start, old.start>>, <<n.end, old.end>>}
      Moved(d) == \E p \in times : p[1] # None /\ p[2] # None /\ Gap2(p[1], p[2]) >= d
      riskier == \/ n.start # None /\ old.start # None /\ n.start < old.start
                 \/ n.end # None /\ old.end # None /\ n.end > old.end
  IN  \/ n.place # old.place \/ n.restriction # old.restriction \/ n.precise # old.precise
      \/ \E p \in times : (p[1] = None) # (p[2] = None)
      \/ Moved(Shift)
      \/ riskier /\ Or(n.start, t) - t <= Day
      \/ n.detail # old.detail
      \/ ~Moved(1) /\ n.timing # old.timing

(* A fresh article of the day before, once, if the first was days ago.     *)
Reminds(record, t) ==
  LET n == record.latest
  IN  /\ record.announced # None /\ ~record.reminded
      /\ Publication(n) # Publication(record.announced)
      /\ n.published > record.at /\ t - record.at >= 2 * Day
      /\ n.start # None /\ n.start - t \in 0 .. Day /\ n.start - n.published \in 0 .. Day

(* Mutant: a cancellation is announced whether the event was or not.       *)
DecisionUntold(record, t) ==
  LET n == record.latest
      base == Or(record.announced, record.baseline)
  IN  IF record.conflict \/ ~NoticeRelevant(n, t) THEN None
      ELSE IF n.status \in Terminal
        THEN IF base = None \/ FactsOf(n) # FactsOf(base) THEN n.status ELSE None
      ELSE IF base = None THEN "new"
      ELSE IF base.status \in Terminal THEN "reinstated"
      ELSE IF FactsOf(n) # FactsOf(base) /\ Material(n, base, t) THEN "updated"
      ELSE None

Decision(record, t) ==
  LET n == record.latest
      told == record.announced
      base == Or(told, record.baseline)
  IN  IF record.conflict \/ ~NoticeRelevant(n, t) THEN None
      ELSE IF n.status \in Terminal
        THEN IF told # None /\ FactsOf(n) # FactsOf(told) THEN n.status ELSE None
      ELSE IF ~n.significant /\ told = None THEN None
      ELSE IF base = None THEN "new"
      ELSE IF base.status \in Terminal
        THEN IF base.status = "cancelled" THEN "reinstated" ELSE "updated"
      ELSE IF FactsOf(n) # FactsOf(base)
        THEN IF Material(n, base, t) THEN IF told # None THEN "updated" ELSE "new" ELSE None
      ELSE IF Reminds(record, t) THEN "reminder" ELSE None

(* claim *)
Claimed(record, t, decision) ==
  LET n == record.latest
      old == record.announced
      again == /\ old # None
               /\ \/ old.status \in Terminal /\ n.status = "scheduled"
                  \/ old.start # None /\ n.start # None /\ ~SameDay(old.start, n.start)
  IN  [record EXCEPT !.announced = n, !.at = t,
                     !.reminded = decision = "reminder" \/ (@ /\ ~again)]

(* candidates, in which updates and cancellations come first.              *)
Candidates(history, active, t) ==
  {[key |-> k, decision |-> Decision(history[k], t),
    print |-> FactsOf(history[k].latest), publication |-> Publication(history[k].latest)] :
     k \in {x \in active : Decision(history[x], t) # None}}

Urgency(plan) == IF plan.decision \in Terminal \cup {"updated"} THEN 0 ELSE 3

(* A full closure that 511 shows, of the same segment at the same times.   *)
Equivalent(n, alert) ==
  /\ n.status = "scheduled" /\ n.precise /\ n.restriction = "closed"
  /\ n.segment # None /\ n.segment = alert.segment
  /\ n.start = alert.start /\ n.end = alert.end

(* inherit_511: what 511 announced counts as announced.                    *)
Inherited(record, alert, at) ==
  IF record.announced = None /\ ~record.conflict /\ Equivalent(record.latest, alert)
    THEN [record EXCEPT !.announced = [record.latest EXCEPT !.source = alert.source, !.published = at],
                        !.at = at]
    ELSE record

-----------------------------------------------------------------------------
(* What a record may come to say of a closure: one of its notices, perhaps *)
(* with the schedule, or the segment, of others (Completed).               *)

About(notices, c) == {n \in notices : n.about = c}

Account(n, schedule, segment) ==
  [n EXCEPT !.start = schedule.start, !.end = schedule.end, !.timing = schedule.timing,
            !.precise = schedule.precise, !.restriction = segment.restriction,
            !.segment = segment.segment, !.inherit = FALSE]

Accounts(notices, c) == {Account(n, s, g) : n, s, g \in About(notices, c)}

Records(notices, c) ==
  LET sources == {n.source : n \in About(notices, c)}
  IN  {known \in [latest : Accounts(notices, c), aliases : SUBSET sources] :
         known.latest.source \in known.aliases}

=============================================================================

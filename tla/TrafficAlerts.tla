--------------------------- MODULE TrafficAlerts ----------------------------
(***************************************************************************)
(* The automatic announcements of 511 reports: bot/traffic/channel.py and  *)
(* its table in bot/storage.py.  What was attempted is remembered in       *)
(* receipts, so that no restart, failed save or flapping feed repeats it.  *)
(*                                                                         *)
(* A report is what one event looked like at one moment; the selection     *)
(* from the feed and the wording of a report are left out.  The steps here *)
(* are conjuncts of TrafficChannel's, which adds the task that polls and   *)
(* publishes in turn and the notices of the city.                          *)
(***************************************************************************)
EXTENDS ClosureNotices

CONSTANTS
  Event,            (* identifiers                                         *)
  Report,           (* what an event may look like                         *)
  EventOf,          (* identifier                                          *)
  PrintOf,          (* fingerprint                                         *)
  KeyOf,            (* broadcast_key, the same for equivalent reports      *)
  FullOf, LanesOf,  (* full, blocked_lanes                                 *)
  HazardsOf,        (* hazards                                             *)
  EndOf,            (* end                                                 *)
  PriorityOf,       (* place in the order of announcement                  *)
  AnnounceExisting, (* traffic_announce_existing                           *)
  FreshFor,         (* a snapshot counts for ten minutes                   *)
  Gap,              (* REANNOUNCE_S                                        *)
  MaxCrashes,       (* bound                                               *)
  Horizon           (* bound of the clock                                  *)

ASSUME AlertsAssumption ==
  /\ EventOf \in [Report -> Event] /\ LanesOf \in [Report -> Nat]
  /\ FullOf \in [Report -> BOOLEAN]
  /\ EndOf \in [Report -> Nat] /\ PriorityOf \in [Report -> Nat]
  /\ \A r, s \in Report : PriorityOf[r] = PriorityOf[s] => r = s
  /\ None \notin Report \cup [report : Report, at : Nat, attempted : BOOLEAN, version : BOOLEAN]
  /\ AnnounceExisting \in BOOLEAN
  /\ FreshFor \in Nat \ {0} /\ Gap \in Nat
  /\ MaxCrashes \in Nat /\ Horizon \in Nat

VARIABLES
  now,
  up,
  seen,         (* state['seen'], in memory and in the file: a receipt of  *)
                (* each event or None                                      *)
  initialized,  (* state['initialized']                                    *)
  current,      (* the reports of the last snapshot                        *)
  fetched,      (* last_success                                            *)
  rejected,     (* reports that do not fit or that the gate blocks         *)
  posting,      (* the report that is claimed and goes to the radio        *)
  crashes,
  tried,        (* history: the last attempt for each event                *)
  existing      (* history: the reports of the first snapshot of all       *)

memory == <<current, fetched, rejected>>
vars == <<now, up, seen, initialized, memory, posting, crashes, tried, existing>>

(* `version' is whether the receipt has the present fingerprint scheme.    *)
Receipt(r, at, attempted) == [report |-> r, at |-> at, attempted |-> attempted, version |-> TRUE]

(* A new installation, or the upgrade of one that attempted something for  *)
(* some of the events under an earlier scheme.                             *)
Init ==
  /\ now = 0
  /\ up = FALSE
  /\ \E upgraded \in SUBSET Event :
       /\ seen = [e \in Event |-> IF e \in upgraded
                    THEN [report |-> None, at |-> 0, attempted |-> TRUE, version |-> FALSE] ELSE None]
       /\ initialized = (upgraded # {})
  /\ current = {} /\ fetched = None /\ rejected = {}
  /\ posting = None
  /\ crashes = 0
  /\ tried = [e \in Event |-> None] /\ existing = {}

-----------------------------------------------------------------------------
(* How far ahead a report may begin is left out: it bounds which reports   *)
(* there are.                                                              *)
Relevant(r) == EndOf[r] > now
FreshFeed == fetched # None /\ now - fetched < FreshFor

Receipts == {seen[e] : e \in {x \in Event : seen[x] # None}}

(* _repeat_allowed *)
(* Mutant: more lanes than now, instead of more than before.               *)
RepeatAllowedDown(r) ==
  LET p == seen[EventOf[r]]
  IN  p # None => p.version /\ (~p.attempted \/ now - p.at >= Gap \/ LanesOf[r] < LanesOf[p.report])

RepeatAllowed(r) ==
  LET p == seen[EventOf[r]]
  IN  p # None => /\ p.version
                  /\ \/ ~p.attempted
                     \/ now - p.at >= Gap
                     \/ FullOf[r] # FullOf[p.report]
                     \/ HazardsOf[r] # HazardsOf[p.report]
                     \/ LanesOf[r] > LanesOf[p.report]

SamePrint(receipt, r) == receipt # None /\ receipt.version /\ PrintOf[receipt.report] = PrintOf[r]

Eligible(r) ==
  /\ FreshFeed /\ Relevant(r)
  /\ r \notin rejected
  /\ ~SamePrint(seen[EventOf[r]], r)
  /\ ~\E p \in Receipts : p.version /\ p.attempted /\ KeyOf[p.report] = KeyOf[r]
  /\ RepeatAllowed(r)

-----------------------------------------------------------------------------
(* _refresh_511 *)

(* A snapshot has one report of an event.                                  *)
IsSnapshot(s) ==
  /\ \A r \in s : Relevant(r)
  /\ \A r, q \in s : EventOf[r] = EventOf[q] => r = q

(* Receipts of an earlier scheme become silent receipts of what is there   *)
(* now, with their times; the reports of the very first snapshot get       *)
(* receipts that attempted nothing.                                        *)
Baseline(snapshot) ==
  [e \in Event |->
     IF \E r \in snapshot : EventOf[r] = e
       THEN LET r == CHOOSE q \in snapshot : EventOf[q] = e
            IN  IF seen[e] # None /\ ~seen[e].version
                  THEN Receipt(r, seen[e].at, seen[e].attempted)
                ELSE IF ~initialized /\ ~AnnounceExisting
                  THEN Receipt(r, now, FALSE)
                ELSE seen[e]
       ELSE seen[e]]

(* Of equivalent reports one remains.                                      *)
Merged(snapshot) ==
  {r \in snapshot : \A q \in snapshot : KeyOf[q] = KeyOf[r] => PriorityOf[r] <= PriorityOf[q]}

Take(snapshot) ==
  /\ current' = Merged(snapshot)
  /\ rejected' = rejected \cap snapshot
  /\ fetched' = now

(* A save that fails is a poll that failed: everything stays.              *)
Refresh(snapshot) ==
  /\ up /\ posting = None
  /\ seen' = Baseline(snapshot) /\ initialized' = TRUE
  /\ existing' = IF initialized THEN existing ELSE snapshot
  /\ Take(snapshot)
  /\ UNCHANGED <<now, up, posting, crashes, tried>>

-----------------------------------------------------------------------------
(* publish_pending, post_traffic_alert and _claim, for an eligible report *)

(* It does not fit into a message, or a gate before the radio blocks it.   *)
Reject(r) ==
  /\ up /\ posting = None
  /\ rejected' = rejected \cup {r}
  /\ UNCHANGED <<now, up, seen, initialized, current, fetched, posting, crashes, tried, existing>>

(* Mutant: the receipt is written after the radio attempt.                 *)
ClaimLate(r) ==
  /\ up /\ posting = None
  /\ posting' = r
  /\ tried' = [tried EXCEPT ![EventOf[r]] = Receipt(r, now, TRUE)]
  /\ UNCHANGED <<now, up, seen, initialized, memory, crashes, existing>>

(* The receipt is saved, in one step with the start of the attempt.  If    *)
(* the bot is busy, the limiter refuses or the save fails, nothing         *)
(* changes.                                                                *)
Claim(r) ==
  /\ up /\ posting = None
  /\ seen' = [seen EXCEPT ![EventOf[r]] = Receipt(r, now, TRUE)]
  /\ posting' = r
  /\ tried' = [tried EXCEPT ![EventOf[r]] = Receipt(r, now, TRUE)]
  /\ UNCHANGED <<now, up, initialized, memory, crashes, existing>>

(* The radio command returned, failed or was cancelled: all the same.      *)
FinishPost ==
  /\ posting # None
  /\ posting' = None
  /\ UNCHANGED <<now, up, seen, initialized, memory, crashes, tried, existing>>

-----------------------------------------------------------------------------
(* prepare, and the end of a run *)

Start ==
  /\ ~up /\ up' = TRUE
  /\ UNCHANGED <<now, seen, initialized, memory, posting, crashes, tried, existing>>

(* A crash, or stop().                                                     *)
Stop ==
  /\ up /\ crashes < MaxCrashes
  /\ crashes' = crashes + 1
  /\ up' = FALSE /\ posting' = None
  /\ current' = {} /\ fetched' = None /\ rejected' = {}
  /\ UNCHANGED <<now, seen, initialized, tried, existing>>

Tick ==
  /\ now < Horizon
  /\ now' = now + 1
  /\ UNCHANGED <<up, seen, initialized, memory, posting, crashes, tried, existing>>

-----------------------------------------------------------------------------
ReceiptOK(p) ==
  /\ p.report \in Report \/ (p.report = None /\ ~p.version)
  /\ p.at \in 0 .. now /\ p.attempted \in BOOLEAN /\ p.version \in BOOLEAN

TypeOK ==
  /\ up \in BOOLEAN /\ initialized \in BOOLEAN
  /\ \A e \in Event : seen[e] # None => ReceiptOK(seen[e])
  /\ current \subseteq Report /\ rejected \subseteq Report /\ existing \subseteq Report
  /\ \A r, q \in current : EventOf[r] = EventOf[q] \/ KeyOf[r] = KeyOf[q] => r = q
  /\ fetched = None \/ fetched \in 0 .. now
  /\ posting \in Report \cup {None}

Posts(r) == posting = None /\ posting' = r

(* The attempt for an event follows the last one only with other facts,    *)
(* and, unless the closure or the hazards are others or more lanes are     *)
(* blocked, only after the interval; nor does it repeat what was last      *)
(* attempted for an equivalent event.  Crashes after the receipt is saved, *)
(* restarts and facts that come and go included (_repeat_allowed, _claim). *)
(* With traffic_announce_existing off, what the first snapshot showed is   *)
(* no news until its event was announced with other facts (_refresh_511).  *)
OnlyNews ==
  [][\A r \in Report : Posts(r) =>
       /\ r \in existing => AnnounceExisting \/ tried[EventOf[r]] # None
       /\ \A e \in Event : tried[e] # None => KeyOf[tried[e].report] # KeyOf[r]
       /\ LET p == tried[EventOf[r]]
          IN  p # None =>
                /\ PrintOf[r] # PrintOf[p.report]
                /\ \/ now - p.at >= Gap
                   \/ FullOf[r] # FullOf[p.report]
                   \/ HazardsOf[r] # HazardsOf[p.report]
                   \/ LanesOf[r] > LanesOf[p.report]]_vars

=============================================================================

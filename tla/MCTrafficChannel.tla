-------------------------- MODULE MCTrafficChannel --------------------------
EXTENDS TrafficChannel

(* One event with two lanes closed (a), three (b) or the whole road (c);   *)
(* its equivalent under another identifier (d looks like a).  f is what    *)
(* 511 has of the closure that the city's notices are about.               *)
Events == [a |-> "e1", b |-> "e1", c |-> "e1", d |-> "e2", f |-> "e3"]
Prints == [a |-> 1, b |-> 2, c |-> 3, d |-> 1, f |-> 5]
Keys == [a |-> 1, b |-> 2, c |-> 3, d |-> 1, f |-> 5]
Fulls == [a |-> FALSE, b |-> FALSE, c |-> TRUE, d |-> FALSE, f |-> TRUE]
Lanes == [a |-> 2, b |-> 3, c |-> 0, d |-> 2, f |-> 0]
Hazards == [r \in Report |-> {}]
Ends == [a |-> 9, b |-> 9, c |-> 9, d |-> 2, f |-> 6]
Priorities == [a |-> 2, b |-> 3, c |-> 1, d |-> 4, f |-> 5]
Alerts == [r \in Report |->
  [source |-> 9, segment |-> IF r = "f" THEN "here" ELSE r, start |-> 4, end |-> Ends[r]]]
Abouts == [r \in Report |-> IF r = "f" THEN "works" ELSE EventOf[r]]

(* The first article on the works, and how the others differ from it.      *)
Works ==
  [source |-> 1, published |-> 1, subject |-> "works", place |-> "here", start |-> 4, end |-> 6,
   timing |-> "days", restriction |-> "closed", status |-> "scheduled", precise |-> TRUE,
   detail |-> None, significant |-> TRUE, related |-> {}, segment |-> "here", previous |-> None,
   inherit |-> FALSE, reinstated |-> FALSE, shown |-> 0, gone |-> 9, about |-> "works"]
Cancels == [Works EXCEPT !.source = 2, !.published = 2, !.status = "cancelled", !.start = None, !.end = None]

Minor(i, there) ==
  [Works EXCEPT !.source = i, !.subject = there, !.place = there, !.segment = there,
                !.significant = FALSE, !.about = there]

World(reports, upgraded, notices, requests, ends, until) ==
  [reports |-> reports, upgraded |-> upgraded, notices |-> notices, requests |-> requests,
   sources |-> (IF notices = {} THEN {} ELSE {"city"}) \cup (IF reports = {} THEN {} ELSE {"511"}),
   crashes |-> ends, until |-> until]

(* A closure that is called off twice: by an article of its own, then by   *)
(* an edit of the oldest; after which a third, older than the first        *)
(* cancellation, is edited too.                                            *)
RevivalWorlds == {
  World({}, {}, {[Works EXCEPT !.published = 0, !.gone = 3],
                 [Works EXCEPT !.published = 0, !.shown = 3, !.status = "cancelled"], Cancels,
                 [Works EXCEPT !.source = 3, !.gone = 4], [Works EXCEPT !.source = 3, !.shown = 4, !.detail = "nights"]},
        {}, 0, 4) }

(* Six more: 511 alone; a closure, its cancellation, an edit of the old    *)
(* article and a reinstatement; 511 beside the city; two sources that      *)
(* contradict each other, and one that follows; small changes and the      *)
(* article of the day before; readers of a list that changes.              *)
TheWorlds == RevivalWorlds \cup {
  World({"a", "b", "c", "d"}, {"e1"}, {}, {}, 1, 4),
  World({}, {}, {[Works EXCEPT !.gone = 3], [Works EXCEPT !.shown = 3, !.detail = "nights"], Cancels,
                 [Works EXCEPT !.source = 3, !.published = 3, !.reinstated = TRUE]}, {}, 1, 4),
  World({"f"}, {}, {Works, Cancels}, {}, 1, 3),
  World({}, {}, {Works, [Works EXCEPT !.source = 2, !.restriction = "lane"],
                 [Works EXCEPT !.source = 3, !.published = 2, !.end = 7]}, {}, 0, 4),
  World({}, {}, {Works, [Works EXCEPT !.source = 2, !.published = 2, !.end = 5],
                 [Works EXCEPT !.source = 3, !.published = 3]}, {}, 1, 4),
  World({}, {}, {Minor(1, "m1"), Minor(2, "m2"), Minor(3, "m3")}, {"q1", "q2"}, 0, 1) }

(* The worlds are such that the theorems about them apply.                 *)
ASSUME WorldsAssumption ==
  \A w \in TheWorlds : Identified(w) /\ Recognised(w)

Askers == [q1 |-> "p", q2 |-> "p"]
Commands == [q1 |-> "reports", q2 |-> "cont"]
=============================================================================

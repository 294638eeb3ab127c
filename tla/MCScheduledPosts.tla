-------------------------- MODULE MCScheduledPosts --------------------------
EXTENDS ScheduledPosts

(* One practical topic with one example, another with two, and two broad.  *)
Topical == [w1 |-> "weather", s1 |-> "sports", b1 |-> "broad", b2 |-> "broad"]
InTurn == <<"weather", "sports", "traffic">>

World(does, processes, older, started, failing, time, until) ==
  [does |-> does, runs |-> processes, older |-> older, launches |-> started, failures |-> failing,
   keys |-> <<"k1">>, clock |-> time, until |-> until, db |-> TRUE, tips |-> {"b1", "b2"}]

(* The handover between three runs of which one is --stop; the same with   *)
(* an older version that is started again; two channels with a welcome,    *)
(* and two that turn out to be one; tips over two days, with a crash, a    *)
(* failed commit, and a clock that is corrected; tips of several topics;   *)
(* tips without a database, and the fortune, at the end of summer time;    *)
(* the voice.                                                              *)
TheWorlds == {
  World({}, {"p1", "p2", "p3"}, {}, 3, 0, "right", 0),
  World({}, {"p1", "p2"}, {"p4"}, 3, 0, "right", 0),
  [World({"welcome"}, {"p1"}, {}, 2, 1, "right", 1) EXCEPT !.keys = <<"k1", "k2">>],
  [World({"welcome"}, {"p1"}, {}, 1, 0, "right", 0) EXCEPT !.keys = <<"k1", "k1">>],
  World({"tips"}, {"p1"}, {}, 2, 1, "corrected", 6),
  [World({"tips"}, {"p1"}, {}, 1, 0, "right", 8) EXCEPT !.tips = Tip],
  [World({"tips"}, {"p1"}, {}, 2, 0, "winter", 7) EXCEPT !.db = FALSE],
  World({"fortune"}, {"p1"}, {}, 3, 0, "winter", 9),
  World({"voice"}, {"p1"}, {}, 1, 0, "right", 6) }
=============================================================================

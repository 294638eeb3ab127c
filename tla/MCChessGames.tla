---------------------------- MODULE MCChessGames ----------------------------
EXTENDS ChessGames

(* Two players in a table for one.  ann's game is begun, played, restarted *)
(* and ended in any order; m1 comes twice, without a timestamp.            *)
Players == [n1 |-> "ann", n2 |-> "ann", y1 |-> "ann", m1 |-> "ann", d1 |-> "ann", r1 |-> "ann", b1 |-> "bob"]
Commanded == [n1 |-> "new", n2 |-> "new", y1 |-> "confirm", m1 |-> "move", d1 |-> "draw", r1 |-> "resign", b1 |-> "new"]
Asked == [p \in DOMAIN Players |-> IF p = "n2" THEN "black" ELSE "white"]
Keys == [p \in DOMAIN Players |-> p]
Copies == [p \in DOMAIN Players |-> IF p \in {"m1", "y1"} THEN 2 ELSE 1]
=============================================================================

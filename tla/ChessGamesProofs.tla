-------------------------- MODULE ChessGamesProofs --------------------------
(***************************************************************************)
(* Theorems of ChessGames for any players, packets, copies of them, and    *)
(* limits.                                                                 *)
(***************************************************************************)
EXTENDS ChessGames, SequenceTheorems, TLAPS

Begun == [color : Colors, moves : Nat, result : {"", "white", "black", "draw"}]
Game == {NoGame} \cup Begun
Request == {NoRequest} \cup [color : Colors, at : Nat, moves : Nat]
Key == {KeyOf[p] : p \in Packet}
Receipt == [key : Key, at : Nat]
Sessions == [game : Game, pending : Request, receipts : Seq(Receipt), score : Tally]

ChessTypes ==
  /\ now \in Nat
  /\ saved \in [Player -> Sessions]
  /\ owner \in Packet \cup {None}
  /\ work \in Sessions
  /\ reply \in {"none", "turn", "text"}
  /\ log \in [Player -> Seq(Key)]
  /\ truth \in [Player -> Tally]
  /\ told \in Packet \cup {None}

(* A request under way has the session that is saved and was no duplicate  *)
(* of it; one that will announce a turn has been saved.                    *)
OwnerInv ==
  /\ owner = None => reply = "none"
  /\ owner # None /\ reply = "none" =>
       /\ work = saved[SenderOf[owner]]
       /\ owner \in Wire => \A i \in 1 .. Len(work.receipts) : work.receipts[i].key # KeyOf[owner]
  /\ reply = "turn" => owner # None /\ Contains(log[SenderOf[owner]], KeyOf[owner])

(* The receipts are the end of what was saved, as long as it may be.       *)
EndOf(receipts, keys) ==
  /\ Len(receipts) <= Len(keys) /\ Len(receipts) <= ReceiptLimit
  /\ Len(receipts) = Len(keys) \/ Len(receipts) = ReceiptLimit
  /\ \A i \in 1 .. Len(receipts) : receipts[i].key = keys[Len(keys) - Len(receipts) + i]

ReceiptsInv == \A s \in Player : EndOf(saved[s].receipts, log[s])

(* A request for a new game is dropped with the position it was made at.   *)
AtPosition(session) ==
  session.pending # NoRequest => session.pending.moves = session.game.moves

PendingInv == \A s \in Player : AtPosition(saved[s])

ChessInv ==
  ChessTypes /\ OwnerInv /\ ReceiptsInv /\ PendingInv /\ PlayedOnce /\ ScoredOnce /\ ToldIsSaved

-----------------------------------------------------------------------------
(* What a command does to a session *)

(* A session that a command leads to keeps receipts and score, its request *)
(* is of its position, and a game that ended was won by who ended it.      *)
Follows(p, s, x) ==
  /\ x \in Sessions /\ x.receipts = s.receipts /\ x.score = s.score
  /\ AtPosition(x)
  /\ Playing(s.game) /\ x.game.result # "" => Outcome(x.game) = Winner(p, s.game, x.game)

(* A game under way begins anew only by a confirmation in time, or by the  *)
(* first moves of the game itself.                                         *)
NotRestarted(s, x) ==
  Playing(s.game) /\ x.game # s.game /\ x.game.moves <= 1 /\ Playing(x.game)
    => \/ x.game.moves > s.game.moves
       \/ s.pending # NoRequest /\ now - s.pending.at <= ConfirmWindow

LEMMA SessionFields ==
  ASSUME NEW s \in Sessions
  PROVE  /\ s.game \in Game /\ s.game.moves \in Nat
         /\ s.game.result \in {"", "white", "black", "draw"}
         /\ s.pending \in Request /\ s.receipts \in Seq(Receipt) /\ s.score \in Tally
         /\ Playing(s.game) => s.game \in Begun
<1>1. s.game \in Game /\ s.pending \in Request /\ s.receipts \in Seq(Receipt) /\ s.score \in Tally
  BY DEF Sessions
<1>2. CASE s.game = NoGame
  <2>1. NoGame.moves \in Nat /\ NoGame.result = ""
    BY DEF NoGame
  <2> QED BY <1>1, <1>2, <2>1 DEF Playing
<1>3. CASE s.game \in Begun
  BY <1>1, <1>3 DEF Begun
<1>4. s.game = NoGame \/ s.game \in Begun
  BY <1>1 DEF Game
<1> QED BY <1>2, <1>3, <1>4

LEMMA StartedOK ==
  ASSUME NEW p \in Packet, NEW s \in Sessions, NEW color \in Colors
  PROVE  Follows(p, s, Started(s, color))
<1> DEFINE x == Started(s, color)
<1>1. NewGame(color) \in Game /\ NewGame(color).result = ""
  BY DEF NewGame, Game, Begun
<1>2. /\ x \in Sessions /\ x.receipts = s.receipts /\ x.score = s.score
      /\ x.game = NewGame(color) /\ x.pending = NoRequest
  BY <1>1 DEF Started, Sessions, Request
<1> QED BY <1>1, <1>2 DEF Follows, AtPosition

LEMMA WithOK ==
  ASSUME NEW p \in Packet, NEW s \in Sessions, NEW g \in Game,
         g.result # "" => Outcome(g) = Winner(p, s.game, g)
  PROVE  Follows(p, s, With(s, g)) /\ With(s, g).game = g
<1> DEFINE x == With(s, g)
<1>1. /\ x \in Sessions /\ x.receipts = s.receipts /\ x.score = s.score
      /\ x.game = g /\ x.pending = NoRequest
  BY DEF With, Sessions, Request
<1> QED BY <1>1 DEF Follows, AtPosition

(* A game under way that a command takes further or ends.                  *)
LEMMA FurtherOK ==
  ASSUME NEW p \in Packet, NEW s \in Sessions, NEW g \in Begun, s.game = g,
         NEW h \in Game, h.moves > g.moves, h.color = g.color, h.color \in Colors,
         h.result \in Colors => Winner(p, g, h) = IF h.result = g.color THEN "you" ELSE "me"
  PROVE  Follows(p, s, With(s, h)) /\ With(s, h).game.moves > g.moves
<1>1. h.result \in {"", "draw"} \cup Colors
  <2>1. NoGame.result = ""
    BY DEF NoGame
  <2>2. h \in Begun => h.result \in {"", "draw"} \cup Colors
    BY DEF Begun, Colors
  <2> QED BY <2>1, <2>2 DEF Game
<1>2. h.result # "" => Outcome(h) = Winner(p, s.game, h)
  <2>1. CASE h.result = "draw"
    BY <2>1 DEF Outcome, Winner
  <2>2. CASE h.result \in Colors
    BY <2>2 DEF Outcome, Colors
  <2> QED BY <1>1, <2>1, <2>2
<1>3. Follows(p, s, With(s, h)) /\ With(s, h).game = h
  BY <1>2, WithOK
<1> QED BY <1>3

LEMMA MoveOK ==
  ASSUME NEW p \in Packet, NEW s \in Sessions, Playing(s.game), CommandOf[p] = "move", NEW x \in Move(s)
  PROVE  Follows(p, s, x) /\ x.game.moves > s.game.moves
<1>1. PICK g \in Begun : g = s.game
  BY SessionFields
<1>2. g.color \in Colors /\ g.moves \in Nat
  BY DEF Begun
<1>3. PICK one \in Nat, two \in Nat : one = g.moves + 1 /\ two = g.moves + 2
  BY <1>2
<1>4. one > g.moves /\ two > g.moves /\ two # g.moves + 1
  BY <1>2, <1>3
<1>5. one \in Nat /\ two \in Nat /\ Begun \subseteq Game
  BY <1>3 DEF Game
<1>6. ASSUME NEW e \in {g.color, "draw"}, NEW h, h = [g EXCEPT !.moves = one, !.result = e]
      PROVE  Follows(p, s, With(s, h)) /\ With(s, h).game.moves > g.moves
  <2>1. e \in {"", "white", "black", "draw"} /\ (e \in Colors => e = g.color)
    BY <1>2 DEF Colors
  <2>2. h \in Game /\ h.moves = one /\ h.result = e /\ h.color = g.color
    <3>1. h \in Begun /\ h.moves = one /\ h.result = e /\ h.color = g.color
      BY <1>5, <1>6, <2>1 DEF Begun
    <3> QED BY <1>5, <3>1
  <2>3. h.result \in Colors => Winner(p, g, h) = "you"
    BY <1>3, <2>2 DEF Winner, Colors
  <2> QED BY <1>1, <1>2, <1>4, <2>1, <2>2, <2>3, FurtherOK
<1>7. ASSUME NEW e \in {"", Other(g.color), "draw"}, NEW h, h = [g EXCEPT !.moves = two, !.result = e]
      PROVE  Follows(p, s, With(s, h)) /\ With(s, h).game.moves > g.moves
  <2>1. e \in {"", "white", "black", "draw"} /\ e # g.color
    BY <1>2 DEF Colors, Other
  <2>2. h \in Game /\ h.moves = two /\ h.result = e /\ h.color = g.color
    <3>1. h \in Begun /\ h.moves = two /\ h.result = e /\ h.color = g.color
      BY <1>5, <1>7, <2>1 DEF Begun
    <3> QED BY <1>5, <3>1
  <2>3. h.result \in Colors => Winner(p, g, h) = "me"
    BY <1>4, <2>2 DEF Winner, Colors
  <2> QED BY <1>1, <1>2, <1>4, <2>1, <2>2, <2>3, FurtherOK
<1>8. \/ \E e \in {g.color, "draw"} : x = With(s, [g EXCEPT !.moves = one, !.result = e])
      \/ \E e \in {"", Other(g.color), "draw"} : x = With(s, [g EXCEPT !.moves = two, !.result = e])
  BY <1>1, <1>3 DEF Move
<1> QED BY <1>1, <1>6, <1>7, <1>8

(* A game that is resigned or drawn.                                       *)
LEMMA EndedOK ==
  ASSUME NEW p \in Packet, NEW s \in Sessions, Playing(s.game),
         NEW e \in {"draw", Other(s.game.color)}, e # "draw" => CommandOf[p] = "resign"
  PROVE  /\ Follows(p, s, With(s, [s.game EXCEPT !.result = e]))
         /\ ~Playing(With(s, [s.game EXCEPT !.result = e]).game)
<1>1. PICK g \in Begun : g = s.game
  BY SessionFields
<1>2. PICK h : h = [g EXCEPT !.result = e]
  OBVIOUS
<1>3. /\ h \in Game /\ h.result = e /\ h.color = g.color
      /\ e \in {"white", "black", "draw"} /\ e # g.color
  BY <1>1, <1>2 DEF Begun, Game, Colors, Other
<1>4. Outcome(h) = Winner(p, g, h)
  BY <1>1, <1>3 DEF Outcome, Winner
<1>5. Follows(p, s, With(s, h)) /\ With(s, h).game = h
  BY <1>1, <1>3, <1>4, WithOK
<1> QED BY <1>1, <1>2, <1>3, <1>5 DEF Playing

LEMMA ExecutedOK ==
  ASSUME now \in Nat, NEW p \in Packet, NEW s \in Sessions, AtPosition(s), NEW x \in Executed(s, p)
  PROVE  Follows(p, s, x) /\ NotRestarted(s, x)
<1>1. s.game \in Game /\ s.game.moves \in Nat /\ s.pending \in Request /\ ColorOf[p] \in Colors
  BY SessionFields, ChessAssumption
<1>2. Follows(p, s, s)
  BY DEF Follows, Playing
<1>3. CASE CommandOf[p] = "new"
  <2>1. x \in New(s, p)
    BY <1>3 DEF Executed
  <2>2. CASE Playing(s.game)
    <3>1. x = [s EXCEPT !.pending = [color |-> ColorOf[p], at |-> now, moves |-> s.game.moves]]
      BY <2>1, <2>2 DEF New
    <3>2. [color |-> ColorOf[p], at |-> now, moves |-> s.game.moves] \in Request
      BY <1>1 DEF Request
    <3>3. x \in Sessions /\ x.game = s.game /\ x.receipts = s.receipts /\ x.score = s.score
          /\ x.pending.moves = s.game.moves
      BY <3>1, <3>2 DEF Sessions
    <3> QED BY <2>2, <3>3 DEF Follows, NotRestarted, AtPosition, Playing
  <2>3. CASE ~Playing(s.game)
    BY <1>1, <2>1, <2>3, StartedOK DEF New, NotRestarted
  <2> QED BY <2>2, <2>3
<1>4. ASSUME x = [s EXCEPT !.pending = NoRequest] PROVE Follows(p, s, x) /\ NotRestarted(s, x)
  <2>1. x \in Sessions /\ x.game = s.game /\ x.receipts = s.receipts /\ x.score = s.score
        /\ x.pending = NoRequest
    BY <1>4 DEF Sessions, Request
  <2> QED BY <2>1 DEF Follows, NotRestarted, AtPosition, Playing
<1>5. CASE CommandOf[p] = "confirm"
  <2>1. x \in Confirm(s)
    BY <1>5 DEF Executed
  <2>2. CASE s.pending = NoRequest \/ now - s.pending.at > ConfirmWindow
    BY <1>4, <2>1, <2>2 DEF Confirm
  <2>3. CASE ~(s.pending = NoRequest \/ now - s.pending.at > ConfirmWindow)
    <3>1. x = Started(s, s.pending.color)
      BY <2>1, <2>3 DEF Confirm
    <3>2. s.pending.color \in Colors /\ s.pending.at \in Nat
      BY <1>1, <2>3 DEF Request
    <3>3. now - s.pending.at <= ConfirmWindow
      BY <2>3, <3>2, ChessAssumption
    <3> QED BY <2>3, <3>1, <3>2, <3>3, StartedOK DEF NotRestarted
  <2> QED BY <2>2, <2>3
<1>6. CASE CommandOf[p] = "cancel"
  BY <1>4, <1>6 DEF Executed
<1>7. CASE CommandOf[p] = "move" /\ Playing(s.game)
  <2>1. x \in Move(s)
    BY <1>7 DEF Executed
  <2> QED BY <1>7, <2>1, MoveOK DEF NotRestarted
<1>8. CASE CommandOf[p] = "resign" /\ Playing(s.game)
  <2>1. x = With(s, [s.game EXCEPT !.result = Other(s.game.color)])
    BY <1>8 DEF Executed, Resign
  <2> QED BY <1>8, <2>1, EndedOK DEF NotRestarted
<1>9. CASE CommandOf[p] = "draw" /\ Playing(s.game)
  <2>1. x = s \/ x = With(s, [s.game EXCEPT !.result = "draw"])
    BY <1>9 DEF Executed, Draw
  <2> QED BY <1>2, <1>9, <2>1, EndedOK DEF NotRestarted
<1>10. CASE /\ CommandOf[p] \notin {"new", "confirm", "cancel"}
            /\ CommandOf[p] \in {"move", "resign", "draw"} => ~Playing(s.game)
  BY <1>2, <1>10 DEF Executed, NotRestarted
<1> QED BY <1>3, <1>5, <1>6, <1>7, <1>8, <1>9, <1>10

-----------------------------------------------------------------------------
(* What is saved with it *)

LEMMA AppendKey ==
  ASSUME NEW keys \in Seq(Key), NEW k \in Key
  PROVE  /\ Append(keys, k) \in Seq(Key) /\ Contains(Append(keys, k), k)
         /\ \A other : Contains(keys, other) => Contains(Append(keys, k), other)
         /\ Len(keys) \in Nat /\ Len(Append(keys, k)) = Len(keys) + 1
         /\ Append(keys, k)[Len(keys) + 1] = k
         /\ \A i \in 1 .. Len(keys) : Append(keys, k)[i] = keys[i]
<1>1. /\ Append(keys, k) \in Seq(Key) /\ Len(Append(keys, k)) = Len(keys) + 1
      /\ Append(keys, k)[Len(keys) + 1] = k
      /\ \A i \in 1 .. Len(keys) : Append(keys, k)[i] = keys[i]
  BY AppendProperties
<1>2. Len(keys) \in Nat
  BY LenProperties
<1>3. \A i \in 1 .. Len(keys) : i \in 1 .. Len(keys) + 1
  BY <1>2
<1>4. Len(keys) + 1 \in 1 .. Len(keys) + 1
  BY <1>2
<1> QED BY <1>1, <1>2, <1>3, <1>4 DEF Contains

(* The receipt of a command goes with its key, and the oldest one makes    *)
(* room for it.                                                            *)
LEMMA ReceiptOK ==
  ASSUME now \in Nat, NEW p \in Packet, NEW x \in Sessions, NEW keys \in Seq(Key),
         EndOf(x.receipts, keys)
  PROVE  /\ WithReceipt(x, p) \in Sessions
         /\ WithReceipt(x, p).game = x.game /\ WithReceipt(x, p).pending = x.pending
         /\ WithReceipt(x, p).score = x.score
         /\ EndOf(WithReceipt(x, p).receipts, Append(keys, KeyOf[p]))
<1>1. PICK r \in Seq(Receipt) : r = x.receipts
  BY DEF Sessions
<1>2. PICK rec \in Receipt : rec = [key |-> KeyOf[p], at |-> now]
  BY DEF Receipt, Key
<1>3. PICK new : new = Append(r, rec)
  OBVIOUS
<1>4. /\ new \in Seq(Receipt) /\ Len(new) = Len(r) + 1 /\ new[Len(r) + 1] = rec
      /\ \A i \in 1 .. Len(r) : new[i] = r[i]
  BY <1>3, AppendProperties
<1>5. PICK k \in Key : k = KeyOf[p] /\ k = rec.key
  BY <1>2 DEF Key
<1>6. PICK longer : longer = Append(keys, k)
  OBVIOUS
<1>7. /\ Len(longer) = Len(keys) + 1 /\ longer[Len(keys) + 1] = k
      /\ \A i \in 1 .. Len(keys) : longer[i] = keys[i]
      /\ Len(keys) \in Nat /\ Len(r) \in Nat /\ ReceiptLimit \in Nat
  BY <1>6, AppendKey, LenProperties, ChessAssumption
<1>8. /\ Len(r) <= Len(keys) /\ Len(r) <= ReceiptLimit
      /\ Len(r) = Len(keys) \/ Len(r) = ReceiptLimit
      /\ \A i \in 1 .. Len(r) : r[i].key = keys[Len(keys) - Len(r) + i]
  BY <1>1 DEF EndOf
<1>9. PICK kept : kept = IF Len(new) > ReceiptLimit THEN Tail(new) ELSE new
  OBVIOUS
<1>10. WithReceipt(x, p) = [x EXCEPT !.receipts = kept]
  BY <1>1, <1>2, <1>3, <1>9 DEF WithReceipt
<1>11. kept \in Seq(Receipt) /\ EndOf(kept, longer)
  <2>1. CASE Len(new) > ReceiptLimit
    <3>1. Len(r) = ReceiptLimit /\ new # << >>
      BY <1>4, <1>7, <1>8, <2>1
    <3>2. /\ kept \in Seq(Receipt) /\ Len(kept) = Len(new) - 1
          /\ \A i \in 1 .. Len(kept) : kept[i] = new[i + 1]
      BY <1>4, <1>9, <2>1, <3>1, HeadTailProperties
    <3>3. Len(kept) = Len(r)
      BY <1>4, <1>7, <3>2
    <3>4. ASSUME NEW i \in 1 .. Len(kept) PROVE kept[i].key = longer[Len(longer) - Len(kept) + i]
      <4>1. CASE i = Len(r)
        <5>1. Len(longer) - Len(kept) + i = Len(keys) + 1
          BY <1>7, <3>3, <4>1
        <5>2. kept[i] = rec
          BY <1>4, <3>2, <4>1
        <5> QED BY <1>5, <1>7, <5>1, <5>2
      <4>2. CASE i # Len(r)
        <5>1. i + 1 \in 1 .. Len(r) /\ Len(keys) - Len(r) + (i + 1) \in 1 .. Len(keys)
              /\ Len(longer) - Len(kept) + i = Len(keys) - Len(r) + (i + 1)
          <6>1. i + 1 \in 1 .. Len(r)
            BY <1>7, <3>3, <4>2
          <6>2. Len(r) <= Len(keys)
            BY <1>8
          <6> QED BY <1>7, <3>3, <6>1, <6>2
        <5>2. kept[i] = r[i + 1]
          BY <1>4, <3>2, <5>1
        <5>3. r[i + 1].key = keys[Len(keys) - Len(r) + (i + 1)]
          BY <1>8, <5>1
        <5> QED BY <1>7, <5>1, <5>2, <5>3
      <4> QED BY <4>1, <4>2
    <3> QED BY <1>7, <1>8, <3>1, <3>2, <3>3, <3>4 DEF EndOf
  <2>2. CASE ~(Len(new) > ReceiptLimit)
    <3>1. Len(r) = Len(keys) /\ kept = new /\ Len(new) = Len(longer) /\ Len(new) <= ReceiptLimit
      BY <1>4, <1>7, <1>8, <1>9, <2>2
    <3>2. ASSUME NEW i \in 1 .. Len(new) PROVE new[i].key = longer[Len(longer) - Len(new) + i]
      <4>1. Len(longer) - Len(new) + i = i /\ (i = Len(keys) + 1 \/ i \in 1 .. Len(keys))
        BY <1>4, <1>7, <3>1
      <4>2. i \in 1 .. Len(keys) => Len(keys) - Len(r) + i = i
        BY <1>7, <3>1
      <4> QED BY <1>4, <1>5, <1>7, <1>8, <3>1, <4>1, <4>2
    <3> QED BY <1>4, <1>7, <3>1, <3>2 DEF EndOf
  <2> QED BY <2>1, <2>2
<1> QED BY <1>5, <1>6, <1>10, <1>11 DEF Sessions

LEMMA TallyOK ==
  ASSUME NEW t \in Tally, NEW w \in {"you", "me", "draws"}
  PROVE  [t EXCEPT ![w] = t[w] + 1] \in Tally
BY DEF Tally

(* A result is added where the history adds it.                            *)
LEMMA ScoreOK ==
  ASSUME NEW p \in Packet, NEW s \in Sessions, NEW x, Follows(p, s, x),
         Playing(s.game), x.game.result # ""
  PROVE  /\ x.game # NoGame /\ Outcome(x.game) = Winner(p, s.game, x.game)
         /\ x.score = s.score
<1>1. NoGame.result = ""
  BY DEF NoGame
<1> QED BY <1>1 DEF Follows

LEMMA ScoredOK ==
  ASSUME NEW p \in Packet, NEW s \in Sessions, NEW x, Follows(p, s, x)
  PROVE  /\ Scored(s, x) \in Sessions /\ Scored(s, x).game = x.game
         /\ Scored(s, x).pending = x.pending /\ Scored(s, x).receipts = s.receipts
<1>1. PICK w : w = Winner(p, s.game, x.game)
  OBVIOUS
<1>2. w \in {"you", "me", "draws"}
  BY <1>1 DEF Winner
<1>3. x \in Sessions /\ x.receipts = s.receipts /\ x.score = s.score /\ s.score \in Tally
  BY DEF Follows, Sessions
<1>4. CASE Playing(s.game) /\ x.game.result # ""
  <2>1. PICK t \in Tally : t = [s.score EXCEPT ![w] = s.score[w] + 1]
    BY <1>2, <1>3, TallyOK
  <2>2. x.game # NoGame /\ Outcome(x.game) = w
    BY <1>1, <1>4, ScoreOK
  <2>3. Scored(s, x) = [x EXCEPT !.score = t]
    BY <1>3, <1>4, <2>1, <2>2 DEF Scored
  <2> QED BY <1>3, <2>3 DEF Sessions
<1>5. CASE ~(Playing(s.game) /\ x.game.result # "")
  BY <1>3, <1>5 DEF Scored
<1> QED BY <1>4, <1>5

(* Neither the score nor the receipt touches the game.                     *)
LEMMA SavedGame ==
  ASSUME now \in Nat, NEW p \in Packet, NEW s \in Sessions, NEW x, Follows(p, s, x),
         NEW keys \in Seq(Key), EndOf(s.receipts, keys)
  PROVE  WithReceipt(Scored(s, x), p).game = x.game
<1>1. PICK y : y = Scored(s, x)
  OBVIOUS
<1>2. y \in Sessions /\ y.game = x.game /\ y.receipts = s.receipts
  BY <1>1, ScoredOK
<1>3. WithReceipt(y, p).game = y.game
  BY <1>2, ReceiptOK
<1> QED BY <1>1, <1>2, <1>3

(* A key that no receipt has was logged too long ago to be kept.           *)
LEMMA NotAgain ==
  ASSUME NEW p \in Packet, NEW receipts \in Seq(Receipt), NEW keys \in Seq(Key), EndOf(receipts, keys),
         \A i \in 1 .. Len(receipts) : receipts[i].key # KeyOf[p],
         NEW i \in 1 .. Len(keys), keys[i] = KeyOf[p], NEW j, j = Len(keys) + 1
  PROVE  j - i > ReceiptLimit
<1>1. Len(keys) \in Nat /\ Len(receipts) \in Nat /\ ReceiptLimit \in Nat
  BY LenProperties, ChessAssumption
<1>2. PICK n \in Nat, m \in Nat : n = Len(keys) /\ m = Len(receipts)
  BY <1>1
<1>3. /\ m <= n /\ (m = n \/ m = ReceiptLimit)
      /\ \A k \in 1 .. m : receipts[k].key = keys[n - m + k]
  BY <1>2 DEF EndOf
<1>4. ~(i > n - m)
  <2>1. SUFFICES ASSUME i > n - m PROVE FALSE
    OBVIOUS
  <2>2. i \in 1 .. n
    BY <1>2
  <2>3. i - (n - m) \in 1 .. m /\ n - m + (i - (n - m)) = i
    BY <1>3, <2>1, <2>2
  <2>4. receipts[i - (n - m)].key = keys[i]
    BY <1>3, <2>3
  <2> QED BY <1>2, <2>3, <2>4
<1> QED BY <1>1, <1>2, <1>3, <1>4

-----------------------------------------------------------------------------
(* The invariant *)

LEMMA ChessInit == Init => ChessInv
<1> SUFFICES ASSUME Init PROVE ChessInv
  OBVIOUS
<1>1. NoTally \in Tally
  BY DEF Tally, NoTally
<1>2. << >> \in Seq(Receipt) /\ << >> \in Seq(Key) /\ Len(<< >>) = 0
  BY EmptySeq
<1>3. NoSession \in Sessions /\ NoSession.score = NoTally /\ NoSession.receipts = << >>
      /\ NoSession.pending = NoRequest
  BY <1>1, <1>2 DEF NoSession, Sessions, Game, Request
<1>4. ChessTypes
  BY <1>1, <1>2, <1>3 DEF Init, ChessTypes
<1>5. OwnerInv /\ PendingInv /\ ScoredOnce /\ ToldIsSaved
  BY <1>3 DEF Init, OwnerInv, PendingInv, AtPosition, ScoredOnce, ToldIsSaved
<1>6. ReceiptsInv
  BY <1>2, <1>3, ChessAssumption DEF Init, ReceiptsInv, EndOf
<1>7. PlayedOnce
  BY <1>2 DEF Init, PlayedOnce
<1> QED BY <1>4, <1>5, <1>6, <1>7 DEF ChessInv

LEMMA BeginKeeps ==
  ASSUME ChessInv, NEW p \in Packet, Begin(p)
  PROVE  ChessInv'
<1> USE DEF ChessInv
<1>1. SenderOf[p] \in Player /\ saved[SenderOf[p]] \in Sessions /\ p # None
  BY ChessAssumption DEF ChessTypes
<1>2. UNCHANGED <<now, saved, reply, log, truth>> /\ told' = None /\ owner = None
  BY DEF Begin
<1>3. \/ UNCHANGED <<owner, work>>
      \/ owner' = p /\ work' = saved[SenderOf[p]] /\ ~Duplicate(saved[SenderOf[p]].receipts, p)
  BY DEF Begin
<1>4. ChessTypes'
  BY <1>1, <1>2, <1>3 DEF ChessTypes
<1>5. OwnerInv'
  <2>1. CASE UNCHANGED <<owner, work>>
    BY <1>2, <2>1 DEF OwnerInv
  <2>2. CASE owner' = p /\ work' = saved[SenderOf[p]] /\ ~Duplicate(saved[SenderOf[p]].receipts, p)
    <3>1. PICK receipts \in Seq(Receipt) : receipts = saved[SenderOf[p]].receipts
      BY <1>1 DEF Sessions
    <3>2. DOMAIN receipts = 1 .. Len(receipts)
      BY LenProperties
    <3>3. p \in Wire => \A i \in 1 .. Len(receipts) : receipts[i].key # KeyOf[p]
      BY <2>2, <3>1, <3>2 DEF Duplicate
    <3>4. reply = "none"
      BY <1>2 DEF OwnerInv
    <3> QED BY <1>1, <1>2, <2>2, <3>1, <3>3, <3>4 DEF OwnerInv
  <2> QED BY <1>3, <2>1, <2>2
<1>6. (ReceiptsInv /\ PendingInv /\ PlayedOnce /\ ScoredOnce)'
  BY <1>2 DEF ReceiptsInv, PendingInv, PlayedOnce, ScoredOnce
<1>7. ToldIsSaved'
  BY <1>2 DEF ToldIsSaved
<1> QED BY <1>4, <1>5, <1>6, <1>7

(* What Execute does, with the command's outcome named.                    *)
LEMMA ExecuteStep ==
  ASSUME ChessInv, NEW p \in Packet, Execute(p)
  PROVE  /\ UNCHANGED <<now, owner, told>> /\ owner = p /\ reply = "none" /\ work' = NoSession
         /\ reply' \in {"turn", "text"} /\ work = saved[SenderOf[p]]
         /\ \/ UNCHANGED <<saved, log, truth>> /\ reply' = "text"
            \/ \E x : /\ Follows(p, work, x) /\ NotRestarted(work, x)
                      /\ saved' = [saved EXCEPT ![SenderOf[p]] = WithReceipt(Scored(work, x), p)]
                      /\ log' = [log EXCEPT ![SenderOf[p]] = Append(log[SenderOf[p]], KeyOf[p])]
                      /\ truth' = IF Playing(work.game) /\ x.game.result # ""
                                    THEN LET w == Winner(p, work.game, x.game)
                                         IN  [truth EXCEPT ![SenderOf[p]] =
                                                [truth[SenderOf[p]] EXCEPT ![w] = truth[SenderOf[p]][w] + 1]]
                                    ELSE truth
<1> USE DEF ChessInv
<1>1. UNCHANGED <<now, owner, told>> /\ owner = p /\ reply = "none" /\ work' = NoSession
  BY DEF Execute
<1>2. p # None /\ SenderOf[p] \in Player
  BY ChessAssumption
<1>3. work = saved[SenderOf[p]] /\ work \in Sessions /\ now \in Nat /\ AtPosition(work)
  BY <1>1, <1>2 DEF OwnerInv, ChessTypes, PendingInv
<1>4. PICK x \in Executed(work, p) :
        LET new == Scored(work, x)
            s == SenderOf[p]
            changed == CommandOf[p] = "new" \/ new # work
            save == changed \/ work.game # NoGame
        IN  /\ saved' = IF save THEN [saved EXCEPT ![s] = WithReceipt(new, p)] ELSE saved
            /\ log' = IF save THEN [log EXCEPT ![s] = Append(@, KeyOf[p])] ELSE log
            /\ truth' = IF Playing(work.game) /\ new.game.result # ""
                          THEN [truth EXCEPT ![s][Winner(p, work.game, new.game)] = @ + 1]
                          ELSE truth
            /\ reply' = IF new.game # work.game THEN "turn" ELSE "text"
  BY DEF Execute
<1>5. Follows(p, work, x) /\ NotRestarted(work, x)
  BY <1>3, ExecutedOK
<1>6. PICK y : y = Scored(work, x) /\ y.game = x.game
  <2>1. Scored(work, x).game = x.game
    BY <1>3, <1>5, ScoredOK
  <2> QED BY <2>1
<1>7. CASE CommandOf[p] = "new" \/ y # work \/ work.game # NoGame
  BY <1>1, <1>3, <1>4, <1>5, <1>6, <1>7
<1>8. CASE ~(CommandOf[p] = "new" \/ y # work \/ work.game # NoGame)
  BY <1>1, <1>3, <1>4, <1>6, <1>8 DEF Playing
<1> QED BY <1>7, <1>8

LEMMA ExecuteKeeps ==
  ASSUME ChessInv, NEW p \in Packet, Execute(p)
  PROVE  ChessInv'
<1> DEFINE s == SenderOf[p]
<1> USE DEF ChessInv
<1>1. /\ UNCHANGED <<now, owner, told>> /\ owner = p /\ reply = "none" /\ work' = NoSession
      /\ reply' \in {"turn", "text"} /\ work = saved[s]
  BY ExecuteStep
<1>2. p # None /\ s \in Player /\ KeyOf[p] \in Key /\ NoSession \in Sessions
  <2>1. NoTally \in Tally /\ << >> \in Seq(Receipt)
    BY EmptySeq DEF Tally, NoTally
  <2> QED BY <2>1, ChessAssumption DEF Key, NoSession, Sessions, Game, Request
<1>3. CASE UNCHANGED <<saved, log, truth>> /\ reply' = "text"
  <2>1. ChessTypes' /\ OwnerInv'
    BY <1>1, <1>2, <1>3 DEF ChessTypes, OwnerInv
  <2>2. (ReceiptsInv /\ PendingInv /\ PlayedOnce /\ ScoredOnce /\ ToldIsSaved)'
    BY <1>1, <1>3 DEF ReceiptsInv, PendingInv, PlayedOnce, ScoredOnce, ToldIsSaved
  <2> QED BY <2>1, <2>2
<1>4. ASSUME NEW x, Follows(p, work, x),
             saved' = [saved EXCEPT ![s] = WithReceipt(Scored(work, x), p)],
             log' = [log EXCEPT ![s] = Append(log[s], KeyOf[p])],
             truth' = IF Playing(work.game) /\ x.game.result # ""
                       THEN LET w == Winner(p, work.game, x.game)
                            IN  [truth EXCEPT ![s] = [truth[s] EXCEPT ![w] = truth[s][w] + 1]]
                       ELSE truth
      PROVE  ChessInv'
  <2>1. PICK keys \in Seq(Key) : keys = log[s]
    BY <1>2 DEF ChessTypes
  <2>2. /\ work \in Sessions /\ now \in Nat /\ EndOf(work.receipts, keys) /\ AtPosition(x)
        /\ work.score \in Tally /\ work.score = truth[s]
    BY <1>1, <1>2, <1>4, <2>1 DEF ChessTypes, ReceiptsInv, ScoredOnce, Follows, Sessions
  <2>3. PICK y, z, longer :
          y = Scored(work, x) /\ z = WithReceipt(y, p) /\ longer = Append(keys, KeyOf[p])
    OBVIOUS
  <2>4. y \in Sessions /\ y.game = x.game /\ y.pending = x.pending /\ y.receipts = work.receipts
    BY <1>4, <2>2, <2>3, ScoredOK
  <2>5. /\ z \in Sessions /\ z.game = x.game /\ z.pending = x.pending /\ z.score = y.score
        /\ EndOf(z.receipts, longer)
    BY <2>2, <2>3, <2>4, ReceiptOK
  <2>6. /\ longer \in Seq(Key) /\ Contains(longer, KeyOf[p])
        /\ \A k : Contains(keys, k) => Contains(longer, k)
        /\ Len(keys) \in Nat /\ Len(longer) = Len(keys) + 1 /\ longer[Len(keys) + 1] = KeyOf[p]
        /\ \A i \in 1 .. Len(keys) : longer[i] = keys[i]
    BY <1>2, <2>3, AppendKey
  <2>7. /\ saved' = [saved EXCEPT ![s] = z] /\ log' = [log EXCEPT ![s] = longer]
        /\ saved'[s] = z /\ log'[s] = longer
        /\ \A t \in Player \ {s} : saved'[t] = saved[t] /\ log'[t] = log[t] /\ truth'[t] = truth[t]
        /\ truth'[s] = z.score
    <3>1. /\ saved' = [saved EXCEPT ![s] = z] /\ log' = [log EXCEPT ![s] = longer]
          /\ saved'[s] = z /\ log'[s] = longer
          /\ \A t \in Player \ {s} : saved'[t] = saved[t] /\ log'[t] = log[t]
      BY <1>2, <1>4, <2>1, <2>3 DEF ChessTypes
    <3>2. CASE Playing(work.game) /\ x.game.result # ""
      <4>1. PICK w : w = Winner(p, work.game, x.game)
        OBVIOUS
      <4>2. PICK t : t = [truth[s] EXCEPT ![w] = truth[s][w] + 1]
        OBVIOUS
      <4>3. truth' = [truth EXCEPT ![s] = t]
        BY <1>4, <3>2, <4>1, <4>2
      <4>4. y = [x EXCEPT !.score = t]
        <5>1. x.game # NoGame /\ Outcome(x.game) = w /\ x.score = truth[s]
          BY <1>4, <2>2, <3>2, <4>1, ScoreOK
        <5> QED BY <2>3, <3>2, <4>2, <5>1 DEF Scored
      <4>5. z.score = t
        BY <1>4, <2>5, <4>4 DEF Follows, Sessions
      <4>6. truth \in [Player -> Tally]
        BY DEF ChessTypes
      <4> QED BY <1>2, <3>1, <4>3, <4>5, <4>6
    <3>3. CASE ~(Playing(work.game) /\ x.game.result # "")
      <4>1. truth' = truth
        BY <1>4, <3>3
      <4>2. y = x
        BY <2>3, <3>3 DEF Scored
      <4> QED BY <1>2, <1>4, <2>2, <2>5, <3>1, <4>1, <4>2 DEF Follows
    <3> QED BY <3>2, <3>3
  <2>8. truth' \in [Player -> Tally]
    <3>1. truth' = [t \in Player |-> truth'[t]]
      BY <1>4 DEF ChessTypes
    <3>2. z.score \in Tally
      BY <2>5 DEF Sessions
    <3>3. \A t \in Player : truth'[t] \in Tally
      BY <2>7, <3>2 DEF ChessTypes
    <3> QED BY <3>1, <3>3
  <2>9. ChessTypes'
    BY <1>1, <1>2, <2>5, <2>6, <2>7, <2>8 DEF ChessTypes
  <2>10. OwnerInv'
    BY <1>1, <1>2, <2>6, <2>7 DEF OwnerInv
  <2>11. (ReceiptsInv /\ PendingInv)'
    <3>1. ASSUME NEW t \in Player PROVE EndOf(saved'[t].receipts, log'[t]) /\ AtPosition(saved'[t])
      <4>1. CASE t = s
        BY <2>2, <2>5, <2>7, <4>1 DEF AtPosition
      <4>2. CASE t # s
        BY <2>7, <4>2 DEF ReceiptsInv, PendingInv
      <4> QED BY <4>1, <4>2
    <3> QED BY <3>1 DEF ReceiptsInv, PendingInv, EndOf, AtPosition
  <2>12. ScoredOnce'
    BY <2>7 DEF ScoredOnce
  <2>13. ToldIsSaved'
    <3>1. \A t \in Player : \A k : Contains(log[t], k) => Contains(log'[t], k)
      BY <1>2, <2>1, <2>6, <2>7
    <3>2. told # None => SenderOf[told] \in Player
      BY ChessAssumption DEF ChessTypes
    <3> QED BY <1>1, <3>1, <3>2 DEF ToldIsSaved
  <2>14. PlayedOnce'
    <3>1. SUFFICES ASSUME NEW t \in Player, NEW i \in DOMAIN log'[t], NEW j \in DOMAIN log'[t],
                          i < j, log'[t][i] = log'[t][j], NEW q \in Wire, KeyOf[q] = log'[t][i]
                   PROVE  j - i > ReceiptLimit
      BY DEF PlayedOnce
    <3>2. CASE t # s
      BY <2>7, <3>1, <3>2 DEF PlayedOnce
    <3>3. CASE t = s
      <4>1. i \in 1 .. Len(keys) + 1 /\ j \in 1 .. Len(keys) + 1 /\ DOMAIN keys = 1 .. Len(keys)
        BY <2>6, <2>7, <3>3, LenProperties
      <4>2. i \in 1 .. Len(keys)
        BY <2>6, <3>1, <4>1
      <4>3. CASE j \in 1 .. Len(keys)
        <5>1. keys[i] = keys[j] /\ KeyOf[q] = keys[i]
          BY <2>6, <2>7, <3>1, <3>3, <4>2, <4>3
        <5> QED BY <1>2, <2>1, <3>1, <4>1, <4>2, <4>3, <5>1 DEF PlayedOnce
      <4>4. CASE j = Len(keys) + 1
        <5>1. keys[i] = KeyOf[p] /\ KeyOf[q] = KeyOf[p]
          BY <2>6, <2>7, <3>1, <3>3, <4>2, <4>4
        <5>2. p \in Wire
          BY <5>1, ChessAssumption
        <5>3. \A n \in 1 .. Len(work.receipts) : work.receipts[n].key # KeyOf[p]
          BY <1>1, <1>2, <5>2 DEF OwnerInv
        <5>4. work.receipts \in Seq(Receipt)
          BY <2>2 DEF Sessions
        <5> QED BY <2>2, <4>2, <4>4, <5>1, <5>3, <5>4, NotAgain
      <4> QED BY <2>6, <4>1, <4>3, <4>4
    <3> QED BY <3>2, <3>3
  <2> QED BY <2>9, <2>10, <2>11, <2>12, <2>13, <2>14
<1> QED BY <1>3, <1>4, ExecuteStep

(* A step that saves nothing announces at most what was saved.             *)
LEMMA ChessRest ==
  ASSUME ChessInv, saved' = saved, log' = log, truth' = truth,
         told' = told \/ (told' = owner /\ reply = "turn"),
         ChessTypes', OwnerInv'
  PROVE  ChessInv'
<1>1. ToldIsSaved'
  BY DEF ChessInv, ToldIsSaved, OwnerInv
<1>2. (ReceiptsInv /\ PendingInv /\ PlayedOnce /\ ScoredOnce)'
  BY DEF ChessInv, ReceiptsInv, PendingInv, PlayedOnce, ScoredOnce
<1> QED BY <1>1, <1>2 DEF ChessInv

LEMMA ChessNext == ChessInv /\ [Next]_vars => ChessInv'
<1> SUFFICES ASSUME ChessInv, [Next]_vars PROVE ChessInv'
  OBVIOUS
<1>1. ASSUME NEW p \in Packet, Begin(p) PROVE ChessInv'
  BY <1>1, BeginKeeps
<1>2. ASSUME NEW p \in Packet, Execute(p) PROVE ChessInv'
  BY <1>2, ExecuteKeeps
<1>3. NoSession \in Sessions
  <2>1. NoTally \in Tally /\ << >> \in Seq(Receipt)
    BY EmptySeq DEF Tally, NoTally
  <2> QED BY <2>1 DEF NoSession, Sessions, Game, Request
<1>4. ChessTypes /\ OwnerInv
  BY DEF ChessInv
<1>5. ASSUME NEW p \in Packet, ExecuteFails(p) PROVE ChessInv'
  <2>1. ChessTypes' /\ OwnerInv'
    BY <1>3, <1>4, <1>5, ChessAssumption DEF ChessTypes, OwnerInv, ExecuteFails
  <2> QED BY ChessRest, <1>5, <2>1 DEF ExecuteFails
<1>6. ASSUME NEW p \in Packet, Send(p) PROVE ChessInv'
  <2>1. ChessTypes' /\ OwnerInv'
    BY <1>4, <1>6 DEF ChessTypes, OwnerInv, Send
  <2> QED BY ChessRest, <1>6, <2>1 DEF Send
<1>7. CASE Abandon
  <2>1. ChessTypes' /\ OwnerInv'
    BY <1>3, <1>4, <1>7 DEF ChessTypes, OwnerInv, Abandon
  <2> QED BY ChessRest, <1>7, <2>1 DEF Abandon
<1>8. CASE Tick
  <2>1. now' \in Nat
    BY <1>4, <1>8 DEF ChessTypes, Tick
  <2>2. ChessTypes' /\ OwnerInv'
    BY <1>4, <1>8, <2>1 DEF ChessTypes, OwnerInv, Tick
  <2> QED BY ChessRest, <1>8, <2>2 DEF Tick
<1>9. CASE UNCHANGED vars
  <2>1. ChessTypes' /\ OwnerInv'
    BY <1>4, <1>9 DEF ChessTypes, OwnerInv, vars
  <2> QED BY ChessRest, <1>9, <2>1 DEF vars
<1> QED BY <1>1, <1>2, <1>5, <1>6, <1>7, <1>8, <1>9 DEF Next

THEOREM ChessInvariant == Spec => []ChessInv
BY ChessInit, ChessNext, PTL DEF Spec

(* No wire packet is played again unless as many saved commands as         *)
(* receipts are kept came after it, for any packets and any number of      *)
(* copies of them (respond, save_chess).                                   *)
THEOREM PlayedOnceAlways == Spec => []PlayedOnce
<1>1. ChessInv => PlayedOnce
  BY DEF ChessInv
<1> QED BY <1>1, ChessInvariant, PTL

(* The score is what was won, lost and drawn (_outcome, respond).          *)
THEOREM ScoredOnceAlways == Spec => []ScoredOnce
<1>1. ChessInv => ScoredOnce
  BY DEF ChessInv
<1> QED BY <1>1, ChessInvariant, PTL

(* A turn that was transmitted was committed before.                       *)
THEOREM ToldIsSavedAlways == Spec => []ToldIsSaved
<1>1. ChessInv => ToldIsSaved
  BY DEF ChessInv
<1> QED BY <1>1, ChessInvariant, PTL

(* No step gives up a game under way, unless its player confirmed in time  *)
(* a restart asked for at this position (new, confirm).                    *)
THEOREM NoSilentRestartAlways == Spec => NoSilentRestart
<1> DEFINE Body ==
      \A s \in Player :
        LET old == saved[s]
            new == saved'[s]
        IN  Playing(old.game) /\ new.game # old.game /\ new.game.moves <= 1 /\ Playing(new.game)
              => \/ new.game.moves > old.game.moves
                 \/ /\ old.pending # NoRequest
                    /\ now - old.pending.at <= ConfirmWindow
                    /\ old.pending.moves = old.game.moves
<1>1. ChessInv /\ [Next]_vars => Body
  <2> SUFFICES ASSUME ChessInv, [Next]_vars, NEW t \in Player, saved'[t].game # saved[t].game,
                      Playing(saved[t].game), saved'[t].game.moves <= 1, Playing(saved'[t].game)
               PROVE  \/ saved'[t].game.moves > saved[t].game.moves
                      \/ /\ saved[t].pending # NoRequest
                         /\ now - saved[t].pending.at <= ConfirmWindow
                         /\ saved[t].pending.moves = saved[t].game.moves
    BY Zenon
  <2>1. PICK p \in Packet : Execute(p)
    BY DEF Next, vars, Begin, ExecuteFails, Send, Abandon, Tick
  <2>2. PICK x : /\ Follows(p, work, x) /\ NotRestarted(work, x) /\ work = saved[SenderOf[p]]
                 /\ saved' = [saved EXCEPT ![SenderOf[p]] = WithReceipt(Scored(work, x), p)]
    BY <2>1, ExecuteStep
  <2>3. t = SenderOf[p] /\ saved[t] \in Sessions /\ now \in Nat /\ log[t] \in Seq(Key) /\ work \in Sessions
    BY <2>2 DEF ChessInv, ChessTypes
  <2>4. EndOf(work.receipts, log[t])
    BY <2>2, <2>3 DEF ChessInv, ReceiptsInv
  <2>5. WithReceipt(Scored(work, x), p).game = x.game
    BY <2>2, <2>3, <2>4, SavedGame
  <2>6. saved'[t].game = x.game
    BY <2>2, <2>3, <2>5 DEF ChessInv, ChessTypes
  <2> QED BY <2>2, <2>3, <2>6 DEF NotRestarted, ChessInv, PendingInv, AtPosition
<1>2. Spec => [][Body]_vars
  BY <1>1, ChessInvariant, PTL DEF Spec
<1> QED BY <1>2 DEF NoSilentRestart

=============================================================================

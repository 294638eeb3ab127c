----------------------------- MODULE ChessGames -----------------------------
(***************************************************************************)
(* The games of the chess channel: bot/chess_game.py, its table in         *)
(* bot/storage.py and the handler in bot/service.py.  A packet may arrive  *)
(* more than once and late; the engine may fail, the save may fail, and    *)
(* the bot may crash anywhere.                                             *)
(*                                                                         *)
(* A position is the number of moves played; what a move does to the game  *)
(* is any of its possible outcomes.                                        *)
(***************************************************************************)
EXTENDS Integers, SequencesExt, FiniteSetsExt

CONSTANTS
  Player,
  Packet,
  SenderOf,
  KeyOf,          (* the receipt's key: text, and timestamp if there is one *)
  CommandOf,      (* "new", "confirm", "cancel", "look", "move", "resign", *)
                  (* "draw"; "look" is every command that changes nothing  *)
                  (* but the level                                         *)
  ColorOf,        (* the color that a "new" asks for                       *)
  Wire,           (* the packets that have a timestamp                     *)
  None,
  ReceiptLimit,   (* receipts kept: 128                                    *)
  RepeatWindow,   (* 30 s, for packets without a timestamp                 *)
  ConfirmWindow,  (* 120 s                                                 *)
  MaxGames,
  CopiesOf,       (* bound: how often each packet arrives                  *)
  Horizon         (* bound of the clock                                    *)

Commands == {"new", "confirm", "cancel", "look", "move", "resign", "draw"}
Colors == {"white", "black"}

ASSUME ChessAssumption ==
  /\ SenderOf \in [Packet -> Player]
  /\ CommandOf \in [Packet -> Commands] /\ ColorOf \in [Packet -> Colors]
  /\ Wire \subseteq Packet
  /\ \A p \in Wire, q \in Packet : KeyOf[p] = KeyOf[q] => q \in Wire
  /\ None \notin Packet
  /\ ReceiptLimit \in Nat \ {0} /\ RepeatWindow \in Nat /\ ConfirmWindow \in Nat
  /\ MaxGames \in Nat /\ CopiesOf \in [Packet -> Nat] /\ Horizon \in Nat

VARIABLES
  now,
  saved,    (* the chess_games table: a session of each player             *)
  owner,    (* the packet in `respond', between admission and reply        *)
  work,     (* its copy of the session                                     *)
  reply,    (* what will be sent: None, "turn" or "text"                   *)
  copies,   (* how often each packet has arrived                           *)
  log,      (* history: the keys of the commands saved for each player     *)
  truth,    (* history: the games ended, by who really won them            *)
  told      (* history: the packet whose turn was just transmitted         *)

vars == <<now, saved, owner, work, reply, copies, log, truth, told>>

Tally == [you : Nat, me : Nat, draws : Nat]
NoTally == [you |-> 0, me |-> 0, draws |-> 0]
NoGame == [color |-> "none", moves |-> 0, result |-> ""]
NoRequest == [color |-> "none", at |-> 0, moves |-> 0]
NoSession == [game |-> NoGame, pending |-> NoRequest, receipts |-> << >>, score |-> NoTally]

Init ==
  /\ now = 0
  /\ saved = [s \in Player |-> NoSession]
  /\ owner = None /\ work = NoSession /\ reply = "none"
  /\ copies = [p \in Packet |-> 0]
  /\ log = [s \in Player |-> << >>]
  /\ truth = [s \in Player |-> NoTally]
  /\ told = None

-----------------------------------------------------------------------------
Playing(g) == g # NoGame /\ g.result = ""
Turn(g) == IF g.moves % 2 = 0 THEN "white" ELSE "black"
Other(color) == IF color = "white" THEN "black" ELSE "white"

(* _outcome: the color in the result against the player's color.           *)
(* Mutant: White's wins are the player's.                                  *)
OutcomeWhite(g) ==
  CASE g.result = "draw" -> "draws" [] g.result = "white" -> "you" [] OTHER -> "me"

Outcome(g) ==
  CASE g.result = "draw" -> "draws" [] g.result = g.color -> "you" [] OTHER -> "me"

(* A receipt with the packet's key makes it a duplicate.                   *)
(* Mutant: only the last receipt is compared.                              *)
DuplicateOfLast(receipts, p) ==
  receipts # << >> /\ Last(receipts).key = KeyOf[p]

Duplicate(receipts, p) ==
  \E i \in DOMAIN receipts :
    /\ receipts[i].key = KeyOf[p]
    /\ p \in Wire \/ (i = Len(receipts) /\ now - receipts[i].at < RepeatWindow)

-----------------------------------------------------------------------------
(* _execute: what a command may do to a session                            *)

(* _new; with Black the engine opens the game.                             *)
NewGame(color) == [color |-> color, moves |-> IF color = "black" THEN 1 ELSE 0, result |-> ""]
Started(s, color) == [s EXCEPT !.game = NewGame(color), !.pending = NoRequest]

With(s, game) == [s EXCEPT !.game = game, !.pending = NoRequest]

(* Mutant: a running game is replaced at once.                             *)
NewStraightaway(s, p) == {Started(s, ColorOf[p])}

New(s, p) ==
  IF Playing(s.game)
    THEN {[s EXCEPT !.pending = [color |-> ColorOf[p], at |-> now, moves |-> s.game.moves]]}
    ELSE {Started(s, ColorOf[p])}

Confirm(s) ==
  IF s.pending = NoRequest \/ now - s.pending.at > ConfirmWindow
    THEN {[s EXCEPT !.pending = NoRequest]}
    ELSE {Started(s, s.pending.color)}

(* The player's move may end the game, and so may the engine's answer.     *)
Move(s) ==
  LET g == s.game
  IN  {With(s, [g EXCEPT !.moves = @ + 1, !.result = e]) : e \in {g.color, "draw"}}
        \cup {With(s, [g EXCEPT !.moves = @ + 2, !.result = e]) : e \in {"", Other(g.color), "draw"}}

Resign(s) == {With(s, [s.game EXCEPT !.result = Other(s.game.color)])}
Draw(s) == {s, With(s, [s.game EXCEPT !.result = "draw"])}

(* The sessions a command may lead to.  Without a game under way most      *)
(* commands only say so.                                                   *)
Executed(s, p) ==
  CASE CommandOf[p] = "new" -> New(s, p)
    [] CommandOf[p] = "confirm" -> Confirm(s)
    [] CommandOf[p] = "cancel" -> {[s EXCEPT !.pending = NoRequest]}
    [] CommandOf[p] = "move" /\ Playing(s.game) -> Move(s)
    [] CommandOf[p] = "resign" /\ Playing(s.game) -> Resign(s)
    [] CommandOf[p] = "draw" /\ Playing(s.game) -> Draw(s)
    [] OTHER -> {s}

(* Mutant: every result adds to the score, also that of an old game.       *)
ScoredAgain(old, new) ==
  IF new.game # NoGame /\ new.game.result # ""
    THEN [new EXCEPT !.score[Outcome(new.game)] = @ + 1] ELSE new

(* A game that ended with this command is scored; a replaced one is not.   *)
Scored(old, new) ==
  IF Playing(old.game) /\ new.game # NoGame /\ new.game.result # ""
    THEN [new EXCEPT !.score[Outcome(new.game)] = @ + 1] ELSE new

WithReceipt(s, p) ==
  LET receipts == Append(s.receipts, [key |-> KeyOf[p], at |-> now])
  IN  [s EXCEPT !.receipts =
         IF Len(receipts) > ReceiptLimit THEN Tail(receipts) ELSE receipts]

-----------------------------------------------------------------------------
(* respond, under its lock *)

Begin(p) ==
  /\ owner = None /\ copies[p] < CopiesOf[p]
  /\ copies' = [copies EXCEPT ![p] = @ + 1]
  /\ IF Duplicate(saved[SenderOf[p]].receipts, p)
       THEN UNCHANGED <<owner, work>>
       ELSE owner' = p /\ work' = saved[SenderOf[p]]
  /\ told' = None
  /\ UNCHANGED <<now, saved, reply, log, truth>>

Games == {s \in Player : saved[s] # NoSession}

(* save_chess refuses a new player when the table is full.                 *)
Room(s) == s \in Games \/ Cardinality(Games) < MaxGames

(* Who really won a game that ends with the packet's command.              *)
Winner(p, old, new) ==
  CASE new.result = "draw" -> "draws"
    [] CommandOf[p] = "resign" -> "me"
    [] new.moves = old.moves + 1 -> "you"
    [] OTHER -> "me"

(* The command succeeded and is saved, if there is anything to save.       *)
Execute(p) ==
  LET s == SenderOf[p]
  IN  /\ owner = p /\ reply = "none"
      /\ \E new \in {Scored(work, x) : x \in Executed(work, p)} :
           LET changed == CommandOf[p] = "new" \/ new # work
               save == changed \/ work.game # NoGame
           IN  /\ save => Room(s)
               /\ saved' = IF save THEN [saved EXCEPT ![s] = WithReceipt(new, p)] ELSE saved
               /\ log' = IF save THEN [log EXCEPT ![s] = Append(@, KeyOf[p])] ELSE log
               /\ truth' = IF Playing(work.game) /\ new.game.result # ""
                             THEN [truth EXCEPT ![s][Winner(p, work.game, new.game)] = @ + 1]
                             ELSE truth
               /\ reply' = IF new.game # work.game THEN "turn" ELSE "text"
      /\ work' = NoSession
      /\ UNCHANGED <<now, owner, copies, told>>

(* An illegal move, an engine that fails, a reply that does not fit, a     *)
(* save that fails or is refused: the player is told, nothing is saved.    *)
ExecuteFails(p) ==
  /\ owner = p /\ reply = "none"
  /\ reply' = "text" /\ work' = NoSession
  /\ UNCHANGED <<now, saved, owner, copies, log, truth, told>>

(* Mutant: a turn may be announced before it is saved.                     *)
SendUnsaved(p) ==
  /\ owner = p
  /\ owner' = None /\ reply' = "none" /\ work' = NoSession
  /\ told' = IF CommandOf[p] = "move" THEN p ELSE told
  /\ UNCHANGED <<now, saved, copies, log, truth>>

(* The reply is transmitted.                                               *)
Send(p) ==
  /\ owner = p /\ reply # "none"
  /\ owner' = None /\ reply' = "none"
  /\ told' = IF reply = "turn" THEN p ELSE told
  /\ UNCHANGED <<now, saved, work, copies, log, truth>>

(* A crash and a restart, a cancelled request, a reply that the queue or   *)
(* the radio drops: only what is saved remains.                            *)
Abandon ==
  /\ owner # None
  /\ owner' = None /\ reply' = "none" /\ work' = NoSession
  /\ UNCHANGED <<now, saved, copies, log, truth, told>>

Tick ==
  /\ now < Horizon
  /\ now' = now + 1
  /\ UNCHANGED <<saved, owner, work, reply, copies, log, truth, told>>

Next ==
  \/ \E p \in Packet : Begin(p) \/ Execute(p) \/ ExecuteFails(p) \/ Send(p)
  \/ Abandon \/ Tick

Spec == Init /\ [][Next]_vars

-----------------------------------------------------------------------------
Session(s) ==
  /\ s.game = NoGame \/ s.game \in [color : Colors, moves : Nat, result : {"", "white", "black", "draw"}]
  /\ s.pending = NoRequest \/ s.pending \in [color : Colors, at : Nat, moves : Nat]
  /\ Len(s.receipts) <= ReceiptLimit
  /\ s.score \in Tally

TypeOK ==
  /\ now \in Nat
  /\ \A s \in Player : Session(saved[s])
  /\ owner \in Packet \cup {None} /\ Session(work)
  /\ reply \in {"none", "turn", "text"}
  /\ told \in Packet \cup {None}
  /\ Cardinality(Games) <= MaxGames

(* No packet is executed again, however often and late it arrives and      *)
(* whatever crashes in between, unless its receipt had to make room for    *)
(* others (respond, save_chess: game and receipt are one transaction).     *)
PlayedOnce ==
  \A s \in Player :
    \A i, j \in DOMAIN log[s] :
      i < j /\ log[s][i] = log[s][j] /\ (\E p \in Wire : KeyOf[p] = log[s][i])
        => j - i > ReceiptLimit

(* Every game that ended is scored once, for the side that won it; a game  *)
(* that was replaced is not scored (_outcome, respond).                    *)
ScoredOnce == \A s \in Player : saved[s].score = truth[s]

(* What the player was told is saved: a turn is announced only after the   *)
(* commit that a restart will find.                                        *)
ToldIsSaved == told # None => Contains(log[SenderOf[told]], KeyOf[told])

(* A game under way is given up only for a restart that its player asked   *)
(* for at this very position and confirmed in time (new, confirm, the      *)
(* resets of `pending').                                                   *)
NoSilentRestart ==
  [][\A s \in Player :
       LET old == saved[s]
           new == saved'[s]
       IN  Playing(old.game) /\ new.game # old.game /\ new.game.moves <= 1 /\ Playing(new.game)
             => \/ new.game.moves > old.game.moves
                \/ /\ old.pending # NoRequest
                   /\ now - old.pending.at <= ConfirmWindow
                   /\ old.pending.moves = old.game.moves]_vars

=============================================================================

--------------------------- MODULE ScheduledPosts ---------------------------
(***************************************************************************)
(* What the bot says unasked, and by the clock: usage tips                 *)
(* (bot/usage_tips.py), the daily fortune (bot/fortune.py), the welcome    *)
(* and the end of a chosen voice (bot/service.py).  On top of BotRuns: a   *)
(* run may end at any time and the next one begin, with only the database  *)
(* to tell it what was said.                                               *)
(*                                                                         *)
(* A step is at most what happens between two awaits, or between two       *)
(* commits to the database.  How a post gets its turn on the radio is      *)
(* ReplyQueue's; here an attempt is made, or the post ends without one.    *)
(* Time is local time, in units of which DayLength make a day; the sleep   *)
(* of a computer is a scheduler that wakes late.                           *)
(***************************************************************************)
EXTENDS BotRuns, SequencesExt, Bags

CONSTANTS
  DayLength, Morning, Evening,  (* tips_morning_time, tips_evening_time    *)
  FortuneTime,
  Jitter, Window, Cutoff,       (* .._jitter_min, tips_window_min, fortune_cutoff_min *)
  Winter,     (* when the clocks are set back, by two units of one day     *)
  Tip,
  TopicOf,    (* weather, sports, traffic, or broad                        *)
  Topics,     (* the order in which the practical ones take turns          *)
  Recent,     (* how many examples a pool keeps when it starts over: 10    *)
  Voice, Default,
  Timeout     (* persona_timeout_min                                       *)

ASSUME PostsAssumption ==
  /\ None \notin Nat
  /\ DayLength \in Nat \ {0} /\ {Morning, Evening, FortuneTime} \subseteq 0 .. DayLength - 1
  /\ Jitter \in Nat /\ Morning + Jitter < Evening
  /\ Winter \in Nat \ {0, 1} /\ (Winter - 2) \div DayLength = (Winter - 1) \div DayLength
  /\ Window \in Nat \ {0} /\ Cutoff \in Nat /\ Recent \in Nat /\ Timeout \in Nat \ {0}
  /\ TopicOf \in [Tip -> ToSet(Topics) \cup {"broad"}] /\ Default \in Voice
  (* Where the help pages fit, as they must, some broad examples do too.   *)
  /\ \A w \in Worlds : /\ w.tips \subseteq Tip /\ IsFiniteSet(w.tips)
                       /\ \E t \in w.tips : TopicOf[t] = "broad"

VARIABLES
  now, fold,   (* local time; fold in the hour that is repeated            *)
  turned,      (* the clock was set back, which happens once               *)
  rested,      (* time has passed since a service ran                      *)
  db,          (* the tables usage_tips and startup_welcome                *)
  failures,
  tip, fortune, welcome, voice,  (* the schedulers and timers of each run  *)
  attempts,    (* history: what was put on the air, and how often          *)
  shown,       (* history: the tips chosen, and whether they were sent     *)
  chosen       (* history: when each run's voice was last chosen           *)

clock == <<now, fold, turned>>
posts == <<db, failures, tip, fortune, welcome, voice, attempts, shown, chosen>>
vars == <<runs, clock, rested, posts>>

NoTip == [at |-> "off", next |-> None, last |-> None, used |-> << >>]
NoFortune == [at |-> "off", next |-> None, day |-> None]
NoWelcome == [n \in 1 .. Len(world.keys) |-> "off"]
NoVoice == [name |-> Default, until |-> None, timer |-> "none"]

Init ==
  /\ RunsInit
  /\ now = 0 /\ fold = FALSE /\ turned = FALSE /\ rested = TRUE
  /\ db = [slot |-> None, used |-> << >>, welcomed |-> {}]
  /\ failures = 0
  /\ tip = [p \in Process |-> NoTip]
  /\ fortune = [p \in Process |-> NoFortune]
  /\ welcome = [p \in Process |-> NoWelcome]
  /\ voice = [p \in Process |-> NoVoice]
  /\ attempts = EmptyBag /\ shown = << >>
  /\ chosen = [p \in Process |-> None]

-----------------------------------------------------------------------------
(* The clock *)

Day(t) == t \div DayLength
Hour(t) == t % DayLength
Midnight(t) == (Day(t) + 1) * DayLength

(* Mutant: the day is chosen by the slot, with a new offset.               *)
NextFireRolled(t, repeated, base) ==
  LET Slots(d) == (Day(t) + d) * DayLength + base .. (Day(t) + d) * DayLength + base + Jitter
      coming(d) == {s \in Slots(d) : s > t /\ ~(d = 0 /\ repeated)}
  IN  IF coming(0) # {} THEN coming(0) ELSE coming(1)

(* next_fire: the day is chosen by the configured time, then the offset    *)
(* within it; nothing is planned in the repeated hour for its own day.     *)
NextFire(t, repeated, base) ==
  LET At(d) == (Day(t) + d) * DayLength + base
      d == CHOOSE n \in 0 .. 2 : /\ At(n) >= t /\ ~(n = 0 /\ repeated)
                                 /\ \A m \in 0 .. n - 1 : At(m) < t \/ (m = 0 /\ repeated)
      latest == IF At(d) + Jitter < Midnight(At(d)) THEN At(d) + Jitter ELSE Midnight(At(d)) - 1
  IN  At(d) .. latest

(* A start and an end of a run do not look at the time: it passes between  *)
(* runs, while the radio's port is opened, and while a run serves.  A      *)
(* scheduler plans its next slot without an await.                         *)
Tick ==
  /\ now < world.until
  /\ \A p \in Process : phase[p] \in Serving \cup {"off", "gone", "older", "connecting", "waiting"}
  /\ \A p \in Process : "idle" \notin {tip[p].at, fortune[p].at}
  /\ world.clock = "winter" => turned \/ now + 1 # Winter
  /\ now' = now + 1
  /\ fold' = (fold /\ now + 1 < Winter)
  /\ rested' = TRUE
  /\ UNCHANGED <<runs, turned, posts>>

(* The end of summer time, or a clock that was wrong.                      *)
TurnBack ==
  /\ ~turned /\ turned' = TRUE
  /\ \/ world.clock = "winter" /\ now + 1 = Winter /\ now' = Winter - 2 /\ fold' = TRUE
     \/ world.clock = "corrected" /\ now > 0 /\ now' = now - 1 /\ UNCHANGED fold
  /\ rested' = (rested \/ world.clock = "winter")
  /\ UNCHANGED <<runs, posts>>

Transmits(key) == attempts' = attempts (+) SetToBag({key})

-----------------------------------------------------------------------------
(* Usage tips *)

TipGoes(p, t) == tip' = [tip EXCEPT ![p] = t]

(* save_usage_tips, if the channel has a database.                         *)
Saved(slot, used) ==
  /\ db' = IF world.db THEN [db EXCEPT !.slot = slot, !.used = used] ELSE db
  /\ UNCHANGED failures

SaveFails ==
  /\ world.db /\ failures < world.failures
  /\ failures' = failures + 1
  /\ UNCHANGED db

(* _run: the slot after the last one, whatever the clock says.             *)
TipSchedule(p) ==
  LET t == tip[p]
      behind == t.last # None /\ now <= t.last
      from == IF behind THEN t.last + 1 ELSE now
      slots(base) == NextFire(from, fold /\ ~behind, base)
  IN  /\ t.at = "idle"
      /\ \E m \in slots(Morning), e \in slots(Evening) :
           TipGoes(p, [t EXCEPT !.at = "asleep", !.next = IF m < e THEN m ELSE e])
      /\ UNCHANGED <<runs, clock, rested, db, failures, fortune, welcome, voice, attempts, shown, chosen>>

(* eligible                                                                *)
Eligible(slot) ==
  /\ slot <= now /\ now < slot + Window
  /\ Day(now) = Day(slot) /\ ~fold

(* fire: the slot is claimed, first in memory and then on disk.            *)
TipFire(p) ==
  LET t == tip[p]
  IN  /\ t.at = "asleep" /\ now >= t.next
      /\ IF t.last # None /\ t.next <= t.last
           THEN TipGoes(p, [t EXCEPT !.at = "idle"]) /\ UNCHANGED <<db, failures>>
           ELSE \/ Saved(t.next, t.used) /\ TipGoes(p, [t EXCEPT !.last = t.next, !.at = "trying"])
                \/ SaveFails /\ TipGoes(p, [t EXCEPT !.last = t.next, !.at = "idle"])
      /\ UNCHANGED <<runs, clock, rested, fortune, welcome, voice, attempts, shown, chosen>>

(* examples: what fits the settings.                                       *)
Examples == world.tips
Broad == {t \in Examples : TopicOf[t] = "broad"}

(* The topic after that of the last practical example.                     *)
NextTopic(used) ==
  LET present == SelectSeq(Topics, LAMBDA k : \E t \in Examples : TopicOf[t] = k)
      before == SelectSeq(used, LAMBDA t : TopicOf[t] # "broad")
      i == CHOOSE n \in DOMAIN present : present[n] = TopicOf[Last(before)]
  IN  IF before = << >> THEN Head(present) ELSE present[(i % Len(present)) + 1]

Pool(slot, used) ==
  IF Hour(slot) < Evening /\ Broad # Examples THEN {t \in Examples : TopicOf[t] = NextTopic(used)}
  ELSE IF Broad # {} THEN Broad ELSE Examples

(* What of a sequence is in a set, in its order.                           *)
Only(s, S) ==
  LET at == {i \in DOMAIN s : s[i] \in S}
  IN  [n \in 1 .. Cardinality(at) |-> s[CHOOSE i \in at : Cardinality({j \in at : j <= i}) = n]]

(* Mutant: a pool that is used up starts over with all its examples.       *)
RecycledAll(pool, used) ==
  IF pool \subseteq ToSet(used) THEN Only(used, ToSet(used) \ pool) ELSE used

(* A pool that is used up keeps only its recent examples as used.          *)
Recycled(pool, used) ==
  LET mine == Only(used, pool)
      kept == IF Recent < Cardinality(pool) THEN Recent ELSE Cardinality(pool) - 1
      recent == {mine[n] : n \in Len(mine) - kept + 1 .. Len(mine)}
  IN  IF pool \subseteq ToSet(used) THEN Only(used, (ToSet(used) \ pool) \cup recent) ELSE used

(* A quiet moment: an example is chosen and noted as used.                 *)
TipChoose(p) ==
  LET t == tip[p]
      pool == Pool(t.next, t.used)
      before == Recycled(pool, t.used)
  IN  /\ t.at = "trying" /\ Eligible(t.next)
      /\ \E x \in pool \ ToSet(before) :
           LET used == Append(before, x)
           IN  /\ \/ Saved(t.last, used) /\ TipGoes(p, [t EXCEPT !.used = used, !.at = "claimed"])
                  \/ SaveFails /\ TipGoes(p, [t EXCEPT !.used = used, !.at = "idle"])
               /\ shown' = Append(shown, [tip |-> x, sent |-> FALSE])
      /\ UNCHANGED <<runs, clock, rested, fortune, welcome, voice, attempts, chosen>>

(* post_usage_tip gets to the radio, which may or may not send it.         *)
TipPost(p) ==
  LET t == tip[p]
  IN  /\ t.at = "claimed" /\ Eligible(t.next)
      /\ TipGoes(p, [t EXCEPT !.at = "idle"])
      /\ Transmits(<<"tip", Day(t.next), Hour(t.next) < Evening>>)
      /\ shown' = [shown EXCEPT ![Len(shown)].sent = TRUE]
      /\ UNCHANGED <<runs, clock, rested, db, failures, fortune, welcome, voice, chosen>>

(* No quiet moment in the window, or the radio is not free after all.      *)
TipPasses(p) ==
  LET t == tip[p]
  IN  /\ t.at = "claimed" \/ (t.at = "trying" /\ ~Eligible(t.next))
      /\ TipGoes(p, [t EXCEPT !.at = "idle"])
      /\ UNCHANGED <<runs, clock, rested, db, failures, fortune, welcome, voice, attempts, shown, chosen>>

-----------------------------------------------------------------------------
(* The fortune *)

FortuneGoes(p, f) == fortune' = [fortune EXCEPT ![p] = f]

FortuneSchedule(p) ==
  LET f == fortune[p]
      behind == f.day # None /\ Day(now) <= f.day
      from == IF behind THEN (f.day + 1) * DayLength ELSE now
  IN  /\ f.at = "idle"
      /\ \E s \in NextFire(from, fold /\ ~behind, FortuneTime) :
           FortuneGoes(p, [f EXCEPT !.at = "asleep", !.next = s])
      /\ UNCHANGED <<runs, clock, rested, db, failures, tip, welcome, voice, attempts, shown, chosen>>

(* fire; the day is only claimed in memory.                                *)
FortuneFire(p) ==
  LET f == fortune[p]
  IN  /\ f.at = "asleep" /\ now >= f.next
      /\ FortuneGoes(p, IF f.day # None /\ Day(f.next) <= f.day THEN [f EXCEPT !.at = "idle"]
                        ELSE [f EXCEPT !.day = Day(f.next), !.at = "trying"])
      /\ UNCHANGED <<runs, clock, rested, db, failures, tip, welcome, voice, attempts, shown, chosen>>

(* can_send                                                                *)
CanSend(slot) ==
  /\ slot <= now /\ now <= slot + Cutoff
  /\ Day(now) = Day(slot) /\ ~fold

(* post_generated sends what the model wrote, in the time it has left.     *)
FortunePost(p) ==
  LET f == fortune[p]
  IN  /\ f.at = "trying" /\ CanSend(f.next)
      /\ FortuneGoes(p, [f EXCEPT !.at = "idle"])
      /\ Transmits(<<"fortune", Day(f.next)>>)
      /\ UNCHANGED <<runs, clock, rested, db, failures, tip, welcome, voice, shown, chosen>>

(* It is too late, or an outcome that is not tried again; after a busy     *)
(* radio or a failed model it stays "trying".                              *)
FortunePasses(p) ==
  LET f == fortune[p]
  IN  /\ f.at = "trying"
      /\ FortuneGoes(p, [f EXCEPT !.at = "idle"])
      /\ UNCHANGED <<runs, clock, rested, db, failures, tip, welcome, voice, attempts, shown, chosen>>

-----------------------------------------------------------------------------
(* The welcome of a channel *)

WelcomeGoes(p, n, to) == welcome' = [welcome EXCEPT ![p][n] = to]

(* before_send, when the message is about to leave.                        *)
WelcomeClaim(p, n) ==
  /\ welcome[p][n] = "waiting"
  /\ IF n \in db.welcomed THEN WelcomeGoes(p, n, "off") /\ UNCHANGED <<db, failures>>
     ELSE \/ WelcomeGoes(p, n, "claimed") /\ UNCHANGED failures
             /\ db' = [db EXCEPT !.welcomed = @ \cup {n}]
          \/ WelcomeGoes(p, n, "off") /\ SaveFails
  /\ UNCHANGED <<runs, clock, rested, tip, fortune, voice, attempts, shown, chosen>>

WelcomePost(p, n) ==
  /\ welcome[p][n] = "claimed"
  /\ WelcomeGoes(p, n, "off")
  /\ Transmits(<<"welcome", n>>)
  /\ UNCHANGED <<runs, clock, rested, db, failures, tip, fortune, voice, shown, chosen>>

(* The radio is busy or paused for too long.                               *)
WelcomePasses(p, n) ==
  /\ welcome[p][n] = "waiting"
  /\ WelcomeGoes(p, n, "off")
  /\ UNCHANGED <<runs, clock, rested, db, failures, tip, fortune, voice, attempts, shown, chosen>>

-----------------------------------------------------------------------------
(* The voice *)

VoiceGoes(p, v) == voice' = [voice EXCEPT ![p] = v]

(* Mutant: the timer that announces a reset goes on.                       *)
ChooseBeside(p, v) ==
  /\ phase[p] = "up" /\ "voice" \in world.does
  /\ VoiceGoes(p, IF v = Default THEN NoVoice
                  ELSE IF voice[p].timer = "announcing" THEN [voice[p] EXCEPT !.name = v]
                  ELSE [name |-> v, until |-> now + Timeout, timer |-> "asleep"])
  /\ chosen' = [chosen EXCEPT ![p] = now]
  /\ UNCHANGED <<runs, clock, rested, db, failures, tip, fortune, welcome, attempts, shown>>

(* _switch_persona, by the command of anyone: the timer begins anew.       *)
Choose(p, v) ==
  /\ phase[p] = "up" /\ "voice" \in world.does
  /\ VoiceGoes(p, IF v = Default THEN NoVoice
                  ELSE [name |-> v, until |-> now + Timeout, timer |-> "asleep"])
  /\ chosen' = [chosen EXCEPT ![p] = now]
  /\ UNCHANGED <<runs, clock, rested, db, failures, tip, fortune, welcome, attempts, shown>>

(* _persona_timer: the voice is reset, then the channel is told.           *)
Expire(p) ==
  /\ voice[p].timer = "asleep" /\ now >= voice[p].until
  /\ VoiceGoes(p, [NoVoice EXCEPT !.timer = "announcing"])
  /\ UNCHANGED <<runs, clock, rested, db, failures, tip, fortune, welcome, attempts, shown, chosen>>

AnnounceReset(p) ==
  /\ voice[p].timer = "announcing"
  /\ VoiceGoes(p, [voice[p] EXCEPT !.timer = "none"])
  /\ UNCHANGED <<runs, clock, rested, db, failures, tip, fortune, welcome, attempts, shown, chosen>>

-----------------------------------------------------------------------------
(* Runs begin and end *)

(* The schedulers that a channel starts with.  The tables are read; if     *)
(* that of the tips cannot be, there are none in this run.                 *)
BeginPosts(p) ==
  LET n == begun[p] + 1
      restored == [at |-> "idle", next |-> None, last |-> db.slot, used |-> db.used]
  IN  /\ Begin(p) /\ rested
      /\ IF n = 1 /\ "tips" \in world.does
           THEN \/ TipGoes(p, restored) /\ UNCHANGED failures
                \/ SaveFails /\ UNCHANGED tip
           ELSE UNCHANGED <<tip, failures>>
      /\ fortune' = IF n = 1 /\ "fortune" \in world.does
                      THEN [fortune EXCEPT ![p].at = "idle"] ELSE fortune
      /\ welcome' = IF "welcome" \in world.does /\ n \notin db.welcomed
                      THEN [welcome EXCEPT ![p][n] = "waiting"] ELSE welcome
      /\ UNCHANGED <<clock, rested, db, voice, attempts, shown, chosen>>

(* Every other step of a run: what it leaves or loses is forgotten.        *)
PostsFollow ==
  LET serves == {p \in Process : phase'[p] \in Serving}
  IN  /\ tip' = [p \in Process |-> IF p \in serves THEN tip[p] ELSE NoTip]
      /\ fortune' = [p \in Process |-> IF p \in serves THEN fortune[p] ELSE NoFortune]
      /\ welcome' = [p \in Process |-> IF p \in serves THEN welcome[p] ELSE NoWelcome]
      /\ voice' = [p \in Process |-> IF p \in serves THEN voice[p] ELSE NoVoice]
      /\ chosen' = [p \in Process |-> IF p \in serves THEN chosen[p] ELSE None]
      /\ rested' = (rested /\ \A p \in Process : phase[p] \in Serving => p \in serves)
      /\ UNCHANGED <<clock, db, failures, attempts, shown>>

Posts(p) ==
  \/ TipSchedule(p) \/ TipFire(p) \/ TipChoose(p) \/ TipPost(p) \/ TipPasses(p)
  \/ FortuneSchedule(p) \/ FortuneFire(p) \/ FortunePost(p) \/ FortunePasses(p)
  \/ \E n \in 1 .. Len(world.keys) : WelcomeClaim(p, n) \/ WelcomePost(p, n) \/ WelcomePasses(p, n)
  \/ \E v \in Voice : Choose(p, v)
  \/ Expire(p) \/ AnnounceReset(p)

Next ==
  \/ RunsNext /\ PostsFollow
  \/ \E p \in Process : BeginPosts(p) \/ Posts(p)
  \/ Tick \/ TurnBack

Spec == Init /\ [][Next]_vars

(* The loop that waits for the lock polls it and looks at the time.        *)
FairSpec ==
  /\ Spec
  /\ WF_vars(Wait /\ ChannelsFollow /\ PostsFollow)
  /\ \A p \in Process : WF_vars((Lock(p) \/ Refuse(p)) /\ ChannelsFollow /\ PostsFollow)

-----------------------------------------------------------------------------
PostsTypeOK ==
  /\ phase \in [Process -> Phases] /\ {lock, record} \subseteq Process \cup {None}
  /\ waited \in [Process -> 0 .. Refusal] /\ term \subseteq Process
  /\ \A p \in Process : targets[p] \subseteq Process \ {p} /\ begun[p] <= prepared[p]
  /\ radio \subseteq Process /\ now \in 0 .. world.until /\ (fold => turned)
  /\ ToSet(db.used) \subseteq Tip /\ IsInjective(db.used)
  /\ \A p \in Process :
       /\ tip[p].at \in {"off", "idle", "asleep", "trying", "claimed"}
       /\ fortune[p].at \in {"off", "idle", "asleep", "trying"}
       /\ voice[p].name \in Voice /\ voice[p].timer \in {"none", "asleep", "announcing"}
       /\ phase[p] \notin Serving => tip[p] = NoTip /\ fortune[p] = NoFortune /\ voice[p] = NoVoice

(* At most one attempt on the air is made for a slot of the tips, for the  *)
(* fortune of a day and for the welcome of a channel: over runs that end   *)
(* or crash between a claim and its attempt, commits that fail, a clock    *)
(* that is corrected (tips) and the repeated hour of the end of summer     *)
(* time (next_fire, fire of both schedulers, claim_welcome).               *)
AttemptedOnce == \A key \in DOMAIN attempts : attempts[key] = 1

(* An example is not sent again before each other one of its pool, or ten  *)
(* of them, had its turn: also after a send that failed, a failed commit   *)
(* or a restart (Recycled, the save before post_usage_tip).                *)
TipsRotate ==
  world.db => \A i, j \in DOMAIN shown :
    LET pool == {t \in Examples : TopicOf[t] = TopicOf[shown[i].tip]}
        between == {shown[k].tip : k \in i + 1 .. j - 1} \cap pool
    IN  i < j /\ shown[i].tip = shown[j].tip /\ shown[i].sent /\ shown[j].sent
          => pool \subseteq between \cup {shown[i].tip} \/ Cardinality(between) >= Recent

(* The channel is told that the voice is the usual one again only while it *)
(* is, and a voice is reset only when the time of its last choice is up:   *)
(* whoever chooses a voice while the timer wakes, or while its message     *)
(* waits for the radio, is not overruled (_switch_persona,                 *)
(* _start_persona_timer, _persona_timer).                                  *)
VoiceKept ==
  [][\A p \in Process :
       /\ AnnounceReset(p) => voice[p].name = Default
       /\ Expire(p) => now >= chosen[p] + Timeout]_vars

=============================================================================

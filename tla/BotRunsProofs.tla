---------------------------- MODULE BotRunsProofs ----------------------------
(***************************************************************************)
(* One process has the radio, one that waits for it is spared, and what    *)
(* the runs post is attempted once, in turn and in the right voice: for    *)
(* any processes, any order of starts, signals, kills and crashes, and any *)
(* number of runs.                                                         *)
(***************************************************************************)
EXTENDS ScheduledPosts, FiniteSetTheorems, SequenceTheorems, TLAPS

(* The phases in which a process has the lock; in some of them it may have *)
(* the radio, and has made sure that no older version is there.            *)
WithLock == {"locked", "clearing", "connecting", "preparing", "up", "stopping", "leaving"}
Alone == {"connecting", "preparing", "up", "stopping"}

LockInv ==
  /\ phase \in [Process -> Phases]
  /\ \A p \in Process : phase[p] \in WithLock => lock = p

RadioInv ==
  /\ LockInv
  /\ world \in Worlds
  /\ \A p \in Process : phase[p] = "older" => p \in world.older
  /\ \A p, q \in Process : phase[p] \in Alone => phase[q] # "older"
  /\ \A p \in radio : p \in Process /\ phase[p] \in Alone \cup {"older"}

(* At most one process can be in each of the two ways of having it.        *)
LEMMA InvGivesOneRadio == RadioInv => OneRadio
<1> SUFFICES ASSUME RadioInv PROVE OneRadio
  OBVIOUS
<1>1. \A p, q \in radio : p = q
  BY RunsAssumption DEF RadioInv, LockInv, WithLock, Alone
<1>2. CASE radio = {}
  BY <1>2, FS_EmptySet DEF OneRadio
<1>3. CASE radio # {}
  <2>1. PICK p : radio = {p}
    BY <1>1, <1>3
  <2>2. Cardinality(radio) = 1
    BY <2>1, FS_Singleton
  <2> QED BY <2>2 DEF OneRadio
<1> QED BY <1>2, <1>3

LEMMA RadioInit == Init => RadioInv
<1> SUFFICES ASSUME Init PROVE RadioInv
  OBVIOUS
<1>1. /\ world \in Worlds /\ radio = world.older
      /\ phase = [p \in Process |-> IF p \in world.older THEN "older" ELSE "off"]
  BY DEF Init, RunsInit, InstanceInit
<1>2. LockInv
  BY <1>1 DEF LockInv, Phases, WithLock
<1>3. \A p \in radio : p \in Process /\ phase[p] = "older"
  BY <1>1, RunsAssumption
<1> QED BY <1>1, <1>2, <1>3 DEF RadioInv, Alone

-----------------------------------------------------------------------------
(* A process goes on by itself: with the lock it has, or into a phase that *)
(* needs none.                                                             *)
LEMMA GoesKeeps ==
  ASSUME RadioInv, NEW p \in Process, NEW to \in Phases \ {"older"},
         phase' = [phase EXCEPT ![p] = to], lock' = lock, world' = world,
         to \in WithLock => lock = p,
         to \in Alone => \A q \in Process : phase[q] # "older",
         radio' \subseteq radio \cup {p}, p \in radio' => to \in Alone
  PROVE  RadioInv'
<1>1. \A q \in Process : phase'[q] = IF q = p THEN to ELSE phase[q]
  BY DEF RadioInv, LockInv
<1>2. phase' \in [Process -> Phases]
  BY DEF RadioInv, LockInv
<1> QED BY <1>1, <1>2 DEF RadioInv, LockInv

(* Processes end.                                                          *)
LEMMA GoneKeeps ==
  ASSUME RadioInv, NEW Q, Gone(Q), world' = world,
         radio' = {p \in radio : phase'[p] # "gone"}
  PROVE  RadioInv'
<1>1. \A q \in Process : phase'[q] = IF q \in Q THEN "gone" ELSE phase[q]
  BY DEF Gone
<1>2. phase' \in [Process -> Phases]
  BY DEF Gone, RadioInv, LockInv, Phases
<1>3. lock' = IF lock \in Q THEN None ELSE lock
  BY DEF Gone
<1>4. LockInv'
  BY <1>1, <1>2, <1>3 DEF RadioInv, LockInv, WithLock
<1> QED BY <1>1, <1>4 DEF RadioInv, Alone

(* The steps of SingleInstance.                                            *)
LEMMA ContendKeeps ==
  ASSUME RadioInv, Contend \/ Wait, ChannelsFollow
  PROVE  RadioInv'
<1>1. world' = world /\ radio' = {p \in radio : phase'[p] # "gone"}
  BY DEF ChannelsFollow
<1>2. CASE Wait
  BY <1>1, <1>2 DEF Wait, RadioInv, LockInv
<1>3. ASSUME NEW p \in Process, DiesOfTerm(p) \/ Refuse(p) \/ KillOwner(p) \/ KillRemaining(p) \/ End(p)
      PROVE  RadioInv'
  <2>1. PICK Q : Gone(Q)
    BY <1>3 DEF DiesOfTerm, Refuse, KillOwner, KillRemaining, End
  <2> QED BY <1>1, <2>1, GoneKeeps
<1>4. ASSUME NEW p \in Process, Open(p) PROVE RadioInv'
  <2>1. phase[p] = "launched" /\ phase' = [phase EXCEPT ![p] = "waiting"] /\ lock' = lock
    BY <1>4 DEF Open, Goes
  <2>2. "waiting" \in Phases \ {"older"} /\ "waiting" \notin WithLock \cup Alone /\ p \notin radio
    BY <2>1 DEF Phases, WithLock, Alone, RadioInv
  <2> QED BY <1>1, <2>1, <2>2, GoesKeeps
<1>5. ASSUME NEW p \in Process, Lock(p) PROVE RadioInv'
  <2>1. /\ lock = None /\ lock' = p /\ phase[p] = "waiting"
        /\ phase' = [phase EXCEPT ![p] = "locked"]
    BY <1>5 DEF Lock
  <2>2. \A q \in Process : phase[q] \notin WithLock
    BY <2>1, InstanceAssumption DEF RadioInv, LockInv
  <2>3. \A q \in Process : phase'[q] = IF q = p THEN "locked" ELSE phase[q]
    BY <2>1 DEF RadioInv, LockInv
  <2>4. LockInv'
    BY <2>1, <2>2, <2>3 DEF RadioInv, LockInv, Phases
  <2> QED BY <1>1, <2>1, <2>2, <2>3, <2>4 DEF RadioInv, Alone, WithLock
<1>6. ASSUME NEW p \in Process, AskToEnd(p) PROVE RadioInv'
  BY <1>1, <1>6 DEF AskToEnd, RadioInv, LockInv
<1>7. ASSUME NEW p \in Process, Record(p) PROVE RadioInv'
  <2>1. phase[p] = "locked" /\ phase' = [phase EXCEPT ![p] = "clearing"] /\ lock' = lock
    BY <1>7 DEF Record, Asks
  <2>2. "clearing" \in Phases \ {"older"} /\ "clearing" \notin Alone /\ p \notin radio /\ lock = p
    BY <2>1 DEF Phases, WithLock, Alone, RadioInv, LockInv
  <2> QED BY <1>1, <2>1, <2>2, GoesKeeps
<1>8. ASSUME NEW p \in Process, Clear(p) PROVE RadioInv'
  <2>1. phase[p] = "clearing" /\ p \notin radio /\ lock = p
    BY <1>8 DEF Clear, RadioInv, LockInv, WithLock, Alone
  <2>2. CASE p \in Controller \/ Unregistered(p) # {}
    <3>1. phase' = [phase EXCEPT ![p] = "leaving"] /\ lock' = lock
      BY <1>8, <2>2 DEF Clear, Exit, Asks
    <3>2. "leaving" \in Phases \ {"older"} /\ "leaving" \notin Alone
      BY DEF Phases, Alone
    <3> QED BY <1>1, <2>1, <3>1, <3>2, GoesKeeps
  <2>3. CASE ~(p \in Controller \/ Unregistered(p) # {})
    <3>1. phase' = [phase EXCEPT ![p] = "connecting"] /\ lock' = lock
      BY <1>8, <2>3 DEF Clear, Goes
    <3>2. "connecting" \in Phases \ {"older"}
      BY DEF Phases
    <3>3. \A q \in Process : phase[q] # "older"
      BY <2>1, <2>3, RunsAssumption DEF Unregistered, RadioInv
    <3> QED BY <1>1, <2>1, <3>1, <3>2, <3>3, GoesKeeps
  <2> QED BY <2>2, <2>3
<1>9. ASSUME NEW p \in Process, Close(p) PROVE RadioInv'
  <2>1. /\ phase[p] = "leaving" /\ lock = p
        /\ phase' = [phase EXCEPT ![p] = "exiting"]
    BY <1>9 DEF Close, RadioInv, LockInv, WithLock
  <2>2. \A q \in Process : phase'[q] = IF q = p THEN "exiting" ELSE phase[q]
    BY <2>1 DEF RadioInv, LockInv
  <2>3. phase' \in [Process -> Phases]
    BY <2>1 DEF RadioInv, LockInv, Phases
  <2>4. LockInv'
    BY <2>1, <2>2, <2>3 DEF RadioInv, LockInv, WithLock
  <2> QED BY <1>1, <2>1, <2>2, <2>4 DEF RadioInv, Alone
<1> QED BY <1>2, <1>3, <1>4, <1>5, <1>6, <1>7, <1>8, <1>9 DEF Contend

(* The steps of BotRuns, and of the posts that begin a channel.            *)
LEMMA RunsKeep ==
  ASSUME RadioInv, RunsNext \/ \E p \in Process : Begin(p)
  PROVE  RadioInv'
<1>1. CASE (Contend \/ Wait) /\ ChannelsFollow
  BY <1>1, ContendKeeps
<1>2. ASSUME NEW p \in Process, Start(p) PROVE RadioInv'
  <2>1. /\ phase[p] \in {"off", "gone"}
        /\ phase' = [phase EXCEPT ![p] = "launched"] /\ UNCHANGED <<lock, world, radio>>
    BY <1>2 DEF Start, Launch, Goes
  <2>2. "launched" \in Phases \ {"older"} /\ "launched" \notin WithLock \cup Alone /\ p \notin radio
    BY <2>1 DEF Phases, WithLock, Alone, RadioInv
  <2> QED BY <2>1, <2>2, GoesKeeps
<1>3. ASSUME NEW q \in Process, StartOlder(q) PROVE RadioInv'
  <2>1. /\ q \in world.older /\ phase[q] = "gone" /\ radio' = radio \cup {q}
        /\ phase' = [phase EXCEPT ![q] = "older"] /\ UNCHANGED <<lock, world>>
    BY <1>3 DEF StartOlder, Restarted, Goes
  <2>2. PICK p \in Process : phase[p] = "clearing"
    BY <1>3 DEF StartOlder, Restarted
  <2>3. \A r \in Process : phase[r] \notin Alone
    BY <2>2 DEF RadioInv, LockInv, WithLock, Alone
  <2>4. \A r \in Process : phase'[r] = IF r = q THEN "older" ELSE phase[r]
    BY <2>1 DEF RadioInv, LockInv
  <2>5. LockInv'
    BY <2>1, <2>4 DEF RadioInv, LockInv, WithLock, Phases
  <2> QED BY <2>1, <2>3, <2>4, <2>5 DEF RadioInv, Alone
<1>4. ASSUME NEW p \in Process, OpenPort(p) PROVE RadioInv'
  BY <1>4 DEF OpenPort, instance, RadioInv, LockInv, Alone
<1>5. ASSUME NEW p \in Process, NEW to \in {"preparing", "stopping"},
             phase[p] \in Alone, Goes(p, to), ChannelsFollow
      PROVE  RadioInv'
  <2>1. /\ phase' = [phase EXCEPT ![p] = to] /\ UNCHANGED <<lock, world>>
        /\ radio' = {r \in radio : phase'[r] # "gone"}
    BY <1>5 DEF Goes, ChannelsFollow
  <2>2. to \in Phases \ {"older"} /\ to \in Alone /\ lock = p
    BY <1>5 DEF Phases, Alone, WithLock, RadioInv, LockInv
  <2>3. \A q \in Process : phase[q] # "older"
    BY <1>5 DEF RadioInv
  <2> QED BY <2>1, <2>2, <2>3, GoesKeeps
<1>6. ASSUME NEW p \in Process, Connect(p) \/ Prepare(p) \/ Quit(p) PROVE RadioInv'
  <2>1. CASE Prepare(p) /\ UNCHANGED <<instance, world, launches, radio, begun>>
    BY <2>1 DEF instance, RadioInv, LockInv
  <2>2. CASE ~UNCHANGED <<instance, world, launches, radio, begun>> \/ ~Prepare(p)
    BY <1>5, <1>6, <2>2 DEF Connect, Prepare, Quit, Handled, Alone
  <2> QED BY <2>1, <2>2
<1>7. ASSUME NEW p \in Process, Begin(p) PROVE RadioInv'
  <2>1. phase[p] = "preparing" /\ UNCHANGED <<world, radio>>
    BY <1>7 DEF Begin
  <2>2. CASE Goes(p, "up")
    <3>1. phase' = [phase EXCEPT ![p] = "up"] /\ UNCHANGED lock
      BY <2>2 DEF Goes
    <3>2. "up" \in Phases \ {"older"} /\ "up" \in Alone /\ lock = p
      BY <2>1 DEF Phases, Alone, WithLock, RadioInv, LockInv
    <3>3. \A q \in Process : phase[q] # "older"
      BY <2>1 DEF RadioInv, Alone
    <3> QED BY <2>1, <3>1, <3>2, <3>3, GoesKeeps
  <2>3. CASE UNCHANGED instance
    BY <2>1, <2>3 DEF instance, RadioInv, LockInv
  <2> QED BY <1>7, <2>2, <2>3 DEF Begin
<1>8. ASSUME NEW p \in Process, Disconnect(p) PROVE RadioInv'
  BY <1>8 DEF Disconnect, instance, RadioInv, LockInv
<1>9. ASSUME NEW p \in Process, Return(p) PROVE RadioInv'
  <2>1. /\ phase[p] = "stopping" /\ p \notin radio
        /\ phase' = [phase EXCEPT ![p] = "leaving"] /\ UNCHANGED <<lock, world>>
        /\ radio' = {r \in radio : phase'[r] # "gone"}
    BY <1>9 DEF Return, Leave, Exit, Asks, ChannelsFollow
  <2>2. "leaving" \in Phases \ {"older"} /\ "leaving" \notin Alone /\ lock = p
    BY <2>1 DEF Phases, Alone, WithLock, RadioInv, LockInv
  <2> QED BY <2>1, <2>2, GoesKeeps
<1>10. ASSUME NEW p \in Process, Crash(p) PROVE RadioInv'
  BY <1>10, GoneKeeps DEF Crash, ChannelsFollow
<1> QED BY <1>1, <1>2, <1>3, <1>4, <1>6, <1>7, <1>8, <1>9, <1>10 DEF RunsNext

LEMMA PostsLeaveRuns ==
  ASSUME NEW p \in Process, Posts(p)
  PROVE  UNCHANGED runs
BY DEF Posts, TipSchedule, TipFire, TipChoose, TipPost, TipPasses, FortuneSchedule, FortuneFire,
       FortunePost, FortunePasses, WelcomeClaim, WelcomePost, WelcomePasses, Choose, Expire,
       AnnounceReset

LEMMA PostsKeep ==
  ASSUME RadioInv, UNCHANGED runs
  PROVE  RadioInv'
BY DEF runs, instance, RadioInv, LockInv

LEMMA RadioNext == RadioInv /\ [Next]_vars => RadioInv'
<1> SUFFICES ASSUME RadioInv, [Next]_vars PROVE RadioInv'
  OBVIOUS
<1>1. CASE RunsNext
  BY <1>1, RunsKeep
<1>2. ASSUME NEW p \in Process, BeginPosts(p) PROVE RadioInv'
  BY <1>2, RunsKeep DEF BeginPosts
<1>3. ASSUME NEW p \in Process, Posts(p) PROVE RadioInv'
  BY <1>3, PostsLeaveRuns, PostsKeep
<1>4. CASE Tick \/ TurnBack \/ UNCHANGED vars
  BY <1>4, PostsKeep DEF Tick, TurnBack, vars
<1> QED BY <1>1, <1>2, <1>3, <1>4 DEF Next

(* Whoever starts, waits, is asked to end, is killed or crashes, in any    *)
(* number and order: a process opens the radio only when no other has it   *)
(* (__enter__, stop_others, the order of _run's finally and __exit__).     *)
THEOREM OneRadioAlways == Spec => []OneRadio
<1>1. Init => RadioInv
  BY RadioInit
<1>2. RadioInv /\ [Next]_vars => RadioInv'
  BY RadioNext
<1>3. RadioInv => OneRadio
  BY InvGivesOneRadio
<1> QED BY <1>1, <1>2, <1>3, PTL DEF Spec

-----------------------------------------------------------------------------
(* Whom a bot asks to end *)

(* The file names the owner from the time it has been written to until the *)
(* owner is gone, which is after it has closed the lock.                   *)
RecordInv ==
  record # None => record \in Process /\ phase[record] \in (WithLock \ {"locked"}) \cup {"exiting"}

LEMMA RecordOfGone ==
  ASSUME RadioInv, RecordInv, NEW Q, Gone(Q)
  PROVE  RecordInv'
<1>1. record' # None => record' = record /\ record \notin Q
  BY DEF Gone
<1> QED BY <1>1 DEF Gone, RecordInv

(* A process goes on; it is the owner only as long as it may be.           *)
LEMMA RecordOfOther ==
  ASSUME RadioInv, RecordInv, NEW p \in Process, NEW to, phase' = [phase EXCEPT ![p] = to],
         record' \in {record, p}, record' = p => to \in (WithLock \ {"locked"}) \cup {"exiting"}
  PROVE  RecordInv'
<1>1. \A q \in Process : phase'[q] = IF q = p THEN to ELSE phase[q]
  BY DEF RadioInv, LockInv
<1> QED BY <1>1 DEF RecordInv

LEMMA RecordNext == RadioInv /\ RecordInv /\ [Next]_vars => RecordInv'
<1> SUFFICES ASSUME RadioInv, RecordInv, [Next]_vars PROVE RecordInv'
  OBVIOUS
<1>1. ASSUME UNCHANGED <<phase, record>> PROVE RecordInv'
  BY <1>1 DEF RecordInv
<1>2. CASE Wait
  BY <1>1, <1>2 DEF Wait
<1>3. ASSUME NEW p \in Process,
             DiesOfTerm(p) \/ Refuse(p) \/ KillOwner(p) \/ KillRemaining(p) \/ End(p) \/ Crash(p)
      PROVE  RecordInv'
  <2>1. PICK Q : Gone(Q)
    BY <1>3 DEF DiesOfTerm, Refuse, KillOwner, KillRemaining, End, Crash
  <2> QED BY <2>1, RecordOfGone
<1>4. ASSUME NEW p \in Process, NEW to \in {"launched", "waiting", "locked", "older"},
             phase[p] \in {"off", "gone", "launched", "waiting"},
             phase' = [phase EXCEPT ![p] = to], record' = record
      PROVE  RecordInv'
  <2>1. record # p \/ record = None
    BY <1>4 DEF RecordInv, WithLock
  <2> QED BY <1>4, <2>1, RecordOfOther DEF RecordInv
<1>5. ASSUME NEW p \in Process, NEW to \in (WithLock \ {"locked"}) \cup {"exiting"},
             phase' = [phase EXCEPT ![p] = to], record' \in {record, p}
      PROVE  RecordInv'
  BY <1>5, RecordOfOther
<1>6. ASSUME NEW p \in Process, Open(p) \/ Lock(p) \/ Start(p) \/ StartOlder(p)
      PROVE  RecordInv'
  BY <1>4, <1>6 DEF Open, Lock, Start, Launch, StartOlder, Restarted, Goes
<1>7. ASSUME NEW p \in Process, Record(p) \/ Clear(p) \/ Close(p) \/ Return(p)
      PROVE  RecordInv'
  BY <1>5, <1>7 DEF Record, Clear, Close, Return, Leave, Exit, Asks, Goes, WithLock
<1>8. ASSUME NEW p \in Process, Connect(p) \/ Prepare(p) \/ Quit(p) \/ Begin(p)
      PROVE  RecordInv'
  <2>1. UNCHANGED instance \/ \E to \in {"preparing", "stopping", "up"} : Goes(p, to)
    BY <1>8 DEF Connect, Prepare, Quit, Begin
  <2> QED BY <1>1, <1>5, <2>1 DEF instance, Goes, WithLock
<1>9. ASSUME NEW p \in Process, AskToEnd(p) \/ OpenPort(p) \/ Disconnect(p)
      PROVE  RecordInv'
  BY <1>1, <1>9 DEF AskToEnd, OpenPort, Disconnect, instance
<1>10. ASSUME NEW p \in Process, Posts(p) PROVE UNCHANGED runs
  BY <1>10, PostsLeaveRuns
<1>11. CASE Tick \/ TurnBack \/ UNCHANGED vars
  BY <1>1, <1>11 DEF Tick, TurnBack, vars, runs, instance
<1> QED BY <1>1, <1>2, <1>3, <1>6, <1>7, <1>8, <1>9, <1>10, <1>11
        DEF Next, RunsNext, Contend, BeginPosts, runs, instance

(* A request to end goes to the owner of the lock or to a process that has *)
(* not come to it or has left it (_owner, _legacy_processes).              *)
LEMMA AskedIsOwner ==
  ASSUME RadioInv, RecordInv, NEW p \in Process, AskToEnd(p)
  PROVE  \A q \in term' \ term : q = lock
<1>1. record \in Registered /\ record # None /\ term' = term \cup {record}
  BY DEF AskToEnd, Owner
<1>2. phase[record] \in WithLock /\ record \in Process
  BY <1>1 DEF Registered, RecordInv
<1> QED BY <1>1, <1>2 DEF RadioInv, LockInv

(* A bot that waits for the lock is never asked to end by another, however *)
(* many wait and whoever gets the lock meanwhile (_owner,                  *)
(* _legacy_processes).                                                     *)
THEOREM WaiterSparedAlways == Spec => WaiterSpared
<1>1. RadioInv /\ RecordInv /\ [Next]_vars => [\A q \in term' \ term : q = lock \/ q \notin Registered]_runs
  <2> SUFFICES ASSUME RadioInv, RecordInv, [Next]_vars, NEW q \in term' \ term
               PROVE  q = lock \/ q \notin Registered
    OBVIOUS
  <2>1. \A p \in Process : q \in Unregistered(p) => q \notin Registered
    BY DEF Unregistered, Registered
  <2>2. ASSUME NEW p \in Process, AskToEnd(p) PROVE q = lock
    BY <2>2, AskedIsOwner
  <2>3. ASSUME NEW p \in Process, Record(p) \/ Clear(p) \/ Return(p)
        PROVE  q \in Unregistered(p)
    BY <2>3 DEF Record, Clear, Return, Leave, Exit, Asks, Goes
  <2>4. ASSUME NEW p \in Process,
               DiesOfTerm(p) \/ Refuse(p) \/ KillOwner(p) \/ KillRemaining(p) \/ End(p) \/ Crash(p)
        PROVE  FALSE
    BY <2>4 DEF DiesOfTerm, Refuse, KillOwner, KillRemaining, End, Crash, Gone
  <2>5. ASSUME NEW p \in Process, Open(p) \/ Lock(p) \/ Close(p) \/ Start(p) \/ StartOlder(p) \/ Wait
        PROVE  FALSE
    BY <2>5 DEF Open, Lock, Close, Start, Launch, StartOlder, Restarted, Goes, Wait
  <2>6. ASSUME NEW p \in Process, Connect(p) \/ Prepare(p) \/ Quit(p) \/ Begin(p) \/ OpenPort(p) \/ Disconnect(p)
        PROVE  FALSE
    BY <2>6 DEF Connect, Prepare, Quit, Begin, OpenPort, Disconnect, Goes, instance
  <2>7. ASSUME NEW p \in Process, Posts(p) PROVE FALSE
    BY <2>7, PostsLeaveRuns DEF runs, instance
  <2>8. CASE Wait \/ Tick \/ TurnBack \/ UNCHANGED vars
    BY <2>8 DEF Wait, Tick, TurnBack, vars, runs, instance
  <2> QED BY <2>1, <2>2, <2>3, <2>4, <2>5, <2>6, <2>7, <2>8 DEF Next, RunsNext, Contend, BeginPosts
<1>2. Init => RadioInv /\ RecordInv
  BY RadioInit DEF Init, RunsInit, InstanceInit, RecordInv
<1> QED BY <1>1, <1>2, RadioNext, RecordNext, PTL DEF Spec, WaiterSpared

-----------------------------------------------------------------------------
(* The voice *)

(* The timer of a run: asleep it runs from the last choice, and while it   *)
(* announces the reset the voice is the usual one.                         *)
VoiceInv ==
  /\ voice \in [Process -> [name : Voice, until : Int \cup {None}, timer : {"none", "asleep", "announcing"}]]
  /\ chosen \in [Process -> Int \cup {None}]
  /\ now \in Int
  /\ \A p \in Process :
       /\ voice[p].timer = "asleep" => voice[p].until = chosen[p] + Timeout
       /\ voice[p].timer = "announcing" => voice[p].name = Default

LEMMA VoiceNext == VoiceInv /\ [Next]_vars => VoiceInv'
<1> SUFFICES ASSUME VoiceInv, [Next]_vars PROVE VoiceInv'
  OBVIOUS
<1>1. /\ Timeout \in Nat /\ Default \in Voice
      /\ NoVoice \in [name : Voice, until : Int \cup {None}, timer : {"none", "asleep", "announcing"}]
      /\ NoVoice.timer = "none"
  BY PostsAssumption DEF NoVoice
<1>2. CASE RunsNext /\ PostsFollow
  BY <1>1, <1>2 DEF PostsFollow, VoiceInv, clock
<1>3. ASSUME UNCHANGED <<voice, chosen>>, now' \in Int PROVE VoiceInv'
  BY <1>3 DEF VoiceInv
<1>4. ASSUME NEW p \in Process, BeginPosts(p) PROVE UNCHANGED <<voice, chosen, now>>
  BY <1>4 DEF BeginPosts, clock
<1>5. ASSUME NEW p \in Process,
             NEW v \in [name : Voice, until : Int \cup {None}, timer : {"none", "asleep", "announcing"}],
             NEW c \in Int \cup {None},
             voice' = [voice EXCEPT ![p] = v], chosen' = [chosen EXCEPT ![p] = c], now' = now,
             v.timer = "asleep" => v.until = c + Timeout,
             v.timer = "announcing" => v.name = Default
      PROVE  VoiceInv'
  BY <1>5 DEF VoiceInv
<1>6. ASSUME NEW p \in Process, NEW v \in Voice, Choose(p, v) PROVE VoiceInv'
  <2> DEFINE w == [name |-> v, until |-> now + Timeout, timer |-> "asleep"]
  <2>1. now \in Int /\ now + Timeout \in Int
    BY <1>1 DEF VoiceInv
  <2>2. voice' \in {[voice EXCEPT ![p] = NoVoice], [voice EXCEPT ![p] = w]} /\ now' = now
        /\ chosen' = [chosen EXCEPT ![p] = now]
    BY <1>6 DEF Choose, VoiceGoes, clock
  <2>3. CASE voice' = [voice EXCEPT ![p] = w]
    BY <1>5, <2>1, <2>2, <2>3
  <2>4. CASE voice' = [voice EXCEPT ![p] = NoVoice]
    BY <1>1, <1>5, <2>1, <2>2, <2>4
  <2> QED BY <2>2, <2>3, <2>4
<1>7. ASSUME NEW p \in Process, Expire(p) PROVE VoiceInv'
  <2> DEFINE w == [NoVoice EXCEPT !.timer = "announcing"]
  <2>1. w \in [name : Voice, until : Int \cup {None}, timer : {"none", "asleep", "announcing"}]
        /\ w.timer = "announcing" /\ w.name = Default
    BY <1>1 DEF NoVoice
  <2>2. voice' = [voice EXCEPT ![p] = w] /\ UNCHANGED <<chosen, now>>
    BY <1>7 DEF Expire, VoiceGoes, clock
  <2>3. chosen' = [chosen EXCEPT ![p] = chosen[p]] /\ chosen[p] \in Int \cup {None}
    BY <2>2 DEF VoiceInv
  <2> HIDE DEF w
  <2> QED BY <1>5, <2>1, <2>2, <2>3
<1>8. ASSUME NEW p \in Process, AnnounceReset(p) PROVE VoiceInv'
  <2> DEFINE w == [voice[p] EXCEPT !.timer = "none"]
  <2>1. w \in [name : Voice, until : Int \cup {None}, timer : {"none", "asleep", "announcing"}]
        /\ w.timer = "none"
    BY DEF VoiceInv
  <2>2. voice' = [voice EXCEPT ![p] = w] /\ UNCHANGED <<chosen, now>>
    BY <1>8 DEF AnnounceReset, VoiceGoes, clock
  <2>3. chosen' = [chosen EXCEPT ![p] = chosen[p]] /\ chosen[p] \in Int \cup {None}
    BY <2>2 DEF VoiceInv
  <2> HIDE DEF w
  <2> QED BY <1>5, <2>1, <2>2, <2>3
<1>9. ASSUME NEW p \in Process, Posts(p) PROVE VoiceInv'
  <2>1. CASE \/ TipSchedule(p) \/ TipFire(p) \/ TipChoose(p) \/ TipPost(p) \/ TipPasses(p)
             \/ FortuneSchedule(p) \/ FortuneFire(p) \/ FortunePost(p) \/ FortunePasses(p)
             \/ \E n \in 1 .. Len(world.keys) : WelcomeClaim(p, n) \/ WelcomePost(p, n) \/ WelcomePasses(p, n)
    <3>1. UNCHANGED <<voice, chosen, now>>
      BY <2>1 DEF TipSchedule, TipFire, TipChoose, TipPost, TipPasses, FortuneSchedule, FortuneFire,
                  FortunePost, FortunePasses, WelcomeClaim, WelcomePost, WelcomePasses, clock
    <3> QED BY <1>3, <3>1 DEF VoiceInv
  <2> QED BY <1>6, <1>7, <1>8, <1>9, <2>1 DEF Posts
<1>10. CASE Tick \/ TurnBack \/ UNCHANGED vars
  <2>1. UNCHANGED <<voice, chosen>> /\ now' \in {now, now + 1, now - 1, Winter - 2}
    BY <1>10 DEF Tick, TurnBack, vars, posts, clock
  <2>2. now' \in Int
    BY <2>1, PostsAssumption DEF VoiceInv
  <2> QED BY <1>3, <2>1, <2>2
<1> QED BY <1>2, <1>3, <1>4, <1>9, <1>10 DEF Next, VoiceInv

(* The channel is told that the voice is the usual one again only while it *)
(* is, and no voice is reset before the time of its last choice is up,     *)
(* however choices, timers and the radio interleave (_switch_persona,      *)
(* _persona_timer).                                                        *)
THEOREM VoiceKeptAlways == Spec => VoiceKept
<1>1. VoiceInv /\ [Next]_vars =>
        [\A p \in Process :
           /\ AnnounceReset(p) => voice[p].name = Default
           /\ Expire(p) => now >= chosen[p] + Timeout]_vars
  BY DEF VoiceInv, AnnounceReset, Expire
<1>2. Init => VoiceInv
  BY PostsAssumption DEF Init, VoiceInv, NoVoice
<1> QED BY <1>1, <1>2, VoiceNext, PTL DEF Spec, VoiceKept

-----------------------------------------------------------------------------
(* Each post is attempted once *)

(* A clock that is corrected needs a table to tell what was posted: tips   *)
(* have one if the channel has a database, the day of a fortune has none.  *)
Tabled == \A w \in Worlds : w.clock = "corrected" => w.db /\ "fortune" \notin w.does

(* The configured time that a slot belongs to.                             *)
BaseOf(d, morning) == d * DayLength + (IF morning THEN Morning ELSE Evening)
SlotBase(s) == BaseOf(Day(s), Hour(s) < Evening)
FortuneBase(d) == d * DayLength + FortuneTime

(* What was attempted.                                                     *)
TipBases ==
  {b \in Nat : \E d \in Nat, m \in BOOLEAN : <<"tip", d, m>> \in DOMAIN attempts /\ b = BaseOf(d, m)}
FortuneDays == {d \in Nat : <<"fortune", d>> \in DOMAIN attempts}

(* What has begun by the clock, and what no scheduler plans from now on.   *)
Over(b) == IF fold THEN b < Winter ELSE b <= now
Past(b) == IF fold THEN b < Winter ELSE b < now

ClockInv ==
  /\ now \in Nat /\ fold \in BOOLEAN
  /\ fold => turned /\ world.clock = "winter" /\ Winter - 2 <= now /\ now < Winter
  /\ world.clock = "winter" /\ ~turned => now < Winter

KeysInv ==
  /\ DOMAIN attempts \subseteq
       ({"tip"} \X Nat \X BOOLEAN) \cup ({"fortune"} \X Nat) \cup ({"welcome"} \X Nat)
  /\ \A key \in DOMAIN attempts : attempts[key] = 1

(* Only a run that serves has schedulers.                                  *)
ServedInv ==
  /\ begun \in [Process -> Nat]
  /\ tip = [p \in Process |-> tip[p]] /\ fortune = [p \in Process |-> fortune[p]]
  /\ \A p \in Process :
       tip[p].at # "off" \/ fortune[p].at # "off" => phase[p] \in Serving /\ begun[p] > 0

Planned == {"asleep", "trying", "claimed"}

(* A scheduler: all attempts so far belong to slots before the one that it *)
(* plans, to the last one that it knows of, or to the past.                *)
TipSchedulerInv(t) ==
  /\ DOMAIN t = {"at", "next", "last", "used"}
  /\ t.at \in {"off", "idle"} \cup Planned
  /\ t.last \in Nat \cup {None}
  /\ t.at = "idle" /\ t.last = None => \A b \in TipBases : ~world.db /\ Past(b)
  /\ t.at # "off" /\ t.last # None => \A b \in TipBases : b <= t.last
  /\ t.at \in Planned => /\ t.next \in Nat /\ SlotBase(t.next) <= t.next
                         /\ \A b \in TipBases : b < SlotBase(t.next)
  /\ t.at \in {"trying", "claimed"} => t.last = t.next /\ (world.db => db.slot = t.next)

TipsInv ==
  /\ DOMAIN db = {"slot", "used", "welcomed"} /\ db.slot \in Nat \cup {None}
  /\ \A p \in Process : TipSchedulerInv(tip[p])
  /\ world.db => \A b \in TipBases : db.slot # None /\ b <= db.slot
  /\ ~world.db => /\ db.slot = None
                  /\ \A b \in TipBases : Over(b)
                  /\ rested /\ (\A p \in Process : tip[p].at = "off") => \A b \in TipBases : Past(b)

FortuneSchedulerInv(f) ==
  /\ DOMAIN f = {"at", "next", "day"}
  /\ f.at \in {"off", "idle", "asleep", "trying"}
  /\ f.day \in Nat \cup {None}
  /\ IF f.at = "off" THEN f.day = None ELSE "fortune" \in world.does
  /\ f.at = "idle" /\ f.day = None => \A d \in FortuneDays : Past(FortuneBase(d))
  /\ f.at # "off" /\ f.day # None => \A d \in FortuneDays : d <= f.day
  /\ f.at \in Planned => /\ f.next \in Nat /\ FortuneBase(Day(f.next)) <= f.next
                         /\ \A d \in FortuneDays : d < Day(f.next)
  /\ f.at = "trying" => f.day = Day(f.next)

FortunesInv ==
  /\ \A p \in Process : FortuneSchedulerInv(fortune[p])
  /\ FortuneDays # {} => "fortune" \in world.does
  /\ \A d \in FortuneDays : Over(FortuneBase(d))
  /\ rested /\ (\A p \in Process : fortune[p].at = "off") => \A d \in FortuneDays : Past(FortuneBase(d))

(* A claim of the welcome is on disk, and of one run.                      *)
WelcomeInv ==
  /\ welcome \in [Process -> [1 .. Len(world.keys) -> {"off", "waiting", "claimed"}]]
  /\ \A n \in Nat : <<"welcome", n>> \in DOMAIN attempts => n \in db.welcomed
  /\ \A p \in Process : \A n \in 1 .. Len(world.keys) : welcome[p][n] = "claimed" =>
       /\ n \in db.welcomed /\ <<"welcome", n>> \notin DOMAIN attempts
       /\ \A q \in Process : welcome[q][n] = "claimed" => q = p

PostsInv == ClockInv /\ KeysInv /\ ServedInv /\ TipsInv /\ FortunesInv /\ WelcomeInv

-----------------------------------------------------------------------------
(* Days and hours *)

LEMMA LaterDay ==
  ASSUME NEW a \in Nat, NEW b \in Nat, a < b
  PROVE  b * DayLength >= a * DayLength + DayLength
<1>1. DayLength \in Nat
  BY PostsAssumption
<1>2. PICK k \in Nat : b = a + 1 + k
  <2>1. b - a - 1 \in Nat /\ b = a + 1 + (b - a - 1)
    OBVIOUS
  <2> QED BY <2>1
<1>3. b * DayLength = a * DayLength + DayLength + k * DayLength /\ k * DayLength \in Nat
  BY <1>1, <1>2
<1> QED BY <1>1, <1>3

LEMMA TimeOf ==
  ASSUME NEW t \in Nat
  PROVE  /\ Day(t) \in Nat /\ Hour(t) \in 0 .. DayLength - 1
         /\ t = Day(t) * DayLength + Hour(t)
<1>1. DayLength \in Nat \ {0}
  BY PostsAssumption
<1>2. t \div DayLength \in Nat /\ t % DayLength \in 0 .. DayLength - 1
  BY <1>1
<1>3. t = (t \div DayLength) * DayLength + (t % DayLength)
  BY <1>1
<1> QED BY <1>2, <1>3 DEF Day, Hour

LEMMA MorningOrNot ==
  ASSUME NEW s \in Nat
  PROVE  (Hour(s) < Evening) \in BOOLEAN
<1>1. Hour(s) \in 0 .. DayLength - 1 /\ Evening \in 0 .. DayLength - 1
  BY TimeOf, PostsAssumption
<1>2. PICK h \in Int, e \in Int : h = Hour(s) /\ e = Evening
  BY <1>1
<1>3. (h < e) \in BOOLEAN
  OBVIOUS
<1> QED BY <1>2, <1>3

LEMMA DayIs ==
  ASSUME NEW d \in Nat, NEW h \in 0 .. DayLength - 1
  PROVE  /\ d * DayLength + h \in Nat
         /\ Day(d * DayLength + h) = d /\ Hour(d * DayLength + h) = h
<1>1. DayLength \in Nat
  BY PostsAssumption
<1>2. PICK t \in Nat : t = d * DayLength + h
  BY <1>1
<1>3. PICK e \in Nat, i \in 0 .. DayLength - 1 : e = Day(t) /\ i = Hour(t) /\ t = e * DayLength + i
  BY TimeOf
<1>4. d * DayLength \in Nat /\ e * DayLength \in Nat
  BY <1>1
<1>5. ~(d < e)
  <2>1. d < e => e * DayLength >= d * DayLength + DayLength
    BY LaterDay
  <2> QED BY <1>1, <1>2, <1>3, <1>4, <2>1
<1>6. ~(e < d)
  <2>1. e < d => d * DayLength >= e * DayLength + DayLength
    BY LaterDay
  <2> QED BY <1>1, <1>2, <1>3, <1>4, <2>1
<1>7. d = e
  BY <1>5, <1>6
<1> QED BY <1>1, <1>2, <1>3, <1>4, <1>7

(* A slot is on the day that its configured time is on, which is the first *)
(* that has not gone by, and in the repeated hour a later day.             *)
LEMMA SlotOf ==
  ASSUME NEW t \in Nat, NEW repeated \in BOOLEAN, NEW base \in 0 .. DayLength - 1,
         NEW s \in NextFire(t, repeated, base)
  PROVE  \E d \in Nat :
           /\ s \in Nat /\ Day(s) = d /\ Hour(s) >= base /\ Hour(s) <= base + Jitter
           /\ d * DayLength + base >= t /\ d * DayLength + base <= s
           /\ repeated => d > Day(t)
<1>1. DayLength \in Nat \ {0} /\ Jitter \in Nat
  BY PostsAssumption
<1>2. PICK e \in Nat : e = Day(t) /\ t < e * DayLength + DayLength /\ e * DayLength \in Nat
  BY <1>1, TimeOf
<1> DEFINE At(n) == (Day(t) + n) * DayLength + base
<1> DEFINE Fits(n) == /\ At(n) >= t /\ ~(n = 0 /\ repeated)
                      /\ \A m \in 0 .. n - 1 : At(m) < t \/ (m = 0 /\ repeated)
<1>3. At(0) \in Int /\ At(1) >= t
  <2>1. (e + 1) * DayLength = e * DayLength + DayLength /\ (e + 0) * DayLength = e * DayLength
    BY <1>1
  <2> QED BY <1>1, <1>2, <2>1
<1>4. \E n \in 0 .. 2 : Fits(n)
  <2>1. CASE At(0) >= t /\ ~repeated
    BY <2>1
  <2>2. CASE ~(At(0) >= t /\ ~repeated)
    <3>1. \A m \in 0 .. 1 - 1 : At(m) < t \/ (m = 0 /\ repeated)
      BY <1>3, <2>2
    <3>2. Fits(1)
      BY <1>3, <3>1
    <3> QED BY <3>2
  <2> QED BY <2>1, <2>2
<1>5. PICK n \in 0 .. 2 : n = (CHOOSE k \in 0 .. 2 : Fits(k)) /\ Fits(n)
  BY <1>4
<1>6. PICK d \in Nat : d = Day(t) + n /\ At(n) = d * DayLength + base /\ d * DayLength \in Nat
  BY <1>1, <1>2
<1>7. s \in At(n) .. (IF At(n) + Jitter < Midnight(At(n)) THEN At(n) + Jitter ELSE Midnight(At(n)) - 1)
  BY <1>5 DEF NextFire
<1>8. Midnight(At(n)) = d * DayLength + DayLength
  BY <1>1, <1>6, DayIs DEF Midnight
<1>9. PICK h \in 0 .. DayLength - 1 : s = d * DayLength + h /\ h >= base /\ h <= base + Jitter
  <2>1. s - d * DayLength \in 0 .. DayLength - 1 /\ s = d * DayLength + (s - d * DayLength)
    BY <1>1, <1>6, <1>7, <1>8
  <2>2. s - d * DayLength >= base /\ s - d * DayLength <= base + Jitter
    BY <1>1, <1>6, <1>7, <1>8
  <2> QED BY <2>1, <2>2
<1>10. s \in Nat /\ Day(s) = d /\ Hour(s) = h
  BY <1>9, DayIs
<1>11. repeated => d > Day(t)
  BY <1>2, <1>5, <1>6
<1>12. d * DayLength + base >= t
  BY <1>5, <1>6
<1> QED BY <1>6, <1>9, <1>10, <1>11, <1>12

LEMMA BaseIsTime ==
  ASSUME NEW s \in Nat
  PROVE  SlotBase(s) \in Nat /\ FortuneBase(Day(s)) \in Nat
<1>1. DayLength \in Nat /\ Morning \in Nat /\ Evening \in Nat /\ FortuneTime \in Nat
  BY PostsAssumption
<1>2. PICK d \in Nat : d = Day(s)
  BY TimeOf
<1>3. d * DayLength \in Nat
  BY <1>1
<1> QED BY <1>1, <1>2, <1>3 DEF SlotBase, BaseOf, FortuneBase

LEMMA TipSlot ==
  ASSUME NEW t \in Nat, NEW repeated \in BOOLEAN,
         NEW s \in NextFire(t, repeated, Morning) \cup NextFire(t, repeated, Evening)
  PROVE  /\ s \in Nat /\ SlotBase(s) \in Nat /\ t <= SlotBase(s) /\ SlotBase(s) <= s
         /\ repeated => SlotBase(s) >= Midnight(t)
<1>1. /\ DayLength \in Nat /\ Morning \in 0 .. DayLength - 1 /\ Evening \in 0 .. DayLength - 1
      /\ Jitter \in Nat /\ Morning + Jitter < Evening
  BY PostsAssumption
<1>2. PICK base \in {Morning, Evening}, d \in Nat :
        /\ s \in Nat /\ Day(s) = d /\ Hour(s) >= base /\ Hour(s) <= base + Jitter
        /\ d * DayLength + base >= t /\ d * DayLength + base <= s
        /\ repeated => d > Day(t)
  BY <1>1, SlotOf
<1>3. SlotBase(s) = d * DayLength + base /\ d * DayLength \in Nat
  BY <1>1, <1>2, TimeOf DEF SlotBase, BaseOf
<1>4. repeated => d * DayLength >= Midnight(t)
  <2>1. Day(t) \in Nat /\ (Day(t) + 1) * DayLength = Day(t) * DayLength + DayLength
    BY <1>1, TimeOf
  <2> QED BY <1>2, <2>1, LaterDay DEF Midnight
<1>5. Midnight(t) \in Int
  BY <1>1, TimeOf DEF Midnight
<1> QED BY <1>1, <1>2, <1>3, <1>4, <1>5

LEMMA FortuneSlot ==
  ASSUME NEW t \in Nat, NEW repeated \in BOOLEAN, NEW s \in NextFire(t, repeated, FortuneTime)
  PROVE  /\ s \in Nat /\ Day(s) \in Nat /\ FortuneBase(Day(s)) \in Nat
         /\ t <= FortuneBase(Day(s)) /\ FortuneBase(Day(s)) <= s
         /\ repeated => FortuneBase(Day(s)) >= Midnight(t)
<1>1. DayLength \in Nat /\ FortuneTime \in 0 .. DayLength - 1
  BY PostsAssumption
<1>2. PICK d \in Nat :
        /\ s \in Nat /\ Day(s) = d
        /\ d * DayLength + FortuneTime >= t /\ d * DayLength + FortuneTime <= s
        /\ repeated => d > Day(t)
  BY <1>1, SlotOf
<1>3. FortuneBase(Day(s)) = d * DayLength + FortuneTime /\ d * DayLength \in Nat
  BY <1>1, <1>2 DEF FortuneBase
<1>4. repeated => d * DayLength >= Midnight(t)
  <2>1. Day(t) \in Nat /\ (Day(t) + 1) * DayLength = Day(t) * DayLength + DayLength
    BY <1>1, TimeOf
  <2> QED BY <1>2, <2>1, LaterDay DEF Midnight
<1>5. Midnight(t) \in Int
  BY <1>1, TimeOf DEF Midnight
<1> QED BY <1>1, <1>2, <1>3, <1>4, <1>5

(* The day of the repeated hour ends after it.                             *)
LEMMA FoldEnds ==
  ASSUME ClockInv, fold
  PROVE  Midnight(now) >= Winter
<1>1. /\ DayLength \in Nat \ {0} /\ Winter \in Nat \ {0, 1}
      /\ Day(Winter - 2) = Day(Winter - 1)
  BY PostsAssumption DEF Day
<1>2. now \in Nat /\ Winter - 1 \in Nat /\ (now = Winter - 2 \/ now = Winter - 1)
  BY <1>1 DEF ClockInv
<1>3. Day(now) = Day(Winter - 1)
  BY <1>1, <1>2
<1>4. PICK d \in Nat : d = Day(Winter - 1) /\ Winter - 1 < d * DayLength + DayLength
  BY <1>1, <1>2, TimeOf
<1>5. (d + 1) * DayLength = d * DayLength + DayLength /\ d * DayLength \in Nat
  BY <1>1
<1> QED BY <1>1, <1>3, <1>4, <1>5 DEF Midnight

-----------------------------------------------------------------------------
(* What a step leaves alone *)

LEMMA OneServer ==
  ASSUME RadioInv, NEW p \in Process, NEW q \in Process, phase[p] \in Serving, phase[q] \in Serving
  PROVE  p = q
BY DEF RadioInv, LockInv, Serving, WithLock

LEMMA WorldStays ==
  ASSUME [Next]_vars
  PROVE  world' = world
<1>1. ASSUME RunsNext PROVE world' = world
  BY <1>1 DEF RunsNext, ChannelsFollow, Start, StartOlder, OpenPort, Connect, Prepare, Quit,
              Disconnect, Return, Crash
<1>2. ASSUME NEW p \in Process, BeginPosts(p) PROVE world' = world
  BY <1>2 DEF BeginPosts, Begin
<1>3. ASSUME UNCHANGED runs PROVE world' = world
  BY <1>3 DEF runs
<1>4. CASE Tick \/ TurnBack \/ UNCHANGED vars
  BY <1>3, <1>4 DEF Tick, TurnBack, vars
<1> QED BY <1>1, <1>2, <1>3, <1>4, PostsLeaveRuns DEF Next

(* A run that goes on serving keeps its channels.                          *)
LEMMA ServersGoOn ==
  ASSUME RunsNext, begun \in [Process -> Nat]
  PROVE  /\ begun' \in [Process -> Nat]
         /\ \A p \in Process : phase'[p] \in Serving => begun'[p] = begun[p]
<1>1. CASE ChannelsFollow
  BY <1>1 DEF ChannelsFollow
<1>2. CASE UNCHANGED begun
  BY <1>2
<1> QED BY <1>1, <1>2 DEF RunsNext, Start, StartOlder, OpenPort, Connect, Prepare, Quit,
              Disconnect, Return, Crash

(* The steps of the schedulers, the timer and the welcome do not touch     *)
(* each other's state.                                                     *)
TipStep(p) == TipSchedule(p) \/ TipFire(p) \/ TipChoose(p) \/ TipPost(p) \/ TipPasses(p)
FortuneStep(p) == FortuneSchedule(p) \/ FortuneFire(p) \/ FortunePost(p) \/ FortunePasses(p)
WelcomeStep(p) ==
  \E n \in 1 .. Len(world.keys) : WelcomeClaim(p, n) \/ WelcomePost(p, n) \/ WelcomePasses(p, n)
VoiceStep(p) == (\E v \in Voice : Choose(p, v)) \/ Expire(p) \/ AnnounceReset(p)

LEMMA PostsStep ==
  ASSUME NEW p \in Process, Posts(p)
  PROVE  TipStep(p) \/ FortuneStep(p) \/ WelcomeStep(p) \/ VoiceStep(p)
BY DEF Posts, TipStep, FortuneStep, WelcomeStep, VoiceStep

LEMMA StepsApart ==
  ASSUME NEW p \in Process
  PROVE  /\ TipStep(p) => UNCHANGED <<runs, clock, rested, fortune, welcome>>
         /\ FortuneStep(p) => UNCHANGED <<runs, clock, rested, db, tip, welcome>>
         /\ WelcomeStep(p) => UNCHANGED <<runs, clock, rested, tip, fortune>>
         /\ VoiceStep(p) => UNCHANGED <<runs, clock, rested, db, tip, fortune, welcome, attempts>>
<1>1. TipStep(p) => UNCHANGED <<runs, clock, rested, fortune, welcome>>
  BY DEF TipStep, TipSchedule, TipFire, TipChoose, TipPost, TipPasses
<1>2. FortuneStep(p) => UNCHANGED <<runs, clock, rested, db, tip, welcome>>
  BY DEF FortuneStep, FortuneSchedule, FortuneFire, FortunePost, FortunePasses
<1>3. WelcomeStep(p) => UNCHANGED <<runs, clock, rested, tip, fortune>>
  BY DEF WelcomeStep, WelcomeClaim, WelcomePost, WelcomePasses
<1>4. VoiceStep(p) => UNCHANGED <<runs, clock, rested, db, tip, fortune, welcome, attempts>>
  BY DEF VoiceStep, Choose, Expire, AnnounceReset
<1> QED BY <1>1, <1>2, <1>3, <1>4

(* The bag of attempts.                                                    *)
LEMMA Transmitted ==
  ASSUME NEW key, Transmits(key)
  PROVE  /\ DOMAIN attempts' = DOMAIN attempts \cup {key}
         /\ \A k \in DOMAIN attempts \ {key} : attempts'[k] = attempts[k] + 0
         /\ key \notin DOMAIN attempts => attempts'[key] = 1
<1>1. PICK more : more = SetToBag({key}) /\ DOMAIN more = {key} /\ more[key] = 1
  <2>1. SetToBag({key}) = [e \in {key} |-> 1]
    BY DEF SetToBag
  <2> QED BY <2>1
<1>2. attempts' = attempts (+) more
  BY <1>1 DEF Transmits
<1>3. attempts' = [e \in (DOMAIN attempts) \cup (DOMAIN more) |->
        (IF e \in DOMAIN attempts THEN attempts[e] ELSE 0) + (IF e \in DOMAIN more THEN more[e] ELSE 0)]
  BY <1>2 DEF (+)
<1> QED BY <1>1, <1>3

-----------------------------------------------------------------------------
(* The clock, and who has schedulers *)

LEMMA ClockNext ==
  ASSUME ClockInv, [Next]_vars
  PROVE  ClockInv'
<1>1. world' = world
  BY WorldStays
<1>2. Winter \in Nat /\ Winter >= 2
  BY PostsAssumption
<1>3. CASE UNCHANGED clock
  BY <1>1, <1>3 DEF ClockInv, clock
<1>4. CASE Tick
  <2>1. /\ now \in Nat /\ now' = now + 1 /\ turned' = turned
        /\ world.clock = "winter" => turned \/ now + 1 # Winter
        /\ fold' = (fold /\ now + 1 < Winter)
    BY <1>4 DEF Tick, ClockInv
  <2>2. fold' \in BOOLEAN /\ (fold' => fold /\ now + 1 < Winter)
    BY <2>1
  <2>3. fold => turned /\ world.clock = "winter" /\ Winter - 2 <= now
    BY DEF ClockInv
  <2>4. world.clock = "winter" /\ ~turned => now < Winter
    BY DEF ClockInv
  <2>5. now' \in Nat /\ (Winter - 2 <= now => Winter - 2 <= now')
    BY <1>2, <2>1
  <2>6. fold' => turned' /\ world'.clock = "winter" /\ Winter - 2 <= now' /\ now' < Winter
    BY <1>1, <2>1, <2>2, <2>3, <2>5
  <2>7. world'.clock = "winter" /\ ~turned' => now' < Winter
    BY <1>1, <1>2, <2>1, <2>4
  <2> QED BY <2>2, <2>5, <2>6, <2>7 DEF ClockInv
<1>5. CASE TurnBack
  <2>1. ~turned /\ turned' = TRUE /\ ~fold /\ now \in Nat
    BY <1>5 DEF TurnBack, ClockInv
  <2>2. CASE world.clock = "winter" /\ now' = Winter - 2 /\ fold' = TRUE
    <3>1. now' \in Nat /\ Winter - 2 <= now' /\ now' < Winter
      BY <1>2, <2>2
    <3> QED BY <1>1, <2>1, <2>2, <3>1 DEF ClockInv
  <2>3. CASE world.clock = "corrected" /\ now > 0 /\ now' = now - 1 /\ fold' = fold
    <3>1. now' \in Nat
      BY <2>1, <2>3
    <3> QED BY <1>1, <2>1, <2>3, <3>1 DEF ClockInv
  <2> QED BY <1>5, <2>2, <2>3 DEF TurnBack
<1>6. ASSUME NEW p \in Process, BeginPosts(p) \/ Posts(p) PROVE UNCHANGED clock
  BY <1>6, PostsStep, StepsApart DEF BeginPosts
<1> QED BY <1>3, <1>4, <1>5, <1>6 DEF Next, PostsFollow, vars

LEMMA ServedNext ==
  ASSUME RadioInv, ServedInv, [Next]_vars
  PROVE  ServedInv'
<1>1. CASE RunsNext /\ PostsFollow
  <2>1. /\ begun' \in [Process -> Nat]
        /\ \A p \in Process : phase'[p] \in Serving => begun'[p] = begun[p]
    BY <1>1, ServersGoOn DEF ServedInv
  <2>2. /\ tip' = [p \in Process |-> IF phase'[p] \in Serving THEN tip[p] ELSE NoTip]
        /\ fortune' = [p \in Process |-> IF phase'[p] \in Serving THEN fortune[p] ELSE NoFortune]
    BY <1>1 DEF PostsFollow
  <2>3. NoTip.at = "off" /\ NoFortune.at = "off"
    BY DEF NoTip, NoFortune
  <2>4. ASSUME NEW p \in Process, tip'[p].at # "off" \/ fortune'[p].at # "off"
        PROVE  phase'[p] \in Serving /\ begun'[p] > 0
    BY <2>1, <2>2, <2>3, <2>4 DEF ServedInv
  <2>5. tip' = [p \in Process |-> tip'[p]] /\ fortune' = [p \in Process |-> fortune'[p]]
    BY <2>2
  <2> QED BY <2>1, <2>4, <2>5 DEF ServedInv
<1>2. ASSUME NEW p \in Process, BeginPosts(p) PROVE ServedInv'
  <2>1. /\ begun' = [begun EXCEPT ![p] = begun[p] + 1] /\ phase[p] \in Serving
        /\ phase' = phase \/ phase' = [phase EXCEPT ![p] = "up"]
    BY <1>2 DEF BeginPosts, Begin, Goes, instance, Serving
  <2>2. phase \in [Process -> Phases]
    BY DEF RadioInv, LockInv
  <2>3. \A q \in Process : phase[q] \in Serving => phase'[q] \in Serving
    BY <2>1, <2>2 DEF Serving
  <2>4. begun' \in [Process -> Nat] /\ begun'[p] > 0 /\ \A q \in Process \ {p} : begun'[q] = begun[q]
    BY <2>1 DEF ServedInv
  <2>5. (\E t : tip' = [tip EXCEPT ![p] = t]) \/ tip' = tip
    BY <1>2 DEF BeginPosts, TipGoes
  <2>6. (\E f : fortune' = [fortune EXCEPT ![p] = f]) \/ fortune' = fortune
    BY <1>2 DEF BeginPosts
  <2>7. \A q \in Process \ {p} : tip'[q] = tip[q] /\ fortune'[q] = fortune[q]
    BY <2>5, <2>6 DEF ServedInv
  <2>8. tip' = [q \in Process |-> tip'[q]] /\ fortune' = [q \in Process |-> fortune'[q]]
    BY <2>5, <2>6 DEF ServedInv
  <2> QED BY <2>1, <2>3, <2>4, <2>7, <2>8 DEF ServedInv
<1>3. ASSUME UNCHANGED <<runs, tip, fortune>> PROVE ServedInv'
  BY <1>3 DEF ServedInv, runs, instance
<1>4. ASSUME NEW p \in Process, TipStep(p) PROVE ServedInv'
  <2>1. UNCHANGED <<phase, begun, fortune>>
    BY <1>4, StepsApart DEF runs, instance
  <2>2. (\E t : tip' = [tip EXCEPT ![p] = t]) /\ tip[p].at # "off"
    BY <1>4 DEF TipStep, TipSchedule, TipFire, TipChoose, TipPost, TipPasses, TipGoes
  <2>3. tip' = [q \in Process |-> tip'[q]] /\ \A q \in Process \ {p} : tip'[q] = tip[q]
    BY <2>2 DEF ServedInv
  <2> QED BY <2>1, <2>2, <2>3 DEF ServedInv
<1>5. ASSUME NEW p \in Process, FortuneStep(p) PROVE ServedInv'
  <2>1. UNCHANGED <<phase, begun, tip>>
    BY <1>5, StepsApart DEF runs, instance
  <2>2. (\E f : fortune' = [fortune EXCEPT ![p] = f]) /\ fortune[p].at # "off"
    BY <1>5 DEF FortuneStep, FortuneSchedule, FortuneFire, FortunePost, FortunePasses, FortuneGoes
  <2>3. fortune' = [q \in Process |-> fortune'[q]] /\ \A q \in Process \ {p} : fortune'[q] = fortune[q]
    BY <2>2 DEF ServedInv
  <2> QED BY <2>1, <2>2, <2>3 DEF ServedInv
<1>6. ASSUME NEW p \in Process, Posts(p) PROVE ServedInv'
  BY <1>3, <1>4, <1>5, <1>6, PostsStep, StepsApart
<1>7. CASE Tick \/ TurnBack \/ UNCHANGED vars
  BY <1>3, <1>7 DEF Tick, TurnBack, vars, posts
<1> QED BY <1>1, <1>2, <1>6, <1>7 DEF Next

-----------------------------------------------------------------------------
(* The tips *)

(* Nothing that a scheduler of tips knows of changes.                      *)
LEMMA TipsStay ==
  ASSUME TipsInv, UNCHANGED <<now, fold, rested, tip, world>>, TipBases' = TipBases,
         db'.slot = db.slot, DOMAIN db' = DOMAIN db
  PROVE  TipsInv'
<1>1. \A p \in Process : TipSchedulerInv(tip[p])'
  BY DEF TipsInv, TipSchedulerInv, Past
<1> QED BY <1>1 DEF TipsInv, Over, Past

(* A scheduler goes on; it is the only one.                                *)
LEMMA TipMoves ==
  ASSUME RadioInv, ServedInv, TipsInv, UNCHANGED <<clock, rested, world>>,
         NEW p \in Process, tip[p].at # "off", NEW u, tip' = [tip EXCEPT ![p] = u],
         u.at # "off", TipSchedulerInv(u)',
         DOMAIN db' = {"slot", "used", "welcomed"}, db'.slot \in Nat \cup {None},
         world.db => \A b \in TipBases' : db'.slot # None /\ b <= db'.slot,
         ~world.db => db'.slot = None /\ \A b \in TipBases' : Over(b)
  PROVE  TipsInv'
<1>1. \A q \in Process : tip'[q] = IF q = p THEN u ELSE tip[q]
  BY DEF ServedInv
<1>2. ASSUME NEW q \in Process, q # p PROVE TipSchedulerInv(tip[q])'
  <2>1. tip[q].at = "off"
    BY <1>2, OneServer DEF ServedInv
  <2> QED BY <1>1, <1>2, <2>1 DEF TipsInv, TipSchedulerInv, Planned
<1>3. TipSchedulerInv(tip[p])'
  BY <1>1 DEF TipSchedulerInv
<1>4. ~world'.db => \A b \in TipBases' : Over(b)'
  BY DEF Over, clock
<1>5. tip'[p].at # "off"
  BY <1>1
<1> QED BY <1>2, <1>3, <1>4, <1>5 DEF TipsInv

LEMMA TipScheduleKeeps ==
  ASSUME RadioInv, ClockInv, ServedInv, TipsInv, NEW p \in Process, TipSchedule(p)
  PROVE  TipsInv'
<1>1. PICK t : t = tip[p]
  OBVIOUS
<1>2. /\ t.at = "idle" /\ TipSchedulerInv(t) /\ DOMAIN t = {"at", "next", "last", "used"}
      /\ t.last \in Nat \cup {None}
  BY <1>1 DEF TipSchedule, TipsInv, TipSchedulerInv
<1>3. PICK behind \in BOOLEAN : behind = (t.last # None /\ now <= t.last)
  OBVIOUS
<1>3a. /\ behind => t.last \in Nat /\ now <= t.last
       /\ ~behind => t.last = None \/ ~(now <= t.last)
  BY <1>2, <1>3
<1>4. PICK from : from = IF behind THEN t.last + 1 ELSE now
  OBVIOUS
<1>5. PICK repeated \in BOOLEAN : repeated = (fold /\ ~behind)
  OBVIOUS
<1>6. PICK x \in NextFire(from, repeated, Morning) \cup NextFire(from, repeated, Evening) :
        tip' = [tip EXCEPT ![p] = [t EXCEPT !.at = "asleep", !.next = x]]
  BY <1>1, <1>3, <1>4, <1>5 DEF TipSchedule, TipGoes
<1>7. from \in Nat
  <2>1. now \in Nat
    BY DEF ClockInv
  <2>2. CASE behind
    BY <1>4, <1>3a, <2>2
  <2>3. CASE ~behind
    BY <1>4, <2>1, <2>3
  <2> QED BY <2>2, <2>3
<1>8. /\ x \in Nat /\ SlotBase(x) \in Nat /\ from <= SlotBase(x) /\ SlotBase(x) <= x
      /\ repeated => SlotBase(x) >= Midnight(from)
  BY <1>7, TipSlot
<1>9. UNCHANGED <<runs, clock, rested, db, attempts>>
  BY DEF TipSchedule
<1>10. TipBases' = TipBases
  BY <1>9 DEF TipBases
<1>11. ASSUME NEW b \in TipBases PROVE b < SlotBase(x)
  <2>1. b \in Nat /\ now \in Nat /\ Winter \in Nat
    BY PostsAssumption DEF TipBases, ClockInv
  <2>2. CASE t.last = None
    <3>1. ~behind /\ from = now /\ (repeated <=> fold)
      BY <1>3, <1>4, <1>5, <2>2
    <3>2. IF fold THEN b < Winter ELSE b < now
      BY <1>2, <2>2 DEF TipSchedulerInv, Past
    <3>3. CASE fold
      <4>1. Midnight(now) >= Winter /\ SlotBase(x) >= Midnight(now)
        BY <1>8, <3>1, <3>3, FoldEnds
      <4>2. Midnight(now) \in Int
        BY <2>1, TimeOf, PostsAssumption DEF Midnight
      <4> QED BY <1>8, <2>1, <3>2, <3>3, <4>1, <4>2
    <3>4. CASE ~fold
      BY <1>8, <2>1, <3>1, <3>2, <3>4
    <3> QED BY <3>3, <3>4
  <2>3. CASE t.last # None
    <3>1. b <= t.last /\ t.last \in Nat
      BY <1>2, <2>3 DEF TipSchedulerInv
    <3>2. t.last < from
      <4>1. CASE behind
        BY <1>4, <3>1, <4>1
      <4>2. CASE ~behind
        BY <1>4, <1>3a, <2>1, <2>3, <3>1, <4>2
      <4> QED BY <4>1, <4>2
    <3> QED BY <1>7, <1>8, <2>1, <3>1, <3>2
  <2> QED BY <2>2, <2>3
<1>12. PICK u : u = [t EXCEPT !.at = "asleep", !.next = x]
  OBVIOUS
<1>13. u.at = "asleep" /\ u.next = x /\ u.last = t.last /\ DOMAIN u = {"at", "next", "last", "used"}
  BY <1>2, <1>12
<1>14. u.last # None => \A b \in TipBases : b <= u.last
  BY <1>2, <1>13 DEF TipSchedulerInv
<1>15. TipSchedulerInv(u)'
  BY <1>2, <1>8, <1>10, <1>11, <1>13, <1>14 DEF TipSchedulerInv, Planned
<1> QED BY <1>1, <1>2, <1>6, <1>9, <1>10, <1>12, <1>13, <1>15, TipMoves
        DEF TipsInv, runs

LEMMA TipFireKeeps ==
  ASSUME RadioInv, ClockInv, ServedInv, TipsInv, NEW p \in Process, TipFire(p)
  PROVE  TipsInv'
<1>1. PICK t : t = tip[p]
  OBVIOUS
<1>2. /\ t.at = "asleep" /\ DOMAIN t = {"at", "next", "last", "used"}
      /\ t.last \in Nat \cup {None} /\ t.next \in Nat
      /\ t.last # None => \A b \in TipBases : b <= t.last
      /\ SlotBase(t.next) <= t.next
      /\ \A b \in TipBases : b < SlotBase(t.next)
  BY <1>1 DEF TipFire, TipsInv, TipSchedulerInv, Planned
<1>3. UNCHANGED <<runs, clock, rested, attempts>>
  BY DEF TipFire
<1>4. TipBases' = TipBases /\ TipBases \subseteq Nat
  BY <1>3 DEF TipBases
<1>5. SlotBase(t.next) \in Int
  BY <1>2, BaseIsTime
<1>6. \A b \in TipBases : b <= t.next
  BY <1>2, <1>4, <1>5
<1>7. CASE t.last # None /\ TipGoes(p, [t EXCEPT !.at = "idle"]) /\ UNCHANGED db
  <2>1. PICK u : u = [t EXCEPT !.at = "idle"]
    OBVIOUS
  <2>2. u.at = "idle" /\ u.last = t.last /\ DOMAIN u = {"at", "next", "last", "used"}
    BY <1>2, <2>1
  <2>3. TipSchedulerInv(u)'
    BY <1>2, <1>4, <1>7, <2>2 DEF TipSchedulerInv, Planned
  <2> QED BY <1>1, <1>2, <1>3, <1>4, <1>7, <2>1, <2>2, <2>3, TipMoves DEF TipsInv, TipGoes, runs
<1>8. CASE TipGoes(p, [t EXCEPT !.last = t.next, !.at = "idle"]) /\ UNCHANGED db
  <2>1. PICK u : u = [t EXCEPT !.last = t.next, !.at = "idle"]
    OBVIOUS
  <2>2. u.at = "idle" /\ u.last = t.next /\ DOMAIN u = {"at", "next", "last", "used"}
    BY <1>2, <2>1
  <2>3. u.last # None
    BY <1>2, <2>2, PostsAssumption
  <2>4. TipSchedulerInv(u)'
    BY <1>2, <1>4, <1>6, <2>2, <2>3 DEF TipSchedulerInv, Planned
  <2> QED BY <1>1, <1>2, <1>3, <1>4, <1>8, <2>1, <2>2, <2>4, TipMoves DEF TipsInv, TipGoes, runs
<1>9. CASE Saved(t.next, t.used) /\ TipGoes(p, [t EXCEPT !.last = t.next, !.at = "trying"])
  <2>1. PICK u : u = [t EXCEPT !.last = t.next, !.at = "trying"]
    OBVIOUS
  <2>2. /\ u.at = "trying" /\ u.last = t.next /\ u.next = t.next
        /\ DOMAIN u = {"at", "next", "last", "used"}
    BY <1>2, <2>1
  <2>3. /\ DOMAIN db' = {"slot", "used", "welcomed"}
        /\ db'.slot = IF world.db THEN t.next ELSE db.slot
    BY <1>9 DEF Saved, TipsInv
  <2>4. TipSchedulerInv(u)'
    BY <1>2, <1>3, <1>4, <1>6, <2>2, <2>3 DEF TipSchedulerInv, Planned, runs
  <2>5. /\ db'.slot \in Nat \cup {None}
        /\ world.db => \A b \in TipBases' : db'.slot # None /\ b <= db'.slot
        /\ ~world.db => db'.slot = None /\ \A b \in TipBases' : Over(b)
    BY <1>2, <1>4, <1>6, <2>3, PostsAssumption DEF TipsInv
  <2> QED BY <1>1, <1>2, <1>3, <1>9, <2>1, <2>2, <2>3, <2>4, <2>5, TipMoves DEF TipGoes, runs
<1> QED BY <1>1, <1>7, <1>8, <1>9 DEF TipFire, SaveFails

(* What is known of a run that has claimed a slot.                         *)
LEMMA TipClaimed ==
  ASSUME TipsInv, NEW p \in Process, tip[p].at \in {"trying", "claimed"}
  PROVE  /\ DOMAIN tip[p] = {"at", "next", "last", "used"}
         /\ tip[p].next \in Nat /\ tip[p].last = tip[p].next /\ tip[p].last # None
         /\ world.db => db.slot = tip[p].next
         /\ SlotBase(tip[p].next) \in Nat /\ SlotBase(tip[p].next) <= tip[p].next
         /\ \A b \in TipBases : b < SlotBase(tip[p].next) /\ b <= tip[p].next
<1>1. PICK t : t = tip[p]
  OBVIOUS
<1>2. /\ DOMAIN t = {"at", "next", "last", "used"}
      /\ t.next \in Nat /\ t.last = t.next
      /\ world.db => db.slot = t.next
      /\ SlotBase(t.next) <= t.next
      /\ \A b \in TipBases : b < SlotBase(t.next)
  BY <1>1 DEF TipsInv, TipSchedulerInv, Planned
<1>3. SlotBase(t.next) \in Nat
  BY <1>2, BaseIsTime
<1>4. TipBases \subseteq Nat /\ None \notin Nat
  BY PostsAssumption DEF TipBases
<1>5. \A b \in TipBases : b < SlotBase(t.next) /\ b <= t.next
  <2> SUFFICES ASSUME NEW b \in TipBases PROVE b < SlotBase(t.next) /\ b <= t.next
    OBVIOUS
  <2>1. b \in Nat /\ b < SlotBase(t.next)
    BY <1>2, <1>4
  <2> QED BY <2>1, <1>2, <1>3
<1>6. t.last # None
  BY <1>2, <1>4
<1> QED BY <1>1, <1>2, <1>3, <1>5, <1>6

LEMMA TipPassesKeeps ==
  ASSUME RadioInv, ServedInv, TipsInv, NEW p \in Process, TipPasses(p)
  PROVE  TipsInv'
<1>1. tip[p].at \in {"trying", "claimed"}
  BY DEF TipPasses
<1>2. PICK t : t = tip[p] /\ t.at # "off"
  BY <1>1
<1>3. /\ DOMAIN t = {"at", "next", "last", "used"}
      /\ t.last \in Nat /\ t.last # None
      /\ \A b \in TipBases : b <= t.last
  BY <1>1, <1>2, TipClaimed
<1>4. PICK u : u = [t EXCEPT !.at = "idle"]
  OBVIOUS
<1>5. u.at = "idle" /\ u.last = t.last /\ DOMAIN u = {"at", "next", "last", "used"}
  BY <1>3, <1>4
<1>6. UNCHANGED <<clock, rested, world, db, attempts>> /\ tip' = [tip EXCEPT ![p] = u]
  BY <1>2, <1>4 DEF TipPasses, TipGoes, runs
<1>7. TipBases' = TipBases
  BY <1>6 DEF TipBases
<1>8. TipSchedulerInv(u)'
  BY <1>3, <1>5, <1>7 DEF TipSchedulerInv, Planned
<1> QED BY <1>2, <1>5, <1>6, <1>7, <1>8, TipMoves DEF TipsInv

LEMMA TipChooseKeeps ==
  ASSUME RadioInv, ServedInv, TipsInv, NEW p \in Process, TipChoose(p)
  PROVE  TipsInv'
<1>1. tip[p].at = "trying"
  BY DEF TipChoose
<1>2. PICK t : t = tip[p] /\ t.at # "off"
  BY <1>1
<1>3. /\ DOMAIN t = {"at", "next", "last", "used"}
      /\ t.next \in Nat /\ t.last = t.next /\ t.last # None
      /\ world.db => db.slot = t.next
      /\ SlotBase(t.next) <= t.next
      /\ \A b \in TipBases : b < SlotBase(t.next) /\ b <= t.next
  BY <1>1, <1>2, TipClaimed
<1>4. UNCHANGED <<clock, rested, world, attempts>>
  BY DEF TipChoose, runs
<1>5. PICK used : \E at \in {"claimed", "idle"} :
        /\ tip' = [tip EXCEPT ![p] = [t EXCEPT !.used = used, !.at = at]]
        /\ Saved(t.last, used) \/ UNCHANGED db
  BY <1>2 DEF TipChoose, TipGoes, SaveFails
<1>5a. PICK at \in {"claimed", "idle"} :
        /\ tip' = [tip EXCEPT ![p] = [t EXCEPT !.used = used, !.at = at]]
        /\ Saved(t.last, used) \/ UNCHANGED db
  BY <1>5
<1>6. PICK u : u = [t EXCEPT !.used = used, !.at = at]
  OBVIOUS
<1>7. /\ u.at = at /\ u.last = t.last /\ u.next = t.next
      /\ DOMAIN u = {"at", "next", "last", "used"}
  BY <1>3, <1>6
<1>8. DOMAIN db' = {"slot", "used", "welcomed"} /\ db'.slot = db.slot
  BY <1>3, <1>5a DEF Saved, TipsInv
<1>9. TipBases' = TipBases
  BY <1>4 DEF TipBases
<1>10. TipSchedulerInv(u)'
  BY <1>3, <1>4, <1>7, <1>8, <1>9 DEF TipSchedulerInv, Planned
<1> QED BY <1>2, <1>4, <1>5a, <1>6, <1>7, <1>8, <1>9, <1>10, TipMoves DEF TipsInv

(* A key names its kind.                                                   *)
LEMMA KeysApart ==
  ASSUME NEW d, NEW m, NEW e, NEW n
  PROVE  /\ <<"tip", d, m>> # <<"fortune", e>> /\ <<"tip", d, m>> # <<"welcome", n>>
         /\ <<"fortune", e>> # <<"welcome", n>>
OBVIOUS

LEMMA TipPostKeeps ==
  ASSUME RadioInv, ClockInv, ServedInv, TipsInv, NEW p \in Process, TipPost(p)
  PROVE  TipsInv' /\ <<"tip", Day(tip[p].next), Hour(tip[p].next) < Evening>> \notin DOMAIN attempts
<1>1. tip[p].at = "claimed"
  BY DEF TipPost
<1>2. PICK t : t = tip[p] /\ t.at # "off"
  BY <1>1
<1>3. /\ DOMAIN t = {"at", "next", "last", "used"}
      /\ t.next \in Nat /\ t.last = t.next /\ t.last # None
      /\ world.db => db.slot = t.next
      /\ SlotBase(t.next) \in Nat /\ SlotBase(t.next) <= t.next
      /\ \A b \in TipBases : b < SlotBase(t.next) /\ b <= t.next
  BY <1>1, <1>2, TipClaimed
<1>4. UNCHANGED <<clock, rested, world, db>> /\ t.next <= now /\ ~fold
  BY <1>2 DEF TipPost, Eligible, runs
<1>5. PICK d \in Nat : d = Day(t.next)
  BY <1>3, TimeOf
<1>5a. PICK m \in BOOLEAN : m = (Hour(t.next) < Evening)
  BY <1>3, MorningOrNot
<1>6. SlotBase(t.next) = BaseOf(d, m)
  BY <1>5, <1>5a DEF SlotBase
<1>7. Transmits(<<"tip", d, m>>)
  BY <1>2, <1>5, <1>5a DEF TipPost
<1>8. DOMAIN attempts' = DOMAIN attempts \cup {<<"tip", d, m>>}
  BY <1>7, Transmitted
<1>9. TipBases' = TipBases \cup {SlotBase(t.next)}
  <2>1. ASSUME NEW e \in Nat, NEW n \in BOOLEAN, <<"tip", e, n>> = <<"tip", d, m>>
        PROVE  BaseOf(e, n) = SlotBase(t.next)
    BY <1>6, <2>1
  <2> QED BY <1>3, <1>5, <1>6, <1>8, <2>1 DEF TipBases
<1>10. <<"tip", d, m>> \notin DOMAIN attempts
  <2>1. <<"tip", d, m>> \in DOMAIN attempts => SlotBase(t.next) \in TipBases
    BY <1>3, <1>5, <1>6 DEF TipBases
  <2> QED BY <1>3, <2>1
<1>11. PICK u : u = [t EXCEPT !.at = "idle"]
  OBVIOUS
<1>12. u.at = "idle" /\ u.last = t.last /\ DOMAIN u = {"at", "next", "last", "used"}
  BY <1>3, <1>11
<1>13. tip' = [tip EXCEPT ![p] = u]
  BY <1>2, <1>11 DEF TipPost, TipGoes
<1>14. \A b \in TipBases' : b <= t.next
  BY <1>3, <1>9
<1>15. TipSchedulerInv(u)'
  BY <1>3, <1>12, <1>14 DEF TipSchedulerInv, Planned
<1>16. world.db => \A b \in TipBases' : db'.slot # None /\ b <= db'.slot
  BY <1>3, <1>4, <1>14
<1>17. ~world.db => db'.slot = None /\ \A b \in TipBases' : Over(b)
  <2>1. ~world.db => db.slot = None /\ \A b \in TipBases : Over(b)
    BY DEF TipsInv
  <2>2. Over(SlotBase(t.next))
    BY <1>3, <1>4 DEF Over, ClockInv
  <2> QED BY <1>4, <1>9, <2>1, <2>2
<1>18. TipsInv'
  BY <1>2, <1>4, <1>12, <1>13, <1>15, <1>16, <1>17, TipMoves DEF TipsInv
<1> QED BY <1>2, <1>5, <1>5a, <1>10, <1>18

(* A run may end with its schedulers; from then on time has to pass.       *)
LEMMA TipsFollow ==
  ASSUME ServedInv, TipsInv, PostsFollow, world' = world
  PROVE  TipsInv'
<1>1. /\ tip' = [p \in Process |-> IF phase'[p] \in Serving THEN tip[p] ELSE NoTip]
      /\ rested' = (rested /\ \A p \in Process : phase[p] \in Serving => phase'[p] \in Serving)
      /\ UNCHANGED <<clock, db, attempts>>
  BY DEF PostsFollow
<1>2. TipBases' = TipBases
  BY <1>1 DEF TipBases
<1>3. \A p \in Process : tip'[p] = tip[p] \/ tip'[p] = NoTip
  BY <1>1
<1>4. ASSUME NEW p \in Process PROVE TipSchedulerInv(tip[p])'
  <2>1. CASE tip'[p] = tip[p]
    BY <1>1, <1>2, <2>1 DEF TipsInv, TipSchedulerInv, Past, clock
  <2>2. CASE tip'[p] = NoTip
    <3>1. PICK u : u = tip'[p]
      OBVIOUS
    <3>2. DOMAIN u = {"at", "next", "last", "used"} /\ u.at = "off" /\ u.last = None
      BY <2>2, <3>1 DEF NoTip
    <3> QED BY <3>1, <3>2 DEF TipSchedulerInv, Planned
  <2> QED BY <1>3, <2>1, <2>2
<1>5. ASSUME rested', \A p \in Process : tip'[p].at = "off"
      PROVE  rested /\ \A p \in Process : tip[p].at = "off"
  <2>1. rested /\ \A p \in Process : phase[p] \in Serving => phase'[p] \in Serving
    BY <1>1, <1>5
  <2>2. ASSUME NEW p \in Process, tip[p].at # "off" PROVE FALSE
    <3>1. phase'[p] \in Serving
      BY <2>1, <2>2 DEF ServedInv
    <3>2. tip'[p] = tip[p]
      BY <1>1, <3>1
    <3> QED BY <1>5, <2>2, <3>2
  <2> QED BY <2>1, <2>2
<1>6. world'.db => \A b \in TipBases' : db'.slot # None /\ b <= db'.slot
  BY <1>1, <1>2 DEF TipsInv
<1>7. ~world'.db => /\ db'.slot = None
                    /\ \A b \in TipBases' : Over(b)'
  BY <1>1, <1>2 DEF TipsInv, Over, clock
<1>8. ASSUME ~world'.db, rested', \A p \in Process : tip'[p].at = "off"
      PROVE  \A b \in TipBases' : Past(b)'
  <2>1. \A b \in TipBases : Past(b)
    BY <1>5, <1>8 DEF TipsInv
  <2> QED BY <1>1, <1>2, <2>1 DEF Past, clock
<1>9. DOMAIN db' = {"slot", "used", "welcomed"} /\ db'.slot \in Nat \cup {None}
  BY <1>1 DEF TipsInv
<1> QED BY <1>4, <1>6, <1>7, <1>8, <1>9 DEF TipsInv

(* A channel begins: its scheduler knows of all attempts by the table, or  *)
(* because time has passed since the last of them.                         *)
LEMMA TipsBegin ==
  ASSUME RadioInv, ServedInv, TipsInv, NEW p \in Process, BeginPosts(p)
  PROVE  TipsInv'
<1>1. UNCHANGED <<clock, rested, db, attempts, world>> /\ rested /\ phase[p] \in Serving
  BY DEF BeginPosts, Begin, Serving
<1>2. TipBases' = TipBases
  BY <1>1 DEF TipBases
<1>3. CASE UNCHANGED tip
  BY <1>1, <1>2, <1>3, TipsStay DEF clock
<1>4. CASE begun[p] = 0 /\ tip' = [tip EXCEPT ![p] = [at |-> "idle", next |-> None, last |-> db.slot, used |-> db.used]]
  <2>1. PICK u : u = [at |-> "idle", next |-> None, last |-> db.slot, used |-> db.used]
    OBVIOUS
  <2>2. DOMAIN u = {"at", "next", "last", "used"} /\ u.at = "idle" /\ u.last = db.slot
    BY <2>1
  <2>3. \A q \in Process : tip'[q] = IF q = p THEN u ELSE tip[q]
    BY <1>4, <2>1 DEF ServedInv
  <2>4. ASSUME NEW q \in Process PROVE tip[q].at = "off"
    <3>1. tip[q].at # "off" => q = p /\ begun[p] > 0
      BY <1>1, OneServer DEF ServedInv
    <3> QED BY <1>4, <3>1
  <2>5. ~world.db => \A b \in TipBases : Past(b)
    BY <1>1, <2>4 DEF TipsInv
  <2>6. TipSchedulerInv(u)'
    <3>1. u.last \in Nat \cup {None}
      BY <2>2 DEF TipsInv
    <3>2. u.last = None => \A b \in TipBases : ~world.db /\ Past(b)
      BY <2>2, <2>5 DEF TipsInv
    <3>3. u.last # None => \A b \in TipBases : b <= u.last
      BY <2>2 DEF TipsInv
    <3>4. Past(0)' = Past(0) /\ \A b : Past(b)' <=> Past(b)
      BY <1>1 DEF Past, clock
    <3> QED BY <1>1, <1>2, <2>2, <3>1, <3>2, <3>3, <3>4 DEF TipSchedulerInv, Planned, Past, clock
  <2>7. \A q \in Process : q # p => TipSchedulerInv(tip[q])'
    BY <1>1, <1>2, <2>3, <2>4 DEF TipsInv, TipSchedulerInv, Planned
  <2>8. TipSchedulerInv(tip[p])'
    BY <2>3, <2>6 DEF TipSchedulerInv
  <2>9. tip'[p].at # "off"
    BY <2>2, <2>3
  <2>10. world'.db => \A b \in TipBases' : db'.slot # None /\ b <= db'.slot
    BY <1>1, <1>2 DEF TipsInv
  <2>11. ~world'.db => db'.slot = None /\ \A b \in TipBases' : Over(b)'
    BY <1>1, <1>2 DEF TipsInv, Over, clock
  <2>12. DOMAIN db' = {"slot", "used", "welcomed"} /\ db'.slot \in Nat \cup {None}
    BY <1>1 DEF TipsInv
  <2>13. ASSUME NEW q \in Process PROVE TipSchedulerInv(tip[q])'
    BY <2>7, <2>8
  <2>14. ~world'.db => /\ db'.slot = None
                       /\ \A b \in TipBases' : Over(b)'
                       /\ rested' /\ (\A q \in Process : tip'[q].at = "off") => \A b \in TipBases' : Past(b)'
    BY <2>9, <2>11
  <2> QED BY <2>10, <2>12, <2>13, <2>14 DEF TipsInv
<1>5. begun[p] + 1 = 1 => begun[p] = 0
  BY DEF ServedInv
<1> QED BY <1>3, <1>4, <1>5 DEF BeginPosts, TipGoes

(* Time passes, or the clocks are set back: what has begun is past.        *)
LEMMA TimePasses ==
  ASSUME ClockInv, Tick \/ TurnBack, world.clock # "corrected", NEW b \in Nat, Over(b)
  PROVE  Past(b)' /\ Over(b)'
<1>1. now \in Nat /\ Winter \in Nat
  BY PostsAssumption DEF ClockInv
<1>2. CASE Tick
  <2>1. now' = now + 1 /\ fold' = (fold /\ now + 1 < Winter)
    BY <1>2 DEF Tick
  <2>2. CASE fold'
    <3>1. fold
      BY <2>1, <2>2
    <3> QED BY <2>2, <3>1 DEF Past, Over
  <2>3. CASE ~fold'
    <3>1. CASE fold
      <4>1. ~(now + 1 < Winter)
        BY <2>1, <2>3, <3>1
      <4> QED BY <1>1, <2>1, <2>3, <3>1, <4>1 DEF Past, Over
    <3>2. CASE ~fold
      BY <1>1, <2>1, <2>3, <3>2 DEF Past, Over
    <3> QED BY <3>1, <3>2
  <2> QED BY <2>2, <2>3
<1>3. CASE TurnBack
  <2>1. now + 1 = Winter /\ fold' = TRUE /\ ~turned
    BY <1>3 DEF TurnBack
  <2>2. ~fold
    BY <2>1 DEF ClockInv
  <2> QED BY <1>1, <2>1, <2>2 DEF Past, Over
<1> QED BY <1>2, <1>3

LEMMA TipsTime ==
  ASSUME Tabled, RadioInv, ClockInv, TipsInv, Tick \/ TurnBack
  PROVE  TipsInv'
<1>1. UNCHANGED <<db, tip, attempts>> /\ world' = world
  BY DEF Tick, TurnBack, runs, posts
<1>2. TipBases' = TipBases /\ TipBases \subseteq Nat
  BY <1>1 DEF TipBases
<1>3. ~world.db => world.clock # "corrected"
  BY DEF Tabled, RadioInv
<1>4. ~world.db => \A b \in TipBases : Past(b)' /\ Over(b)'
  BY <1>2, <1>3, TimePasses DEF TipsInv
<1>5. ASSUME NEW p \in Process PROVE TipSchedulerInv(tip[p])'
  <2>1. PICK t : t = tip[p] /\ tip'[p] = t /\ TipSchedulerInv(t)
    BY <1>1 DEF TipsInv
  <2>2. t.at = "idle" /\ t.last = None => \A b \in TipBases' : ~world'.db /\ Past(b)'
    BY <1>1, <1>2, <1>4, <2>1 DEF TipSchedulerInv
  <2> QED BY <1>1, <1>2, <2>1, <2>2 DEF TipSchedulerInv
<1>6. ~world'.db => /\ db'.slot = None
                    /\ \A b \in TipBases' : Over(b)'
                    /\ \A b \in TipBases' : Past(b)'
  BY <1>1, <1>2, <1>4 DEF TipsInv
<1> QED BY <1>1, <1>2, <1>5, <1>6 DEF TipsInv

(* The schedulers of tips, whatever else happens.                          *)
LEMMA TipsNext ==
  ASSUME Tabled, RadioInv, ClockInv, ServedInv, KeysInv, TipsInv, [Next]_vars
  PROVE  TipsInv'
<1>1. world' = world
  BY WorldStays
<1>2. ASSUME NEW p \in Process, TipStep(p) PROVE TipsInv'
  BY <1>2, TipScheduleKeeps, TipFireKeeps, TipChooseKeeps, TipPostKeeps, TipPassesKeeps DEF TipStep
<1>3. ASSUME NEW p \in Process, FortuneStep(p) PROVE TipsInv'
  <2>1. UNCHANGED <<now, fold, rested, tip, db>>
    BY <1>3, StepsApart DEF clock
  <2>2. UNCHANGED attempts \/ \E d : Transmits(<<"fortune", d>>)
    BY <1>3 DEF FortuneStep, FortuneSchedule, FortuneFire, FortunePost, FortunePasses
  <2>3. TipBases' = TipBases
    <3>1. CASE UNCHANGED attempts
      BY <3>1 DEF TipBases
    <3>2. ASSUME NEW d, Transmits(<<"fortune", d>>) PROVE TipBases' = TipBases
      <4>1. DOMAIN attempts' = DOMAIN attempts \cup {<<"fortune", d>>}
        BY <3>2, Transmitted
      <4>2. \A e, m : <<"tip", e, m>> # <<"fortune", d>>
        BY KeysApart
      <4> QED BY <4>1, <4>2 DEF TipBases
    <3> QED BY <2>2, <3>1, <3>2
  <2> QED BY <1>1, <2>1, <2>3, TipsStay
<1>4. ASSUME NEW p \in Process, WelcomeStep(p) PROVE TipsInv'
  <2>1. UNCHANGED <<now, fold, rested, tip>>
    BY <1>4, StepsApart DEF clock
  <2>2. UNCHANGED attempts \/ \E n : Transmits(<<"welcome", n>>)
    BY <1>4 DEF WelcomeStep, WelcomeClaim, WelcomePost, WelcomePasses
  <2>3. TipBases' = TipBases
    <3>1. CASE UNCHANGED attempts
      BY <3>1 DEF TipBases
    <3>2. ASSUME NEW n, Transmits(<<"welcome", n>>) PROVE TipBases' = TipBases
      <4>1. DOMAIN attempts' = DOMAIN attempts \cup {<<"welcome", n>>}
        BY <3>2, Transmitted
      <4>2. \A e, m : <<"tip", e, m>> # <<"welcome", n>>
        BY KeysApart
      <4> QED BY <4>1, <4>2 DEF TipBases
    <3> QED BY <2>2, <3>1, <3>2
  <2>4. UNCHANGED db \/ \E w : db' = [db EXCEPT !.welcomed = w]
    BY <1>4 DEF WelcomeStep, WelcomeClaim, WelcomePost, WelcomePasses, SaveFails
  <2>5. db'.slot = db.slot /\ DOMAIN db' = DOMAIN db
    <3>1. ASSUME NEW w, db' = [db EXCEPT !.welcomed = w] PROVE db'.slot = db.slot /\ DOMAIN db' = DOMAIN db
      BY <3>1 DEF TipsInv
    <3> QED BY <2>4, <3>1
  <2> QED BY <1>1, <2>1, <2>3, <2>5, TipsStay
<1>5. ASSUME NEW p \in Process, VoiceStep(p) PROVE TipsInv'
  <2>1. UNCHANGED <<now, fold, rested, tip, db, attempts>>
    BY <1>5, StepsApart DEF clock
  <2> QED BY <1>1, <2>1, TipsStay DEF TipBases
<1>6. ASSUME NEW p \in Process, Posts(p) PROVE TipsInv'
  BY <1>2, <1>3, <1>4, <1>5, <1>6, PostsStep
<1>7. CASE RunsNext /\ PostsFollow
  BY <1>1, <1>7, TipsFollow
<1>8. ASSUME NEW p \in Process, BeginPosts(p) PROVE TipsInv'
  BY <1>8, TipsBegin
<1>9. CASE Tick \/ TurnBack
  BY <1>9, TipsTime
<1>10. CASE UNCHANGED vars
  <2>1. UNCHANGED <<now, fold, rested, tip, db, attempts>>
    BY <1>10 DEF vars, clock, posts
  <2> QED BY <1>1, <2>1, TipsStay DEF TipBases
<1> QED BY <1>6, <1>7, <1>8, <1>9, <1>10 DEF Next

-----------------------------------------------------------------------------
(* The fortune *)

(* Configured times follow each other as their days do.                    *)
LEMMA BaseOrder ==
  ASSUME NEW d \in Nat, NEW e \in Nat
  PROVE  /\ FortuneBase(d) \in Nat
         /\ FortuneBase(d) < FortuneBase(e) => d < e
         /\ (d + 1) * DayLength <= FortuneBase(e) => d < e
<1>1. DayLength \in Nat /\ FortuneTime \in 0 .. DayLength - 1
  BY PostsAssumption
<1>2. PICK a \in Nat, b \in Nat : a = d * DayLength /\ b = e * DayLength
  BY <1>1
<1>3. (d + 1) * DayLength = a + DayLength
  BY <1>1, <1>2
<1>4. FortuneBase(d) = a + FortuneTime /\ FortuneBase(e) = b + FortuneTime
  BY <1>2 DEF FortuneBase
<1>5. d = e => a = b
  BY <1>2
<1>6. e < d => a >= b + DayLength
  BY <1>2, LaterDay
<1> QED BY <1>1, <1>2, <1>3, <1>4, <1>5, <1>6

LEMMA FortunesStay ==
  ASSUME FortunesInv, UNCHANGED <<now, fold, rested, fortune, world>>, FortuneDays' = FortuneDays
  PROVE  FortunesInv'
<1>1. \A p \in Process : FortuneSchedulerInv(fortune[p])'
  BY DEF FortunesInv, FortuneSchedulerInv, Past
<1> QED BY <1>1 DEF FortunesInv, Over, Past

LEMMA FortuneMoves ==
  ASSUME RadioInv, ServedInv, FortunesInv, UNCHANGED <<clock, rested, world>>,
         NEW p \in Process, fortune[p].at # "off", NEW u, fortune' = [fortune EXCEPT ![p] = u],
         u.at # "off", FortuneSchedulerInv(u)', \A d \in FortuneDays' : Over(FortuneBase(d))
  PROVE  FortunesInv'
<1>1. \A q \in Process : fortune'[q] = IF q = p THEN u ELSE fortune[q]
  BY DEF ServedInv
<1>2. ASSUME NEW q \in Process, q # p PROVE FortuneSchedulerInv(fortune[q])'
  <2>1. fortune[q].at = "off"
    BY <1>2, OneServer DEF ServedInv
  <2> QED BY <1>1, <1>2, <2>1 DEF FortunesInv, FortuneSchedulerInv, Planned
<1>3. FortuneSchedulerInv(fortune[p])'
  BY <1>1 DEF FortuneSchedulerInv
<1>4. ASSUME NEW q \in Process PROVE FortuneSchedulerInv(fortune[q])'
  BY <1>2, <1>3
<1>5. \A d \in FortuneDays' : Over(FortuneBase(d))'
  BY DEF Over, clock
<1>6. "fortune" \in world'.does
  BY DEF FortunesInv, FortuneSchedulerInv
<1>7. rested' /\ (\A q \in Process : fortune'[q].at = "off") => \A d \in FortuneDays' : Past(FortuneBase(d))'
  BY <1>1
<1> QED BY <1>4, <1>5, <1>6, <1>7 DEF FortunesInv

LEMMA FortuneScheduleKeeps ==
  ASSUME RadioInv, ClockInv, ServedInv, FortunesInv, NEW p \in Process, FortuneSchedule(p)
  PROVE  FortunesInv'
<1>1. PICK f : f = fortune[p]
  OBVIOUS
<1>2. /\ f.at = "idle" /\ FortuneSchedulerInv(f) /\ DOMAIN f = {"at", "next", "day"}
      /\ f.day \in Nat \cup {None}
  BY <1>1 DEF FortuneSchedule, FortunesInv, FortuneSchedulerInv
<1>3. now \in Nat /\ Day(now) \in Nat /\ now >= Day(now) * DayLength
  <2>1. now \in Nat /\ DayLength \in Nat
    BY PostsAssumption DEF ClockInv
  <2>2. PICK d \in Nat, h \in 0 .. DayLength - 1 : d = Day(now) /\ now = d * DayLength + h
    BY <2>1, TimeOf
  <2>3. d * DayLength \in Nat
    BY <2>1
  <2> QED BY <2>1, <2>2, <2>3
<1>4. PICK behind \in BOOLEAN : behind = (f.day # None /\ Day(now) <= f.day)
  OBVIOUS
<1>5. /\ behind => f.day \in Nat /\ Day(now) <= f.day
      /\ ~behind => f.day = None \/ ~(Day(now) <= f.day)
  BY <1>2, <1>4
<1>6. PICK from : from = IF behind THEN (f.day + 1) * DayLength ELSE now
  OBVIOUS
<1>7. PICK repeated \in BOOLEAN : repeated = (fold /\ ~behind)
  OBVIOUS
<1>8. PICK x \in NextFire(from, repeated, FortuneTime) :
        fortune' = [fortune EXCEPT ![p] = [f EXCEPT !.at = "asleep", !.next = x]]
  BY <1>1, <1>4, <1>6, <1>7 DEF FortuneSchedule, FortuneGoes
<1>9. from \in Nat
  BY <1>3, <1>5, <1>6, PostsAssumption
<1>10. PICK e \in Nat :
         /\ x \in Nat /\ e = Day(x) /\ FortuneBase(e) \in Nat
         /\ from <= FortuneBase(e) /\ FortuneBase(e) <= x
         /\ repeated => FortuneBase(e) >= Midnight(from)
  BY <1>9, FortuneSlot
<1>11. UNCHANGED <<runs, clock, rested, attempts>>
  BY DEF FortuneSchedule
<1>12. FortuneDays' = FortuneDays
  BY <1>11 DEF FortuneDays
<1>13. ASSUME NEW d \in FortuneDays PROVE d < e
  <2>1. d \in Nat /\ FortuneBase(d) \in Nat /\ Winter \in Nat
    BY BaseOrder, PostsAssumption DEF FortuneDays
  <2>2. CASE f.day = None
    <3>1. ~behind /\ from = now /\ (repeated <=> fold)
      BY <1>4, <1>6, <1>7, <2>2
    <3>2. IF fold THEN FortuneBase(d) < Winter ELSE FortuneBase(d) < now
      BY <1>2, <2>2 DEF FortuneSchedulerInv, Past
    <3>3. FortuneBase(d) < FortuneBase(e)
      <4>1. CASE fold
        <5>1. Midnight(now) >= Winter /\ FortuneBase(e) >= Midnight(now)
          BY <1>10, <3>1, <4>1, FoldEnds
        <5>2. Midnight(now) \in Int
          BY <1>3, PostsAssumption DEF Midnight
        <5> QED BY <1>10, <2>1, <3>2, <4>1, <5>1, <5>2
      <4>2. CASE ~fold
        BY <1>3, <1>10, <2>1, <3>1, <3>2, <4>2
      <4> QED BY <4>1, <4>2
    <3> QED BY <2>1, <3>3, BaseOrder
  <2>3. CASE f.day # None
    <3>1. PICK g \in Nat : g = f.day /\ d <= g
      BY <1>2, <2>3 DEF FortuneSchedulerInv
    <3>2. (g + 1) * DayLength <= FortuneBase(e)
      <4>1. CASE behind
        BY <1>6, <1>10, <3>1, <4>1
      <4>2. CASE ~behind
        <5>1. g < Day(now) /\ from = now
          BY <1>3, <1>5, <1>6, <2>3, <3>1, <4>2
        <5>2. DayLength \in Nat /\ (g + 1) * DayLength = g * DayLength + DayLength
          BY PostsAssumption
        <5>3. Day(now) * DayLength >= g * DayLength + DayLength
          BY <1>3, <5>1, LaterDay
        <5>4. PICK a \in Nat, b \in Nat : a = g * DayLength /\ b = Day(now) * DayLength
          BY <1>3, <5>2
        <5> QED BY <1>3, <1>10, <5>1, <5>2, <5>3, <5>4
      <4> QED BY <4>1, <4>2
    <3>3. g < e
      BY <3>2, BaseOrder
    <3> QED BY <2>1, <3>1, <3>3
  <2> QED BY <2>2, <2>3
<1>14. PICK u : u = [f EXCEPT !.at = "asleep", !.next = x]
  OBVIOUS
<1>15. u.at = "asleep" /\ u.next = x /\ u.day = f.day /\ DOMAIN u = {"at", "next", "day"}
  BY <1>2, <1>14
<1>16. "fortune" \in world'.does /\ (u.day # None => \A d \in FortuneDays : d <= u.day)
  BY <1>2, <1>11, <1>15 DEF FortuneSchedulerInv, runs
<1>17. FortuneSchedulerInv(u)'
  BY <1>2, <1>10, <1>12, <1>13, <1>15, <1>16 DEF FortuneSchedulerInv, Planned
<1>18. \A d \in FortuneDays' : Over(FortuneBase(d))
  BY <1>12 DEF FortunesInv
<1> QED BY <1>1, <1>2, <1>8, <1>11, <1>14, <1>15, <1>17, <1>18, FortuneMoves DEF runs

LEMMA FortuneFireKeeps ==
  ASSUME RadioInv, ServedInv, FortunesInv, NEW p \in Process, FortuneFire(p)
  PROVE  FortunesInv'
<1>1. PICK f : f = fortune[p]
  OBVIOUS
<1>2. /\ f.at = "asleep" /\ DOMAIN f = {"at", "next", "day"}
      /\ f.day \in Nat \cup {None} /\ f.next \in Nat /\ "fortune" \in world.does
      /\ f.day # None => \A d \in FortuneDays : d <= f.day
      /\ FortuneBase(Day(f.next)) <= f.next
      /\ \A d \in FortuneDays : d < Day(f.next)
  BY <1>1 DEF FortuneFire, FortunesInv, FortuneSchedulerInv, Planned
<1>3. UNCHANGED <<runs, clock, rested, attempts>>
  BY DEF FortuneFire
<1>4. FortuneDays' = FortuneDays /\ FortuneDays \subseteq Nat
  BY <1>3 DEF FortuneDays
<1>5. Day(f.next) \in Nat
  BY <1>2, TimeOf
<1>6. \A d \in FortuneDays' : Over(FortuneBase(d))
  BY <1>4 DEF FortunesInv
<1>7. CASE f.day # None /\ FortuneGoes(p, [f EXCEPT !.at = "idle"])
  <2>1. PICK u : u = [f EXCEPT !.at = "idle"]
    OBVIOUS
  <2>2. u.at = "idle" /\ u.day = f.day /\ DOMAIN u = {"at", "next", "day"}
    BY <1>2, <2>1
  <2>3. FortuneSchedulerInv(u)'
    BY <1>2, <1>3, <1>4, <1>7, <2>2 DEF FortuneSchedulerInv, Planned, runs
  <2> QED BY <1>1, <1>2, <1>3, <1>6, <1>7, <2>1, <2>2, <2>3, FortuneMoves DEF FortuneGoes, runs
<1>8. CASE FortuneGoes(p, [f EXCEPT !.day = Day(f.next), !.at = "trying"])
  <2>1. PICK u : u = [f EXCEPT !.day = Day(f.next), !.at = "trying"]
    OBVIOUS
  <2>2. /\ u.at = "trying" /\ u.day = Day(f.next) /\ u.next = f.next
        /\ DOMAIN u = {"at", "next", "day"}
    BY <1>2, <2>1
  <2>3. u.day # None /\ \A d \in FortuneDays : d <= u.day
    BY <1>2, <1>4, <1>5, <2>2, PostsAssumption
  <2>4. FortuneSchedulerInv(u)'
    BY <1>2, <1>3, <1>4, <1>5, <2>2, <2>3 DEF FortuneSchedulerInv, Planned, runs
  <2> QED BY <1>1, <1>2, <1>3, <1>6, <1>8, <2>1, <2>2, <2>4, FortuneMoves DEF FortuneGoes, runs
<1> QED BY <1>1, <1>7, <1>8 DEF FortuneFire

(* What is known of a run that tries its fortune.                          *)
LEMMA FortuneClaimed ==
  ASSUME FortunesInv, NEW p \in Process, fortune[p].at = "trying"
  PROVE  /\ DOMAIN fortune[p] = {"at", "next", "day"} /\ "fortune" \in world.does
         /\ fortune[p].next \in Nat /\ Day(fortune[p].next) \in Nat
         /\ fortune[p].day = Day(fortune[p].next) /\ fortune[p].day # None
         /\ FortuneBase(Day(fortune[p].next)) <= fortune[p].next
         /\ FortuneDays \subseteq Nat
         /\ \A d \in FortuneDays : d < Day(fortune[p].next)
<1>1. PICK f : f = fortune[p]
  OBVIOUS
<1>2. /\ DOMAIN f = {"at", "next", "day"} /\ "fortune" \in world.does
      /\ f.next \in Nat /\ f.day = Day(f.next)
      /\ FortuneBase(Day(f.next)) <= f.next
      /\ \A d \in FortuneDays : d < Day(f.next)
  BY <1>1 DEF FortunesInv, FortuneSchedulerInv, Planned
<1>3. Day(f.next) \in Nat /\ FortuneDays \subseteq Nat
  BY <1>2, TimeOf DEF FortuneDays
<1> QED BY <1>1, <1>2, <1>3, PostsAssumption

LEMMA FortunePassesKeeps ==
  ASSUME RadioInv, ServedInv, FortunesInv, NEW p \in Process, FortunePasses(p)
  PROVE  FortunesInv'
<1>1. PICK f : f = fortune[p] /\ f.at = "trying"
  BY DEF FortunePasses
<1>2. /\ DOMAIN f = {"at", "next", "day"} /\ "fortune" \in world.does
      /\ f.day \in Nat /\ f.day # None
      /\ \A d \in FortuneDays : d <= f.day
  BY <1>1, FortuneClaimed
<1>3. PICK u : u = [f EXCEPT !.at = "idle"]
  OBVIOUS
<1>4. u.at = "idle" /\ u.day = f.day /\ DOMAIN u = {"at", "next", "day"}
  BY <1>2, <1>3
<1>5. UNCHANGED <<clock, rested, world, attempts>> /\ fortune' = [fortune EXCEPT ![p] = u]
  BY <1>1, <1>3 DEF FortunePasses, FortuneGoes, runs
<1>6. FortuneDays' = FortuneDays
  BY <1>5 DEF FortuneDays
<1>7. FortuneSchedulerInv(u)'
  BY <1>2, <1>4, <1>5, <1>6 DEF FortuneSchedulerInv, Planned
<1>8. \A d \in FortuneDays' : Over(FortuneBase(d))
  BY <1>6 DEF FortunesInv
<1> QED BY <1>1, <1>4, <1>5, <1>7, <1>8, FortuneMoves

LEMMA FortunePostKeeps ==
  ASSUME RadioInv, ClockInv, ServedInv, FortunesInv, NEW p \in Process, FortunePost(p)
  PROVE  FortunesInv' /\ <<"fortune", Day(fortune[p].next)>> \notin DOMAIN attempts
<1>1. PICK f : f = fortune[p] /\ f.at = "trying"
  BY DEF FortunePost
<1>2. /\ DOMAIN f = {"at", "next", "day"} /\ "fortune" \in world.does
      /\ f.next \in Nat /\ f.day = Day(f.next) /\ f.day # None /\ Day(f.next) \in Nat
      /\ FortuneBase(Day(f.next)) <= f.next
      /\ FortuneDays \subseteq Nat /\ \A d \in FortuneDays : d < Day(f.next)
  BY <1>1, FortuneClaimed
<1>3. PICK e \in Nat : e = Day(f.next)
  BY <1>2
<1>4. UNCHANGED <<clock, rested, world>> /\ f.next <= now /\ ~fold
  BY <1>1 DEF FortunePost, CanSend, runs
<1>5. Transmits(<<"fortune", e>>)
  BY <1>1, <1>3 DEF FortunePost
<1>6. DOMAIN attempts' = DOMAIN attempts \cup {<<"fortune", e>>}
  BY <1>5, Transmitted
<1>7. FortuneDays' = FortuneDays \cup {e}
  <2>1. \A d : <<"fortune", d>> = <<"fortune", e>> <=> d = e
    OBVIOUS
  <2> QED BY <1>6, <2>1 DEF FortuneDays
<1>8. <<"fortune", e>> \notin DOMAIN attempts
  <2>1. <<"fortune", e>> \in DOMAIN attempts => e \in FortuneDays
    BY DEF FortuneDays
  <2> QED BY <1>2, <1>3, <2>1
<1>9. PICK u : u = [f EXCEPT !.at = "idle"]
  OBVIOUS
<1>10. u.at = "idle" /\ u.day = e /\ DOMAIN u = {"at", "next", "day"}
  BY <1>2, <1>3, <1>9
<1>11. fortune' = [fortune EXCEPT ![p] = u]
  BY <1>1, <1>9 DEF FortunePost, FortuneGoes
<1>12. \A d \in FortuneDays' : d <= e
  BY <1>2, <1>3, <1>7
<1>13. FortuneSchedulerInv(u)'
  BY <1>2, <1>3, <1>4, <1>10, <1>12 DEF FortuneSchedulerInv, Planned
<1>14. \A d \in FortuneDays' : Over(FortuneBase(d))
  <2>1. FortuneBase(e) \in Nat /\ FortuneBase(e) <= now /\ now \in Nat
    BY <1>2, <1>3, <1>4, BaseOrder DEF ClockInv
  <2>2. Over(FortuneBase(e))
    BY <1>4, <2>1 DEF Over
  <2>3. \A d \in FortuneDays : Over(FortuneBase(d))
    BY DEF FortunesInv
  <2> QED BY <1>7, <2>2, <2>3
<1>15. FortunesInv'
  BY <1>1, <1>4, <1>10, <1>11, <1>13, <1>14, FortuneMoves
<1> QED BY <1>1, <1>3, <1>8, <1>15

LEMMA FortunesFollow ==
  ASSUME ServedInv, FortunesInv, PostsFollow, world' = world
  PROVE  FortunesInv'
<1>1. /\ fortune' = [p \in Process |-> IF phase'[p] \in Serving THEN fortune[p] ELSE NoFortune]
      /\ rested' = (rested /\ \A p \in Process : phase[p] \in Serving => phase'[p] \in Serving)
      /\ UNCHANGED <<clock, attempts>>
  BY DEF PostsFollow
<1>2. FortuneDays' = FortuneDays
  BY <1>1 DEF FortuneDays
<1>3. \A p \in Process : fortune'[p] = fortune[p] \/ fortune'[p] = NoFortune
  BY <1>1
<1>4. ASSUME NEW p \in Process PROVE FortuneSchedulerInv(fortune[p])'
  <2>1. CASE fortune'[p] = fortune[p]
    BY <1>1, <1>2, <2>1 DEF FortunesInv, FortuneSchedulerInv, Past, clock
  <2>2. CASE fortune'[p] = NoFortune
    <3>1. PICK u : u = fortune'[p]
      OBVIOUS
    <3>2. DOMAIN u = {"at", "next", "day"} /\ u.at = "off" /\ u.day = None
      BY <2>2, <3>1 DEF NoFortune
    <3> QED BY <3>1, <3>2 DEF FortuneSchedulerInv, Planned
  <2> QED BY <1>3, <2>1, <2>2
<1>5. ASSUME rested', \A p \in Process : fortune'[p].at = "off"
      PROVE  rested /\ \A p \in Process : fortune[p].at = "off"
  <2>1. rested /\ \A p \in Process : phase[p] \in Serving => phase'[p] \in Serving
    BY <1>1, <1>5
  <2>2. ASSUME NEW p \in Process, fortune[p].at # "off" PROVE FALSE
    <3>1. phase'[p] \in Serving
      BY <2>1, <2>2 DEF ServedInv
    <3>2. fortune'[p] = fortune[p]
      BY <1>1, <3>1
    <3> QED BY <1>5, <2>2, <3>2
  <2> QED BY <2>1, <2>2
<1>6. FortuneDays' # {} => "fortune" \in world'.does
  BY <1>2 DEF FortunesInv
<1>7. \A d \in FortuneDays' : Over(FortuneBase(d))'
  BY <1>1, <1>2 DEF FortunesInv, Over, clock
<1>8. ASSUME rested', \A p \in Process : fortune'[p].at = "off"
      PROVE  \A d \in FortuneDays' : Past(FortuneBase(d))'
  <2>1. \A d \in FortuneDays : Past(FortuneBase(d))
    BY <1>5, <1>8 DEF FortunesInv
  <2> QED BY <1>1, <1>2, <2>1 DEF Past, clock
<1> QED BY <1>4, <1>6, <1>7, <1>8 DEF FortunesInv

(* A channel begins after time has passed since the last attempt.          *)
LEMMA FortunesBegin ==
  ASSUME RadioInv, ServedInv, FortunesInv, NEW p \in Process, BeginPosts(p)
  PROVE  FortunesInv'
<1>1. UNCHANGED <<clock, rested, attempts, world>> /\ rested /\ phase[p] \in Serving
  BY DEF BeginPosts, Begin, Serving
<1>2. FortuneDays' = FortuneDays
  BY <1>1 DEF FortuneDays
<1>3. CASE UNCHANGED fortune
  BY <1>1, <1>2, <1>3, FortunesStay DEF clock
<1>4. CASE begun[p] = 0 /\ "fortune" \in world.does /\ fortune' = [fortune EXCEPT ![p].at = "idle"]
  <2>1. ASSUME NEW q \in Process PROVE fortune[q].at = "off"
    <3>1. fortune[q].at # "off" => q = p /\ begun[p] > 0
      BY <1>1, OneServer DEF ServedInv
    <3> QED BY <1>4, <3>1
  <2>2. PICK f : f = fortune[p] /\ DOMAIN f = {"at", "next", "day"} /\ f.day = None
    BY <2>1 DEF FortunesInv, FortuneSchedulerInv
  <2>3. PICK u : u = [f EXCEPT !.at = "idle"]
    OBVIOUS
  <2>4. DOMAIN u = {"at", "next", "day"} /\ u.at = "idle" /\ u.day = None
    BY <2>2, <2>3
  <2>5. \A q \in Process : fortune'[q] = IF q = p THEN u ELSE fortune[q]
    BY <1>4, <2>2, <2>3 DEF ServedInv
  <2>6. \A d \in FortuneDays : Past(FortuneBase(d))
    BY <1>1, <2>1 DEF FortunesInv
  <2>7. FortuneSchedulerInv(u)'
    <3>1. \A d \in FortuneDays' : Past(FortuneBase(d))'
      BY <1>1, <1>2, <2>6 DEF Past, clock
    <3> QED BY <1>1, <1>4, <2>4, <3>1 DEF FortuneSchedulerInv, Planned
  <2>8. ASSUME NEW q \in Process PROVE FortuneSchedulerInv(fortune[q])'
    <3>1. CASE q = p
      BY <2>5, <2>7, <3>1 DEF FortuneSchedulerInv
    <3>2. CASE q # p
      BY <1>1, <1>2, <2>1, <2>5, <3>2 DEF FortunesInv, FortuneSchedulerInv, Planned
    <3> QED BY <3>1, <3>2
  <2>9. fortune'[p].at # "off"
    BY <2>4, <2>5
  <2>10. \A d \in FortuneDays' : Over(FortuneBase(d))'
    BY <1>1, <1>2 DEF FortunesInv, Over, clock
  <2>11. rested' /\ (\A q \in Process : fortune'[q].at = "off") => \A d \in FortuneDays' : Past(FortuneBase(d))'
    BY <2>9
  <2> QED BY <1>1, <1>4, <2>8, <2>10, <2>11 DEF FortunesInv
<1>5. begun[p] + 1 = 1 => begun[p] = 0
  BY DEF ServedInv
<1> QED BY <1>3, <1>4, <1>5 DEF BeginPosts

LEMMA FortunesTime ==
  ASSUME Tabled, RadioInv, ClockInv, FortunesInv, Tick \/ TurnBack
  PROVE  FortunesInv'
<1>1. UNCHANGED <<fortune, attempts>> /\ world' = world
  BY DEF Tick, TurnBack, runs, posts
<1>2. FortuneDays' = FortuneDays /\ \A d \in FortuneDays : FortuneBase(d) \in Nat
  BY <1>1, BaseOrder DEF FortuneDays
<1>3. "fortune" \in world.does => world.clock # "corrected"
  BY DEF Tabled, RadioInv
<1>4. ASSUME NEW d \in FortuneDays PROVE Past(FortuneBase(d))' /\ Over(FortuneBase(d))'
  <2>1. PICK b \in Nat : b = FortuneBase(d)
    BY <1>2
  <2>2. Over(b) /\ world.clock # "corrected"
    BY <1>3, <2>1 DEF FortunesInv
  <2>3. Past(b)' /\ Over(b)'
    BY <2>2, TimePasses
  <2> QED BY <2>1, <2>3
<1>5. ASSUME NEW p \in Process PROVE FortuneSchedulerInv(fortune[p])'
  <2>1. PICK f : f = fortune[p] /\ fortune'[p] = f /\ FortuneSchedulerInv(f)
    BY <1>1 DEF FortunesInv
  <2>2. f.at = "idle" /\ f.day = None => \A d \in FortuneDays' : Past(FortuneBase(d))'
    BY <1>2, <1>4
  <2> QED BY <1>1, <1>2, <2>1, <2>2 DEF FortuneSchedulerInv
<1> QED BY <1>1, <1>2, <1>4, <1>5 DEF FortunesInv

(* The schedulers of fortunes, whatever else happens.                      *)
LEMMA FortunesNext ==
  ASSUME Tabled, RadioInv, ClockInv, ServedInv, FortunesInv, [Next]_vars
  PROVE  FortunesInv'
<1>1. world' = world
  BY WorldStays
<1>2. ASSUME NEW p \in Process, FortuneStep(p) PROVE FortunesInv'
  BY <1>2, FortuneScheduleKeeps, FortuneFireKeeps, FortunePostKeeps, FortunePassesKeeps DEF FortuneStep
<1>3. ASSUME NEW key, key[1] # "fortune", UNCHANGED attempts \/ Transmits(key)
      PROVE  FortuneDays' = FortuneDays
  <2>1. DOMAIN attempts' = DOMAIN attempts \/ DOMAIN attempts' = DOMAIN attempts \cup {key}
    BY <1>3, Transmitted
  <2>2. \A d : <<"fortune", d>> # key
    BY <1>3
  <2> QED BY <2>1, <2>2 DEF FortuneDays
<1>4. ASSUME NEW p \in Process, TipStep(p) PROVE FortunesInv'
  <2>1. UNCHANGED <<now, fold, rested, fortune>>
    BY <1>4, StepsApart DEF clock
  <2>2. UNCHANGED attempts \/ \E d, m : Transmits(<<"tip", d, m>>)
    BY <1>4 DEF TipStep, TipSchedule, TipFire, TipChoose, TipPost, TipPasses
  <2>3. FortuneDays' = FortuneDays
    <3>1. ASSUME NEW d, NEW m, Transmits(<<"tip", d, m>>) PROVE FortuneDays' = FortuneDays
      <4>1. PICK key : key = <<"tip", d, m>>
        OBVIOUS
      <4>2. key[1] # "fortune"
        BY <4>1
      <4> QED BY <1>3, <3>1, <4>1, <4>2
    <3> QED BY <2>2, <3>1 DEF FortuneDays
  <2> QED BY <1>1, <2>1, <2>3, FortunesStay
<1>5. ASSUME NEW p \in Process, WelcomeStep(p) PROVE FortunesInv'
  <2>1. UNCHANGED <<now, fold, rested, fortune>>
    BY <1>5, StepsApart DEF clock
  <2>2. UNCHANGED attempts \/ \E n : Transmits(<<"welcome", n>>)
    BY <1>5 DEF WelcomeStep, WelcomeClaim, WelcomePost, WelcomePasses
  <2>3. FortuneDays' = FortuneDays
    <3>1. ASSUME NEW n, Transmits(<<"welcome", n>>) PROVE FortuneDays' = FortuneDays
      <4>1. PICK key : key = <<"welcome", n>>
        OBVIOUS
      <4>2. key[1] # "fortune"
        BY <4>1
      <4> QED BY <1>3, <3>1, <4>1, <4>2
    <3> QED BY <2>2, <3>1 DEF FortuneDays
  <2> QED BY <1>1, <2>1, <2>3, FortunesStay
<1>6. ASSUME NEW p \in Process, VoiceStep(p) PROVE FortunesInv'
  <2>1. UNCHANGED <<now, fold, rested, fortune, attempts>>
    BY <1>6, StepsApart DEF clock
  <2> QED BY <1>1, <2>1, FortunesStay DEF FortuneDays
<1>7. ASSUME NEW p \in Process, Posts(p) PROVE FortunesInv'
  BY <1>2, <1>4, <1>5, <1>6, <1>7, PostsStep
<1>8. CASE RunsNext /\ PostsFollow
  BY <1>1, <1>8, FortunesFollow
<1>9. ASSUME NEW p \in Process, BeginPosts(p) PROVE FortunesInv'
  BY <1>9, FortunesBegin
<1>10. CASE Tick \/ TurnBack
  BY <1>10, FortunesTime
<1>11. CASE UNCHANGED vars
  <2>1. UNCHANGED <<now, fold, rested, fortune, attempts>>
    BY <1>11 DEF vars, clock, posts
  <2> QED BY <1>1, <2>1, FortunesStay DEF FortuneDays
<1> QED BY <1>7, <1>8, <1>9, <1>10, <1>11 DEF Next

-----------------------------------------------------------------------------
(* The welcome *)

(* No claim is made, and no welcome is attempted.                          *)
LEMMA WelcomeStays ==
  ASSUME WelcomeInv, world' = world, db'.welcomed = db.welcomed,
         \A n : <<"welcome", n>> \in DOMAIN attempts' <=> <<"welcome", n>> \in DOMAIN attempts,
         welcome' \in [Process -> [1 .. Len(world.keys) -> {"off", "waiting", "claimed"}]],
         \A p \in Process : \A n \in 1 .. Len(world.keys) :
           welcome'[p][n] = "claimed" => welcome[p][n] = "claimed"
  PROVE  WelcomeInv'
BY DEF WelcomeInv

LEMMA WelcomeStepKeeps ==
  ASSUME WelcomeInv, TipsInv, NEW p \in Process, NEW n \in 1 .. Len(world.keys),
         WelcomeClaim(p, n) \/ WelcomePost(p, n) \/ WelcomePasses(p, n)
  PROVE  WelcomeInv' /\ (WelcomePost(p, n) => <<"welcome", n>> \notin DOMAIN attempts)
<1>1. /\ world' = world /\ n \in Nat
      /\ welcome \in [Process -> [1 .. Len(world.keys) -> {"off", "waiting", "claimed"}]]
  BY DEF WelcomeClaim, WelcomePost, WelcomePasses, runs, WelcomeInv
<1>2. ASSUME NEW to \in {"off", "claimed"}, WelcomeGoes(p, n, to)
      PROVE  /\ welcome' \in [Process -> [1 .. Len(world.keys) -> {"off", "waiting", "claimed"}]]
             /\ \A q \in Process : \A m \in 1 .. Len(world.keys) :
                  welcome'[q][m] = IF q = p /\ m = n THEN to ELSE welcome[q][m]
  BY <1>1, <1>2 DEF WelcomeGoes
<1>3. SUFFICES WelcomeInv'
  BY <1>1 DEF WelcomePost, WelcomeInv
<1>4. CASE WelcomeGoes(p, n, "off") /\ UNCHANGED <<db, attempts>>
  BY <1>1, <1>2, <1>4, WelcomeStays
<1>5. CASE /\ WelcomeClaim(p, n) /\ n \notin db.welcomed /\ WelcomeGoes(p, n, "claimed")
           /\ db' = [db EXCEPT !.welcomed = @ \cup {n}]
  <2>1. db'.welcomed = db.welcomed \cup {n} /\ UNCHANGED attempts
    BY <1>5 DEF TipsInv, WelcomeClaim
  <2>2. <<"welcome", n>> \notin DOMAIN attempts
    BY <1>1, <1>5 DEF WelcomeInv
  <2>3. \A q \in Process : welcome[q][n] # "claimed"
    BY <1>5 DEF WelcomeInv
  <2> QED BY <1>1, <1>2, <1>5, <2>1, <2>2, <2>3 DEF WelcomeInv
<1>6. CASE WelcomePost(p, n)
  <2>1. /\ welcome[p][n] = "claimed" /\ WelcomeGoes(p, n, "off") /\ UNCHANGED db
        /\ Transmits(<<"welcome", n>>)
    BY <1>6 DEF WelcomePost
  <2>2. /\ n \in db.welcomed /\ <<"welcome", n>> \notin DOMAIN attempts
        /\ \A q \in Process : welcome[q][n] = "claimed" => q = p
    BY <2>1 DEF WelcomeInv
  <2>3. DOMAIN attempts' = DOMAIN attempts \cup {<<"welcome", n>>}
    BY <2>1, Transmitted
  <2>4. \A m : <<"welcome", m>> \in DOMAIN attempts' => m = n \/ <<"welcome", m>> \in DOMAIN attempts
    BY <2>3
  <2>5. \A m \in Nat : <<"welcome", m>> \in DOMAIN attempts' => m \in db'.welcomed
    BY <2>1, <2>2, <2>4 DEF WelcomeInv
  <2>6. ASSUME NEW q \in Process, NEW m \in 1 .. Len(world.keys), welcome'[q][m] = "claimed"
        PROVE  welcome[q][m] = "claimed" /\ m # n
    BY <1>2, <2>1, <2>2, <2>6
  <2>7. ASSUME NEW q \in Process, NEW m \in 1 .. Len(world.keys), welcome'[q][m] = "claimed"
        PROVE  /\ m \in db'.welcomed /\ <<"welcome", m>> \notin DOMAIN attempts'
               /\ \A r \in Process : welcome'[r][m] = "claimed" => r = q
    <3>1. /\ m \in db.welcomed /\ <<"welcome", m>> \notin DOMAIN attempts
          /\ \A r \in Process : welcome[r][m] = "claimed" => r = q
      BY <2>6, <2>7 DEF WelcomeInv
    <3> QED BY <2>1, <2>4, <2>6, <2>7, <3>1
  <2> QED BY <1>1, <1>2, <2>1, <2>5, <2>7 DEF WelcomeInv
<1>7. WelcomeClaim(p, n) => welcome[p][n] = "waiting"
  BY DEF WelcomeClaim
<1> QED BY <1>4, <1>5, <1>6, <1>7 DEF WelcomeClaim, WelcomePost, WelcomePasses, SaveFails

(* The welcome of a channel, whatever else happens.                        *)
LEMMA WelcomeNext ==
  ASSUME RadioInv, WelcomeInv, TipsInv, [Next]_vars
  PROVE  WelcomeInv'
<1>1. world' = world
  BY WorldStays
<1>2. welcome \in [Process -> [1 .. Len(world.keys) -> {"off", "waiting", "claimed"}]]
  BY DEF WelcomeInv
<1>3. ASSUME NEW key, key[1] # "welcome", UNCHANGED attempts \/ Transmits(key)
      PROVE  \A n : <<"welcome", n>> \in DOMAIN attempts' <=> <<"welcome", n>> \in DOMAIN attempts
  <2>1. DOMAIN attempts' = DOMAIN attempts \/ DOMAIN attempts' = DOMAIN attempts \cup {key}
    BY <1>3, Transmitted
  <2>2. \A n : <<"welcome", n>> # key
    BY <1>3
  <2> QED BY <2>1, <2>2
<1>4. ASSUME NEW slot, NEW used, Saved(slot, used) PROVE db'.welcomed = db.welcomed
  BY <1>4 DEF Saved, TipsInv
<1>5. ASSUME NEW p \in Process, TipStep(p) PROVE WelcomeInv'
  <2>1. UNCHANGED welcome
    BY <1>5, StepsApart
  <2>2. db'.welcomed = db.welcomed
    BY <1>4, <1>5 DEF TipStep, TipSchedule, TipFire, TipChoose, TipPost, TipPasses, SaveFails
  <2>3. UNCHANGED attempts \/ \E d, m : Transmits(<<"tip", d, m>>)
    BY <1>5 DEF TipStep, TipSchedule, TipFire, TipChoose, TipPost, TipPasses
  <2>4. \A n : <<"welcome", n>> \in DOMAIN attempts' <=> <<"welcome", n>> \in DOMAIN attempts
    <3>1. ASSUME NEW d, NEW m, Transmits(<<"tip", d, m>>)
          PROVE  \A n : <<"welcome", n>> \in DOMAIN attempts' <=> <<"welcome", n>> \in DOMAIN attempts
      <4>1. PICK key : key = <<"tip", d, m>>
        OBVIOUS
      <4>2. key[1] # "welcome"
        BY <4>1
      <4> QED BY <1>3, <3>1, <4>1, <4>2
    <3> QED BY <2>3, <3>1
  <2> QED BY <1>1, <1>2, <2>1, <2>2, <2>4, WelcomeStays
<1>6. ASSUME NEW p \in Process, FortuneStep(p) PROVE WelcomeInv'
  <2>1. UNCHANGED <<welcome, db>>
    BY <1>6, StepsApart
  <2>2. UNCHANGED attempts \/ \E d : Transmits(<<"fortune", d>>)
    BY <1>6 DEF FortuneStep, FortuneSchedule, FortuneFire, FortunePost, FortunePasses
  <2>3. \A n : <<"welcome", n>> \in DOMAIN attempts' <=> <<"welcome", n>> \in DOMAIN attempts
    <3>1. ASSUME NEW d, Transmits(<<"fortune", d>>)
          PROVE  \A n : <<"welcome", n>> \in DOMAIN attempts' <=> <<"welcome", n>> \in DOMAIN attempts
      <4>1. PICK key : key = <<"fortune", d>>
        OBVIOUS
      <4>2. key[1] # "welcome"
        BY <4>1
      <4> QED BY <1>3, <3>1, <4>1, <4>2
    <3> QED BY <2>2, <3>1
  <2> QED BY <1>1, <1>2, <2>1, <2>3, WelcomeStays
<1>7. ASSUME NEW p \in Process, WelcomeStep(p) PROVE WelcomeInv'
  BY <1>7, WelcomeStepKeeps DEF WelcomeStep
<1>8. ASSUME UNCHANGED <<db, welcome, attempts>> PROVE WelcomeInv'
  BY <1>1, <1>2, <1>8, WelcomeStays
<1>9. ASSUME NEW p \in Process, Posts(p) PROVE WelcomeInv'
  BY <1>5, <1>6, <1>7, <1>8, <1>9, PostsStep, StepsApart
<1>10. CASE RunsNext /\ PostsFollow
  <2>1. /\ UNCHANGED <<db, attempts>>
        /\ welcome' = [p \in Process |-> IF phase'[p] \in Serving THEN welcome[p] ELSE NoWelcome]
    BY <1>10 DEF PostsFollow
  <2>2. NoWelcome \in [1 .. Len(world.keys) -> {"off", "waiting", "claimed"}]
    BY DEF NoWelcome
  <2>3. \A n \in 1 .. Len(world.keys) : NoWelcome[n] # "claimed"
    BY DEF NoWelcome
  <2>4. welcome' \in [Process -> [1 .. Len(world.keys) -> {"off", "waiting", "claimed"}]]
    BY <1>2, <2>1, <2>2
  <2>5. \A p \in Process : \A n \in 1 .. Len(world.keys) :
          welcome'[p][n] = "claimed" => welcome[p][n] = "claimed"
    BY <2>1, <2>3
  <2> QED BY <1>1, <2>1, <2>4, <2>5, WelcomeStays
<1>11. ASSUME NEW p \in Process, BeginPosts(p) PROVE WelcomeInv'
  <2>1. UNCHANGED <<db, attempts>>
    BY <1>11 DEF BeginPosts
  <2>2. \/ UNCHANGED welcome
        \/ \E n : welcome' = [welcome EXCEPT ![p] = [welcome[p] EXCEPT ![n] = "waiting"]]
    BY <1>11 DEF BeginPosts
  <2>3. ASSUME NEW n, welcome' = [welcome EXCEPT ![p] = [welcome[p] EXCEPT ![n] = "waiting"]]
        PROVE  WelcomeInv'
    <3>1. PICK w : w = [welcome[p] EXCEPT ![n] = "waiting"]
      OBVIOUS
    <3>2. welcome[p] \in [1 .. Len(world.keys) -> {"off", "waiting", "claimed"}]
      BY <1>2
    <3>3. /\ w \in [1 .. Len(world.keys) -> {"off", "waiting", "claimed"}]
          /\ \A m \in 1 .. Len(world.keys) : w[m] = "claimed" => welcome[p][m] = "claimed"
      BY <3>1, <3>2
    <3>4. /\ welcome' \in [Process -> [1 .. Len(world.keys) -> {"off", "waiting", "claimed"}]]
          /\ \A q \in Process : welcome'[q] = IF q = p THEN w ELSE welcome[q]
      BY <1>2, <2>3, <3>1, <3>3
    <3> QED BY <1>1, <2>1, <3>3, <3>4, WelcomeStays
  <2> QED BY <1>8, <2>1, <2>2, <2>3
<1>12. CASE Tick \/ TurnBack \/ UNCHANGED vars
  BY <1>8, <1>12 DEF Tick, TurnBack, vars, posts
<1> QED BY <1>9, <1>10, <1>11, <1>12 DEF Next

-----------------------------------------------------------------------------
(* The attempts *)

LEMMA Added ==
  ASSUME KeysInv, NEW key, Transmits(key), key \notin DOMAIN attempts,
         key \in ({"tip"} \X Nat \X BOOLEAN) \cup ({"fortune"} \X Nat) \cup ({"welcome"} \X Nat)
  PROVE  KeysInv'
<1>1. /\ DOMAIN attempts' = DOMAIN attempts \cup {key} /\ attempts'[key] = 1
      /\ \A k \in DOMAIN attempts \ {key} : attempts'[k] = attempts[k] + 0
  BY Transmitted
<1>2. \A k \in DOMAIN attempts : attempts'[k] = 1
  BY <1>1 DEF KeysInv
<1> QED BY <1>1, <1>2 DEF KeysInv

LEMMA KeysNext ==
  ASSUME RadioInv, PostsInv, [Next]_vars
  PROVE  KeysInv'
<1>1. CASE UNCHANGED attempts
  BY <1>1 DEF PostsInv, KeysInv
<1>2. ASSUME NEW p \in Process, TipPost(p) PROVE KeysInv'
  <2>1. tip[p].next \in Nat
    <3>1. tip[p].at = "claimed"
      BY <1>2 DEF TipPost
    <3> QED BY <3>1, TipClaimed DEF PostsInv
  <2>2. PICK d \in Nat : d = Day(tip[p].next)
    BY <2>1, TimeOf
  <2>3. PICK m \in BOOLEAN : m = (Hour(tip[p].next) < Evening)
    BY <2>1, MorningOrNot
  <2>4. PICK key : key = <<"tip", d, m>>
    OBVIOUS
  <2>5. key \notin DOMAIN attempts /\ Transmits(key)
    BY <1>2, <2>2, <2>3, <2>4, TipPostKeeps DEF PostsInv, TipPost
  <2>6. key \in {"tip"} \X Nat \X BOOLEAN
    BY <2>4
  <2> QED BY <2>5, <2>6, Added DEF PostsInv
<1>3. ASSUME NEW p \in Process, FortunePost(p) PROVE KeysInv'
  <2>1. Day(fortune[p].next) \in Nat
    BY <1>3, FortuneClaimed DEF PostsInv, FortunePost
  <2>2. PICK key : key = <<"fortune", Day(fortune[p].next)>>
    OBVIOUS
  <2>3. key \notin DOMAIN attempts /\ Transmits(key)
    BY <1>3, <2>2, FortunePostKeeps DEF PostsInv, FortunePost
  <2>4. key \in {"fortune"} \X Nat
    BY <2>1, <2>2
  <2> QED BY <2>3, <2>4, Added DEF PostsInv
<1>4. ASSUME NEW p \in Process, NEW n \in 1 .. Len(world.keys), WelcomePost(p, n) PROVE KeysInv'
  <2>1. PICK key : key = <<"welcome", n>>
    OBVIOUS
  <2>2. key \notin DOMAIN attempts /\ Transmits(key)
    BY <1>4, <2>1, WelcomeStepKeeps DEF PostsInv, WelcomePost
  <2>3. key \in {"welcome"} \X Nat
    BY <2>1
  <2> QED BY <2>2, <2>3, Added DEF PostsInv
<1>5. ASSUME NEW p \in Process, TipStep(p) PROVE KeysInv'
  BY <1>1, <1>2, <1>5 DEF TipStep, TipSchedule, TipFire, TipChoose, TipPasses
<1>6. ASSUME NEW p \in Process, FortuneStep(p) PROVE KeysInv'
  BY <1>1, <1>3, <1>6 DEF FortuneStep, FortuneSchedule, FortuneFire, FortunePasses
<1>7. ASSUME NEW p \in Process, WelcomeStep(p) PROVE KeysInv'
  BY <1>1, <1>4, <1>7 DEF WelcomeStep, WelcomeClaim, WelcomePasses
<1>8. ASSUME NEW p \in Process, BeginPosts(p) PROVE KeysInv'
  BY <1>1, <1>8 DEF BeginPosts
<1>9. ASSUME NEW p \in Process, Posts(p) PROVE KeysInv'
  BY <1>1, <1>5, <1>6, <1>7, <1>9, PostsStep, StepsApart
<1>10. CASE (RunsNext /\ PostsFollow) \/ Tick \/ TurnBack \/ UNCHANGED vars
  BY <1>1, <1>10 DEF PostsFollow, Tick, TurnBack, vars, posts
<1> QED BY <1>8, <1>9, <1>10 DEF Next

LEMMA PostsInit ==
  ASSUME Init
  PROVE  PostsInv
<1>1. DOMAIN attempts = {}
  <2>1. attempts = [e \in {} |-> 1]
    BY DEF Init, EmptyBag, SetToBag
  <2> QED BY <2>1
<1>2. KeysInv
  BY <1>1 DEF KeysInv
<1>3. TipBases = {} /\ FortuneDays = {}
  BY <1>1 DEF TipBases, FortuneDays
<1>4. ClockInv
  <2>1. now = 0 /\ fold = FALSE /\ 0 < Winter
    BY PostsAssumption DEF Init
  <2> QED BY <2>1 DEF ClockInv
<1>5. ServedInv
  BY DEF Init, ServedInv, RunsInit, NoTip, NoFortune
<1>6. TipsInv
  <2>1. PICK t : t = NoTip
    OBVIOUS
  <2>2. TipSchedulerInv(t)
    BY <1>3, <2>1 DEF TipSchedulerInv, NoTip, Planned
  <2>3. \A p \in Process : tip[p] = t
    BY <2>1 DEF Init
  <2>4. DOMAIN db = {"slot", "used", "welcomed"} /\ db.slot = None
    BY DEF Init
  <2> QED BY <1>3, <2>2, <2>3, <2>4 DEF TipsInv
<1>7. FortunesInv
  <2>1. PICK f : f = NoFortune
    OBVIOUS
  <2>2. FortuneSchedulerInv(f)
    BY <1>3, <2>1 DEF FortuneSchedulerInv, NoFortune, Planned
  <2>3. \A p \in Process : fortune[p] = f
    BY <2>1 DEF Init
  <2> QED BY <1>3, <2>2, <2>3 DEF FortunesInv
<1>8. WelcomeInv
  BY <1>1 DEF WelcomeInv, Init, NoWelcome
<1> QED BY <1>2, <1>4, <1>5, <1>6, <1>7, <1>8 DEF PostsInv

LEMMA PostsNext ==
  ASSUME Tabled, RadioInv, PostsInv, [Next]_vars
  PROVE  PostsInv'
BY ClockNext, KeysNext, ServedNext, TipsNext, FortunesNext, WelcomeNext DEF PostsInv

(* Wherever the clock is only corrected while a table tells what was       *)
(* posted, at most one attempt is made for each slot, day and channel: any *)
(* number of runs may end or crash at any point, commits may fail, a       *)
(* scheduler may wake late and the last hour of summer time comes twice    *)
(* (next_fire, fire of both schedulers, claim_welcome).                    *)
THEOREM AttemptedOnceAlways == ASSUME Tabled PROVE Spec => []AttemptedOnce
<1>1. Init => RadioInv /\ PostsInv
  BY RadioInit, PostsInit
<1>2. RadioInv /\ PostsInv /\ [Next]_vars => RadioInv' /\ PostsInv'
  BY RadioNext, PostsNext
<1>3. PostsInv => AttemptedOnce
  BY DEF PostsInv, KeysInv, AttemptedOnce
<1> QED BY <1>1, <1>2, <1>3, PTL DEF Spec

-----------------------------------------------------------------------------
(* The rotation of the tips *)

(* The tips chosen since one of the places of the history, and up to       *)
(* another.                                                                *)
Since(history, i) == {history[k].tip : k \in {m \in DOMAIN history : i < m}}
Between(history, i, j) == {history[k].tip : k \in {m \in DOMAIN history : i < m /\ m < j}}

(* The examples of the same topic.                                         *)
Peers(E, x) == {t \in E : TopicOf[t] = TopicOf[x]}

(* The tip may come again after those of a set had their turn.             *)
Turned(E, x, turns) ==
  Peers(E, x) \subseteq turns \cup {x} \/ Cardinality(turns \cap Peers(E, x)) >= Recent

(* What a list has after one of its elements.                              *)
Later(used, x) == {used[b] : b \in {m \in DOMAIN used : \E a \in DOMAIN used : a < m /\ used[a] = x}}

(* A list of used tips does not let go of one that was sent before its     *)
(* peers had their turn, and what it has after that one had its turn after *)
(* it was sent.                                                            *)
HeldBack(E, x, turns, used) ==
  Turned(E, x, turns) \/ (x \in ToSet(used) /\ Later(used, x) \cap Peers(E, x) \subseteq turns)

Rotating(E, history, used) ==
  /\ used \in Seq(E) /\ IsInjective(used)
  /\ \A i \in DOMAIN history :
       history[i].sent => HeldBack(E, history[i].tip, Since(history, i), used)

(* A tip that was sent comes again after its peers only.                   *)
Rotated(E, history) ==
  \A i, j \in DOMAIN history :
    i < j /\ history[i].tip = history[j].tip /\ history[i].sent
      => Turned(E, history[i].tip, Between(history, i, j))

(* The tip that is to be sent is the last one of the list.                 *)
AboutToSend(history, used) ==
  /\ Len(history) > 0
  /\ history[Len(history)].tip \in ToSet(used) /\ Later(used, history[Len(history)].tip) = {}

TurnsInv ==
  /\ Rotating(Examples, shown, db.used) /\ Rotated(Examples, shown)
  /\ \A p \in Process : tip[p].at # "off" => Rotating(Examples, shown, tip[p].used)
  /\ \A p \in Process : tip[p].at = "claimed" => AboutToSend(shown, tip[p].used) /\ db.used = tip[p].used

RotationInv ==
  /\ DOMAIN db = {"slot", "used", "welcomed"}
  /\ \A p \in Process : DOMAIN tip[p] = {"at", "next", "last", "used"}
  /\ shown \in Seq([tip : Examples, sent : BOOLEAN])
  /\ world.db => TurnsInv

-----------------------------------------------------------------------------
(* Lists *)

LEMMA Places ==
  ASSUME NEW T, NEW s \in Seq(T)
  PROVE  /\ DOMAIN s = 1 .. Len(s) /\ Len(s) \in Nat
         /\ ToSet(s) = {s[i] : i \in 1 .. Len(s)}
         /\ \A i \in 1 .. Len(s) : s[i] \in ToSet(s) /\ s[i] \in T
<1>1. DOMAIN s = 1 .. Len(s) /\ Len(s) \in Nat /\ \A i \in 1 .. Len(s) : s[i] \in T
  OBVIOUS
<1>2. ToSet(s) = {s[i] : i \in 1 .. Len(s)}
  BY <1>1 DEF ToSet
<1> QED BY <1>1, <1>2

(* The places of what is kept, in their order.                             *)
LEMMA OnlyPlaces ==
  ASSUME NEW T, NEW s \in Seq(T), NEW S
  PROVE  /\ Only(s, S) \in Seq(T)
         /\ \E h \in [1 .. Len(Only(s, S)) -> {i \in DOMAIN s : s[i] \in S}] :
              /\ \A n \in 1 .. Len(Only(s, S)) : Only(s, S)[n] = s[h[n]]
              /\ \A m, n \in 1 .. Len(Only(s, S)) : m < n => h[m] < h[n]
              /\ \A i \in DOMAIN s : s[i] \in S => \E n \in 1 .. Len(Only(s, S)) : h[n] = i
<1> DEFINE at == {i \in DOMAIN s : s[i] \in S}
           upTo(i) == {j \in at : j <= i}
           rank == [i \in at |-> Cardinality(upTo(i))]
           h == [n \in 1 .. Cardinality(at) |-> CHOOSE i \in at : Cardinality(upTo(i)) = n]
<1>1. at \subseteq 1 .. Len(s) /\ Len(s) \in Nat /\ \A i \in at : s[i] \in T
  OBVIOUS
<1>2. IsFiniteSet(at) /\ Cardinality(at) \in Nat
  <2>1. IsFiniteSet(1 .. Len(s))
    BY <1>1, FS_Interval
  <2> HIDE DEF at
  <2> QED BY <1>1, <2>1, FS_Subset, FS_CardinalityType
<1>2a. at \subseteq Int
  BY <1>1
<1> HIDE DEF at, upTo
<1>3. ASSUME NEW i \in at
      PROVE  IsFiniteSet(upTo(i)) /\ Cardinality(upTo(i)) \in 1 .. Cardinality(at) /\ i \in upTo(i)
  <2>1. upTo(i) \in SUBSET at /\ i \in upTo(i)
    BY <1>1 DEF upTo
  <2>2. IsFiniteSet(upTo(i)) /\ Cardinality(upTo(i)) <= Cardinality(at) /\ Cardinality(upTo(i)) \in Nat
    BY <1>2, <2>1, FS_Subset, FS_CardinalityType
  <2>3. Cardinality(upTo(i)) # 0
    BY <2>1, <2>2, FS_EmptySet
  <2> QED BY <1>2, <2>1, <2>2, <2>3
<1>4. ASSUME NEW i \in at, NEW j \in at, i < j
      PROVE  Cardinality(upTo(i)) < Cardinality(upTo(j))
  <2>1. upTo(i) \in SUBSET upTo(j) /\ j \notin upTo(i)
    <3>1. \A k \in at : k <= i => k <= j
      BY <1>1, <1>4
    <3>2. ~(j <= i)
      BY <1>1, <1>4
    <3> QED BY <3>1, <3>2 DEF upTo
  <2>2. /\ IsFiniteSet(upTo(j)) /\ j \in upTo(j)
        /\ Cardinality(upTo(i)) \in Nat /\ Cardinality(upTo(j)) \in Nat
    BY <1>2, <1>3
  <2>3. Cardinality(upTo(i)) <= Cardinality(upTo(j)) /\ Cardinality(upTo(i)) # Cardinality(upTo(j))
    BY <2>1, <2>2, FS_Subset
  <2> QED BY <2>2, <2>3
<1>5. rank \in Surjection(at, 1 .. Cardinality(at))
  <2>1. rank \in [at -> 1 .. Cardinality(at)]
    BY <1>3
  <2>2. ASSUME NEW i \in at, NEW j \in at, rank[i] = rank[j] PROVE i = j
    <3>1. i \in Int /\ j \in Int
      BY <1>1
    <3>2. ~(i < j) /\ ~(j < i)
      <4>1. rank[i] = Cardinality(upTo(i)) /\ rank[j] = Cardinality(upTo(j))
        OBVIOUS
      <4>2. Cardinality(upTo(i)) \in Int /\ Cardinality(upTo(j)) \in Int
        BY <1>2, <1>3
      <4>3. Cardinality(upTo(i)) = Cardinality(upTo(j))
        BY <2>2, <4>1
      <4>4. ~(Cardinality(upTo(i)) < Cardinality(upTo(j))) /\ ~(Cardinality(upTo(j)) < Cardinality(upTo(i)))
        BY <4>2, <4>3
      <4> HIDE DEF rank
      <4> QED BY <1>4, <4>4
    <3> QED BY <3>1, <3>2
  <2> HIDE DEF rank
  <2>3. rank \in Injection(at, 1 .. Cardinality(at))
    BY <2>1, <2>2 DEF Injection, IsInjective
  <2>4. IsFiniteSet(1 .. Cardinality(at)) /\ Cardinality(1 .. Cardinality(at)) = Cardinality(at)
    <3>1. PICK c \in Nat : c = Cardinality(at)
      BY <1>2
    <3>2. IsFiniteSet(1 .. c) /\ Cardinality(1 .. c) = c
      BY FS_Interval
    <3> QED BY <3>1, <3>2
  <2> QED BY <2>3, <2>4, FS_Injection
<1>6. ASSUME NEW n \in 1 .. Cardinality(at) PROVE h[n] \in at /\ Cardinality(upTo(h[n])) = n
  <2>1. PICK i \in at : rank[i] = n
    BY <1>5 DEF Surjection
  <2>2. Cardinality(upTo(i)) = n
    BY <2>1
  <2> QED BY <2>2
<1>7. Only(s, S) = [n \in 1 .. Cardinality(at) |-> s[h[n]]]
  BY DEF Only, at, upTo
<1> HIDE DEF h
<1>8. PICK c \in Nat : c = Cardinality(at)
  BY <1>2
<1>9. PICK kept : kept = Only(s, S)
  OBVIOUS
<1>10. kept \in Seq(T) /\ Len(kept) = c /\ \A n \in 1 .. c : kept[n] = s[h[n]]
  <2>1. kept \in [1 .. c -> T]
    BY <1>1, <1>6, <1>7, <1>8, <1>9
  <2>2. kept \in Seq(T) /\ Len(kept) = c
    BY <2>1
  <2> QED BY <1>7, <1>8, <1>9, <2>2
<1>11. \A m, n \in 1 .. c : m < n => h[m] < h[n]
  <2> SUFFICES ASSUME NEW m \in 1 .. c, NEW n \in 1 .. c, ~(h[m] < h[n]) PROVE ~(m < n)
    OBVIOUS
  <2>1. /\ h[m] \in at /\ h[n] \in at /\ h[m] \in Int /\ h[n] \in Int
        /\ Cardinality(upTo(h[m])) = m /\ Cardinality(upTo(h[n])) = n
    <3>1. m \in 1 .. Cardinality(at) /\ n \in 1 .. Cardinality(at)
      BY <1>8
    <3>2. h[m] \in at /\ h[n] \in at /\ Cardinality(upTo(h[m])) = m /\ Cardinality(upTo(h[n])) = n
      BY <1>6, <3>1
    <3> QED BY <1>2a, <3>2
  <2>2. h[m] = h[n] \/ h[n] < h[m]
    BY <2>1
  <2> QED BY <1>4, <2>1, <2>2
<1>12. ASSUME NEW i \in at PROVE \E n \in 1 .. c : h[n] = i
  <2>1. Cardinality(upTo(i)) \in 1 .. c
    BY <1>3, <1>8
  <2>2. PICK n \in 1 .. c : n = Cardinality(upTo(i))
    BY <2>1
  <2>3. h[n] \in at /\ Cardinality(upTo(h[n])) = n /\ i \in Int /\ h[n] \in Int
    <3>1. n \in 1 .. Cardinality(at)
      BY <1>8
    <3>2. h[n] \in at /\ Cardinality(upTo(h[n])) = n
      BY <1>6, <3>1
    <3> QED BY <1>2a, <3>2
  <2>4. ~(i < h[n]) /\ ~(h[n] < i)
    <3> QED BY <1>4, <2>2, <2>3
  <2>5. h[n] = i
    BY <2>3, <2>4
  <2> QED BY <2>5
<1>13. h \in [1 .. c -> at]
  <2>1. \A n \in 1 .. c : h[n] \in at
    BY <1>6, <1>8
  <2> QED BY <1>8, <2>1 DEF h
<1>14. \A i \in DOMAIN s : s[i] \in S => \E n \in 1 .. c : h[n] = i
  BY <1>12 DEF at
<1>15. h \in [1 .. c -> {i \in DOMAIN s : s[i] \in S}]
  BY <1>13 DEF at
<1> HIDE DEF rank
<1> QED BY <1>9, <1>10, <1>11, <1>14, <1>15

LEMMA OnlyKeeps ==
  ASSUME NEW T, NEW s \in Seq(T), IsInjective(s), NEW S
  PROVE  /\ Only(s, S) \in Seq(T) /\ IsInjective(Only(s, S)) /\ ToSet(Only(s, S)) = ToSet(s) \cap S
         /\ \A a, b \in 1 .. Len(Only(s, S)) : a < b => Only(s, S)[b] \in Later(s, Only(s, S)[a])
         /\ \A x : Later(Only(s, S), x) \subseteq Later(s, x)
<1>1. PICK kept \in Seq(T) : kept = Only(s, S)
  BY OnlyPlaces
<1>2. PICK h \in [1 .. Len(kept) -> {i \in DOMAIN s : s[i] \in S}] :
        /\ \A n \in 1 .. Len(kept) : kept[n] = s[h[n]]
        /\ \A m, n \in 1 .. Len(kept) : m < n => h[m] < h[n]
        /\ \A i \in DOMAIN s : s[i] \in S => \E n \in 1 .. Len(kept) : h[n] = i
  BY <1>1, OnlyPlaces
<1>3. /\ DOMAIN kept = 1 .. Len(kept) /\ ToSet(kept) = {kept[n] : n \in 1 .. Len(kept)}
      /\ DOMAIN s = 1 .. Len(s) /\ ToSet(s) = {s[i] : i \in 1 .. Len(s)}
      /\ Len(s) \in Nat /\ Len(kept) \in Nat
  BY Places
<1>4. \A n \in 1 .. Len(kept) : h[n] \in 1 .. Len(s) /\ s[h[n]] \in S
  BY <1>2, <1>3
<1>5. IsInjective(kept)
  <2> SUFFICES ASSUME NEW m \in DOMAIN kept, NEW n \in DOMAIN kept, kept[m] = kept[n] PROVE m = n
    BY DEF IsInjective
  <2>1. h[m] = h[n]
    BY <1>2, <1>3, <1>4 DEF IsInjective
  <2>2. h[m] \in Int /\ h[n] \in Int /\ m \in Int /\ n \in Int
    BY <1>3, <1>4
  <2>3. ~(m < n) /\ ~(n < m)
    BY <1>2, <1>3, <2>1, <2>2
  <2> QED BY <2>2, <2>3
<1>6. ToSet(kept) = ToSet(s) \cap S
  <2>1. ToSet(kept) \subseteq ToSet(s) \cap S
    BY <1>2, <1>3, <1>4
  <2>2. ASSUME NEW x \in ToSet(s) \cap S PROVE x \in ToSet(kept)
    <3>1. PICK i \in DOMAIN s : s[i] = x
      BY <1>3
    <3>2. PICK n \in 1 .. Len(kept) : h[n] = i
      BY <1>2, <3>1
    <3>3. kept[n] = x
      BY <1>2, <3>1, <3>2
    <3> QED BY <1>3, <3>3
  <2> QED BY <2>1, <2>2
<1>7. \A a, b \in 1 .. Len(kept) : a < b => kept[b] \in Later(s, kept[a])
  BY <1>2, <1>3, <1>4 DEF Later
<1>8. ASSUME NEW x PROVE Later(kept, x) \subseteq Later(s, x)
  BY <1>3, <1>7 DEF Later
<1> QED BY <1>1, <1>5, <1>6, <1>7, <1>8

LEMMA AppendKeeps ==
  ASSUME NEW T, NEW s \in Seq(T), IsInjective(s), NEW e \in T, e \notin ToSet(s)
  PROVE  /\ Append(s, e) \in Seq(T) /\ IsInjective(Append(s, e)) /\ ToSet(Append(s, e)) = ToSet(s) \cup {e}
         /\ \A x : Later(Append(s, e), x) \subseteq Later(s, x) \cup {e}
         /\ Later(Append(s, e), e) = {}
<1>1. PICK longer \in Seq(T) : longer = Append(s, e)
  <2>1. Append(s, e) \in Seq(T)
    OBVIOUS
  <2> QED BY <2>1
<1>2. /\ DOMAIN s = 1 .. Len(s) /\ Len(s) \in Nat /\ ToSet(s) = {s[i] : i \in 1 .. Len(s)}
      /\ DOMAIN longer = 1 .. Len(longer) /\ ToSet(longer) = {longer[i] : i \in 1 .. Len(longer)}
  BY Places
<1>3. /\ Len(longer) = Len(s) + 1 /\ longer[Len(s) + 1] = e
      /\ \A i \in 1 .. Len(s) : longer[i] = s[i] /\ longer[i] # e
  BY <1>1, <1>2
<1>4. 1 .. Len(longer) = 1 .. Len(s) \cup {Len(s) + 1}
  BY <1>2, <1>3
<1>5. IsInjective(longer)
  BY <1>2, <1>3, <1>4 DEF IsInjective
<1>6. ToSet(longer) = ToSet(s) \cup {e}
  BY <1>2, <1>3, <1>4
<1>7. ASSUME NEW x PROVE Later(longer, x) \subseteq Later(s, x) \cup {e}
  <2> SUFFICES ASSUME NEW b \in 1 .. Len(longer), NEW a \in 1 .. Len(longer), a < b, longer[a] = x
               PROVE  longer[b] \in Later(s, x) \cup {e}
    BY <1>2 DEF Later
  <2>1. CASE b = Len(s) + 1
    BY <1>3, <2>1
  <2>2. CASE b # Len(s) + 1
    <3>1. a \in 1 .. Len(s) /\ b \in 1 .. Len(s)
      BY <1>2, <1>3, <2>2
    <3> QED BY <1>2, <1>3, <3>1 DEF Later
  <2> QED BY <2>1, <2>2
<1>8. Later(longer, e) = {}
  <2> SUFFICES ASSUME NEW b \in 1 .. Len(longer), NEW a \in 1 .. Len(longer), a < b, longer[a] = e
               PROVE  FALSE
    BY <1>2 DEF Later
  <2>1. a \in 1 .. Len(s)
    BY <1>2, <1>3
  <2> QED BY <1>3, <2>1
<1> QED BY <1>1, <1>5, <1>6, <1>7, <1>8

-----------------------------------------------------------------------------
(* Pools *)

LEMMA PeersAreFew ==
  ASSUME NEW E, IsFiniteSet(E), NEW x
  PROVE  IsFiniteSet(Peers(E, x)) /\ Cardinality(Peers(E, x)) \in Nat
<1>1. Peers(E, x) \in SUBSET E
  BY DEF Peers
<1>2. IsFiniteSet(Peers(E, x))
  BY <1>1, FS_Subset
<1> QED BY <1>2, FS_CardinalityType

LEMMA TurnedMore ==
  ASSUME NEW E, IsFiniteSet(E), NEW x, NEW turns, NEW more, Turned(E, x, turns), turns \subseteq more
  PROVE  Turned(E, x, more)
<1>1. CASE Peers(E, x) \subseteq turns \cup {x}
  BY <1>1 DEF Turned
<1>2. CASE Cardinality(turns \cap Peers(E, x)) >= Recent
  <2>1. PICK few, many : few = turns \cap Peers(E, x) /\ many = more \cap Peers(E, x)
    OBVIOUS
  <2>2. IsFiniteSet(many) /\ few \in SUBSET many
    <3>1. many \in SUBSET Peers(E, x) /\ few \in SUBSET many
      BY <2>1
    <3> QED BY <3>1, PeersAreFew, FS_Subset
  <2>3. /\ Cardinality(few) <= Cardinality(many)
        /\ Cardinality(few) \in Nat /\ Cardinality(many) \in Nat /\ Recent \in Nat
    BY <2>2, FS_Subset, FS_CardinalityType, PostsAssumption
  <2>4. Cardinality(many) >= Recent
    BY <1>2, <2>1, <2>3
  <2> QED BY <2>1, <2>4 DEF Turned
<1> QED BY <1>1, <1>2 DEF Turned

(* There is a broad example, so a pool is all examples of a topic.         *)
LEMMA PoolIsTopic ==
  ASSUME world \in Worlds, NEW slot, NEW used, NEW x \in Pool(slot, used)
  PROVE  Pool(slot, used) = Peers(Examples, x) /\ x \in Examples /\ IsFiniteSet(Examples)
<1>1. Broad # {} /\ Broad = {t \in Examples : TopicOf[t] = "broad"}
  BY PostsAssumption DEF Broad, Examples
<1>2. PICK k : Pool(slot, used) = {t \in Examples : TopicOf[t] = k}
  <2>1. CASE Hour(slot) < Evening /\ Broad # Examples
    BY <2>1 DEF Pool
  <2>2. CASE ~(Hour(slot) < Evening /\ Broad # Examples)
    BY <1>1, <2>2 DEF Pool
  <2> QED BY <2>1, <2>2
<1>3. IsFiniteSet(Examples)
  BY PostsAssumption DEF Examples
<1> QED BY <1>2, <1>3 DEF Peers

(* A list that is recycled is one of the same tips, in their order.        *)
LEMMA RecycledKeeps ==
  ASSUME NEW E, NEW pool, NEW used \in Seq(E), IsInjective(used)
  PROVE  /\ Recycled(pool, used) \in Seq(E) /\ IsInjective(Recycled(pool, used))
         /\ ToSet(Recycled(pool, used)) \subseteq ToSet(used)
         /\ \A x : Later(Recycled(pool, used), x) \subseteq Later(used, x)
<1>1. Recycled(pool, used) = used \/ \E S : Recycled(pool, used) = Only(used, S)
  BY DEF Recycled
<1> QED BY <1>1, OnlyKeeps

(* One that it lets go of had its turn: at least those it keeps were       *)
(* chosen later.                                                           *)
LEMMA DroppedTurned ==
  ASSUME NEW E, IsFiniteSet(E), NEW used \in Seq(E), IsInjective(used),
         NEW y \in ToSet(used), NEW pool, y \in pool => pool = Peers(E, y),
         y \notin ToSet(Recycled(pool, used)),
         NEW turns, Later(used, y) \cap Peers(E, y) \subseteq turns
  PROVE  Turned(E, y, turns)
<1> DEFINE mine == Only(used, pool)
           kept == IF Recent < Cardinality(pool) THEN Recent ELSE Cardinality(pool) - 1
           recent == {mine[n] : n \in Len(mine) - kept + 1 .. Len(mine)}
<1>1. /\ pool \subseteq ToSet(used) /\ Recycled(pool, used) = Only(used, (ToSet(used) \ pool) \cup recent)
  BY DEF Recycled
<1>2. /\ mine \in Seq(E) /\ IsInjective(mine) /\ ToSet(mine) = ToSet(used) \cap pool
      /\ \A a, b \in 1 .. Len(mine) : a < b => mine[b] \in Later(used, mine[a])
  BY OnlyKeeps
<1> HIDE DEF mine
<1>3. y \in pool /\ y \notin recent /\ pool = Peers(E, y)
  <2>1. ToSet(Recycled(pool, used)) = ToSet(used) \cap ((ToSet(used) \ pool) \cup recent)
    BY <1>1, OnlyKeeps
  <2> HIDE DEF recent
  <2> QED BY <2>1
<1>4. IsFiniteSet(pool) /\ Cardinality(pool) \in Nat /\ Cardinality(pool) # 0 /\ Recent \in Nat
  BY <1>3, PeersAreFew, FS_EmptySet, PostsAssumption
<1>5. /\ DOMAIN mine = 1 .. Len(mine) /\ Len(mine) \in Nat /\ pool = {mine[n] : n \in 1 .. Len(mine)}
  BY <1>1, <1>2, Places
<1>6. PICK size \in Nat \ {0} : size = Cardinality(pool)
  BY <1>4
<1>7. Len(mine) = size
  <2>1. PICK len \in Nat : len = Len(mine)
    BY <1>5
  <2>2. mine \in Surjection(1 .. len, pool) /\ mine \in Injection(1 .. len, pool)
    <3>1. mine \in [1 .. len -> pool]
      BY <1>2, <1>5, <2>1
    <3> QED BY <1>2, <1>5, <2>1, <3>1 DEF Surjection, Injection
  <2>3. IsFiniteSet(1 .. len) /\ Cardinality(1 .. len) = len
    BY FS_Interval
  <2>4. Cardinality(pool) = Cardinality(1 .. len)
    BY <2>2, <2>3, FS_Surjection
  <2> QED BY <1>6, <2>1, <2>3, <2>4
<1>8. PICK k \in Nat : k = kept /\ (k = Recent \/ k = size - 1) /\ k <= size - 1
  BY <1>4, <1>6
<1>9. recent = {mine[n] : n \in size - k + 1 .. size}
  BY <1>7, <1>8
<1> HIDE DEF kept, recent
<1>10. PICK a \in 1 .. size : mine[a] = y
  BY <1>3, <1>5, <1>7
<1>11. a <= size - k
  <2>1. a \notin size - k + 1 .. size
    BY <1>3, <1>9, <1>10
  <2> QED BY <1>8, <1>10, <2>1
<1>12. \A b \in 1 .. size : a < b => mine[b] \in turns \cap Peers(E, y)
  <2> SUFFICES ASSUME NEW b \in 1 .. size, a < b PROVE mine[b] \in turns \cap Peers(E, y)
    OBVIOUS
  <2>1. mine[b] \in Later(used, y)
    BY <1>2, <1>7, <1>10
  <2>2. mine[b] \in Peers(E, y)
    BY <1>3, <1>5, <1>7
  <2> QED BY <2>1, <2>2
<1>13. CASE k = size - 1
  <2>1. a = 1
    BY <1>8, <1>10, <1>11, <1>13
  <2>2. \A b \in 1 .. size : b = 1 \/ a < b
    BY <2>1
  <2>3. Peers(E, y) \subseteq turns \cup {y}
    BY <1>3, <1>5, <1>7, <1>10, <1>12, <2>1, <2>2
  <2> QED BY <2>3 DEF Turned
<1>14. CASE k = Recent
  <2>1. PICK had : had = turns \cap Peers(E, y)
    OBVIOUS
  <2>2. IsFiniteSet(had) /\ Cardinality(had) \in Nat
    <3>1. had \in SUBSET Peers(E, y)
      BY <2>1
    <3> QED BY <3>1, PeersAreFew, FS_Subset, FS_CardinalityType
  <2> DEFINE back == [n \in 1 .. k |-> mine[size - k + n]]
  <2>3. \A n \in 1 .. k : size - k + n \in 1 .. size /\ a < size - k + n
    BY <1>8, <1>10, <1>11
  <2>4. back \in [1 .. k -> had]
    BY <1>12, <2>1, <2>3
  <2>5. IsInjective(back)
    <3> SUFFICES ASSUME NEW m \in 1 .. k, NEW n \in 1 .. k, mine[size - k + m] = mine[size - k + n] PROVE m = n
      BY DEF IsInjective
    <3>1. size - k + m = size - k + n
      BY <1>2, <1>5, <1>7, <2>3 DEF IsInjective
    <3> QED BY <1>8, <3>1
  <2> HIDE DEF back
  <2>6. back \in Injection(1 .. k, had)
    BY <2>4, <2>5 DEF Injection
  <2>7. Cardinality(1 .. k) <= Cardinality(had) /\ Cardinality(1 .. k) = k
    BY <2>2, <2>6, FS_Injection, FS_Interval
  <2>8. Cardinality(had) >= Recent
    BY <1>14, <2>2, <2>7
  <2> QED BY <2>1, <2>8 DEF Turned
<1> QED BY <1>8, <1>13, <1>14

-----------------------------------------------------------------------------
(* A tip is chosen, and then sent *)

History(E) == Seq([tip : E, sent : BOOLEAN])

(* One history is another and a tip that is not sent yet.                  *)
Grown(longer, history, x) ==
  /\ Len(history) \in Nat /\ DOMAIN history = 1 .. Len(history)
  /\ Len(longer) = Len(history) + 1 /\ DOMAIN longer = 1 .. Len(longer)
  /\ \A k \in 1 .. Len(history) : longer[k] = history[k]
  /\ longer[Len(longer)].tip = x /\ ~longer[Len(longer)].sent

LEMMA HistoryGrows ==
  ASSUME NEW E, NEW history \in History(E), NEW x \in E
  PROVE  /\ Append(history, [tip |-> x, sent |-> FALSE]) \in History(E)
         /\ Grown(Append(history, [tip |-> x, sent |-> FALSE]), history, x)
<1>1. PICK R : R = [tip : E, sent : BOOLEAN]
  OBVIOUS
<1>2. PICK e \in R : e = [tip |-> x, sent |-> FALSE]
  BY <1>1
<1>3. PICK longer : longer = Append(history, e)
  OBVIOUS
<1>4. history \in Seq(R)
  BY <1>1 DEF History
<1>5. /\ longer \in Seq(R) /\ Len(longer) = Len(history) + 1
      /\ \A k \in 1 .. Len(history) : longer[k] = history[k]
      /\ longer[Len(history) + 1] = e
  BY <1>3, <1>4, AppendProperties
<1>6. /\ Len(history) \in Nat /\ DOMAIN history = 1 .. Len(history)
      /\ DOMAIN longer = 1 .. Len(longer)
  BY <1>4, <1>5, Places
<1>7. longer[Len(longer)].tip = x /\ longer[Len(longer)].sent = FALSE
  BY <1>2, <1>5
<1>8. Grown(longer, history, x)
  BY <1>5, <1>6, <1>7 DEF Grown
<1> QED BY <1>1, <1>2, <1>3, <1>5, <1>8 DEF History

LEMMA TurnsGrow ==
  ASSUME NEW longer, NEW history, NEW x, Grown(longer, history, x), NEW i \in DOMAIN history
  PROVE  /\ Since(longer, i) = Since(history, i) \cup {x}
         /\ \A j \in DOMAIN history : Between(longer, i, j) = Between(history, i, j)
         /\ Between(longer, i, Len(longer)) = Since(history, i)
<1>1. /\ Len(history) \in Nat /\ DOMAIN history = 1 .. Len(history) /\ Len(longer) = Len(history) + 1
      /\ DOMAIN longer = 1 .. Len(longer)
      /\ \A k \in 1 .. Len(history) : longer[k] = history[k]
      /\ longer[Len(longer)].tip = x
  BY DEF Grown
<1>2. Since(longer, i) = Since(history, i) \cup {x}
  <2>1. {m \in DOMAIN longer : i < m} = {m \in DOMAIN history : i < m} \cup {Len(longer)}
    BY <1>1
  <2> QED BY <1>1, <2>1 DEF Since
<1>3. ASSUME NEW j \in DOMAIN history
      PROVE  Between(longer, i, j) = Between(history, i, j)
  <2>1. {m \in DOMAIN longer : i < m /\ m < j} = {m \in DOMAIN history : i < m /\ m < j}
    BY <1>1
  <2> QED BY <1>1, <2>1 DEF Between
<1>4. Between(longer, i, Len(longer)) = Since(history, i)
  <2>1. {m \in DOMAIN longer : i < m /\ m < Len(longer)} = {m \in DOMAIN history : i < m}
    BY <1>1
  <2> QED BY <1>1, <2>1 DEF Between, Since
<1> QED BY <1>2, <1>3, <1>4

(* A list rotates on while other tips have their turn.                     *)
LEMMA RotatesOn ==
  ASSUME NEW E, IsFiniteSet(E), NEW history, NEW x, NEW longer, Grown(longer, history, x),
         NEW used, Rotating(E, history, used)
  PROVE  Rotating(E, longer, used)
<1>0. /\ Len(history) \in Nat /\ DOMAIN history = 1 .. Len(history)
      /\ Len(longer) = Len(history) + 1 /\ DOMAIN longer = 1 .. Len(longer)
      /\ \A k \in 1 .. Len(history) : longer[k] = history[k]
      /\ longer[Len(longer)].tip = x /\ ~longer[Len(longer)].sent
  BY DEF Grown
<1>1. ASSUME NEW i \in DOMAIN longer, longer[i].sent
      PROVE  HeldBack(E, longer[i].tip, Since(longer, i), used)
  <2>1. i \in DOMAIN history /\ longer[i] = history[i]
    BY <1>0, <1>1
  <2>2. PICK turns, more : /\ turns = Since(history, i)
                           /\ more = Since(longer, i)
    OBVIOUS
  <2>3. turns \subseteq more
    BY <2>1, <2>2, TurnsGrow
  <2>4. HeldBack(E, history[i].tip, turns, used)
    BY <1>1, <2>1, <2>2 DEF Rotating
  <2>5. HeldBack(E, history[i].tip, more, used)
    BY <2>3, <2>4, TurnedMore DEF HeldBack
  <2> QED BY <2>1, <2>2, <2>5
<1> QED BY <1>1 DEF Rotating

(* A tip that was used before it is chosen had to wait for its peers, and  *)
(* so has one that the list lets go of.                                    *)
LEMMA ChosenRotates ==
  ASSUME NEW E, IsFiniteSet(E), NEW history, NEW x \in E, NEW longer, Grown(longer, history, x),
         NEW used, Rotating(E, history, used), Rotated(E, history),
         NEW before, before = Recycled(Peers(E, x), used), x \notin ToSet(before)
  PROVE  /\ Rotating(E, longer, Append(before, x)) /\ AboutToSend(longer, Append(before, x))
         /\ Rotated(E, longer)
<1>0. /\ Len(history) \in Nat /\ DOMAIN history = 1 .. Len(history)
      /\ Len(longer) = Len(history) + 1 /\ DOMAIN longer = 1 .. Len(longer)
      /\ \A k \in 1 .. Len(history) : longer[k] = history[k]
      /\ longer[Len(longer)].tip = x /\ ~longer[Len(longer)].sent
  BY DEF Grown
<1>1. used \in Seq(E) /\ IsInjective(used)
  BY DEF Rotating
<1>2. /\ before \in Seq(E) /\ IsInjective(before) /\ ToSet(before) \subseteq ToSet(used)
      /\ \A y : Later(before, y) \subseteq Later(used, y)
  BY <1>1, RecycledKeeps
<1>3. PICK renewed : renewed = Append(before, x)
  OBVIOUS
<1>4. /\ renewed \in Seq(E) /\ IsInjective(renewed) /\ ToSet(renewed) = ToSet(before) \cup {x}
      /\ \A y : Later(renewed, y) \subseteq Later(before, y) \cup {x}
      /\ Later(renewed, x) = {}
  BY <1>2, <1>3, AppendKeeps
<1>5. ASSUME NEW i \in DOMAIN history, history[i].sent, history[i].tip \notin ToSet(before)
      PROVE  Turned(E, history[i].tip, Since(history, i))
  <2>1. PICK y, turns : y = history[i].tip /\ turns = Since(history, i)
    OBVIOUS
  <2>2. HeldBack(E, y, turns, used)
    BY <1>5, <2>1 DEF Rotating
  <2>3. CASE y \in ToSet(used) /\ Later(used, y) \cap Peers(E, y) \subseteq turns
    <3>1. y \in Peers(E, x) => Peers(E, x) = Peers(E, y)
      BY DEF Peers
    <3> QED BY <1>1, <1>5, <2>1, <2>3, <3>1, DroppedTurned
  <2> QED BY <2>1, <2>2, <2>3 DEF HeldBack
<1>6. ASSUME NEW i \in DOMAIN longer, longer[i].sent
      PROVE  HeldBack(E, longer[i].tip, Since(longer, i), renewed)
  <2>1. i \in DOMAIN history /\ longer[i] = history[i]
    BY <1>0, <1>6
  <2>2. PICK y, turns : y = history[i].tip /\ turns = Since(history, i)
    OBVIOUS
  <2>3. Since(longer, i) = turns \cup {x}
    BY <2>1, <2>2, TurnsGrow
  <2>4. CASE Turned(E, y, turns)
    <3>1. Turned(E, y, turns \cup {x})
      BY <2>4, TurnedMore
    <3> QED BY <2>1, <2>2, <2>3, <3>1 DEF HeldBack
  <2>5. CASE y \in ToSet(before) /\ Later(used, y) \cap Peers(E, y) \subseteq turns
    <3>1. y \in ToSet(renewed) /\ Later(renewed, y) \cap Peers(E, y) \subseteq turns \cup {x}
      BY <1>2, <1>4, <2>5
    <3> QED BY <2>1, <2>2, <2>3, <3>1 DEF HeldBack
  <2>6. HeldBack(E, y, turns, used) /\ (y \notin ToSet(before) => Turned(E, y, turns))
    BY <1>5, <1>6, <2>1, <2>2 DEF Rotating
  <2> QED BY <2>4, <2>5, <2>6 DEF HeldBack
<1>7. Rotating(E, longer, renewed)
  BY <1>4, <1>6 DEF Rotating
<1>8. AboutToSend(longer, renewed)
  <2>1. longer[Len(longer)].tip = x /\ Len(longer) > 0
    BY <1>0
  <2> QED BY <1>4, <2>1 DEF AboutToSend
<1>9. Rotated(E, longer)
  <2> SUFFICES ASSUME NEW i \in DOMAIN longer, NEW j \in DOMAIN longer,
                      i < j, longer[i].tip = longer[j].tip, longer[i].sent
               PROVE  Turned(E, longer[i].tip, Between(longer, i, j))
    BY DEF Rotated
  <2>1. i \in DOMAIN history /\ longer[i] = history[i]
    BY <1>0
  <2>2. CASE j = Len(longer)
    <3>1. history[i].tip = x /\ history[i].sent /\ x \notin ToSet(before)
      BY <1>0, <2>1, <2>2
    <3>2. Between(longer, i, j) = Since(history, i)
      BY <2>1, <2>2, TurnsGrow
    <3> QED BY <1>5, <2>1, <3>1, <3>2
  <2>3. CASE j # Len(longer)
    <3>1. j \in DOMAIN history /\ longer[j] = history[j]
      BY <1>0, <2>3
    <3>2. Between(longer, i, j) = Between(history, i, j)
      BY <2>1, <3>1, TurnsGrow
    <3> QED BY <2>1, <3>1, <3>2 DEF Rotated
  <2> QED BY <2>2, <2>3
<1> QED BY <1>3, <1>7, <1>8, <1>9

(* It is sent: the list has nothing after it yet.                          *)
LEMMA SentRotates ==
  ASSUME NEW E, NEW history \in History(E), NEW used, Rotating(E, history, used), Rotated(E, history),
         AboutToSend(history, used), NEW after, after = [history EXCEPT ![Len(history)].sent = TRUE]
  PROVE  after \in History(E) /\ Rotating(E, after, used) /\ Rotated(E, after)
<1>1. PICK n : n = Len(history)
  OBVIOUS
<1>2. history \in Seq([tip : E, sent : BOOLEAN]) /\ n > 0
  BY <1>1 DEF History, AboutToSend
<1>3. n \in Nat \ {0} /\ DOMAIN history = 1 .. n /\ history[n] \in [tip : E, sent : BOOLEAN]
  <2>1. PICK R : R = [tip : E, sent : BOOLEAN]
    OBVIOUS
  <2>2. n \in Nat /\ DOMAIN history = 1 .. n /\ \A i \in 1 .. n : history[i] \in R
    BY <1>1, <1>2, <2>1, Places
  <2> QED BY <1>2, <2>1, <2>2
<1>4. PICK e : e = [history[n] EXCEPT !.sent = TRUE]
  OBVIOUS
<1>4a. e \in [tip : E, sent : BOOLEAN] /\ e.tip = history[n].tip
  BY <1>3, <1>4
<1>5. /\ after \in Seq([tip : E, sent : BOOLEAN]) /\ Len(after) = n /\ DOMAIN after = 1 .. n
      /\ \A i \in 1 .. n : after[i] = IF i = n THEN e ELSE history[i]
  <2>1. after = [history EXCEPT ![n] = e]
    BY <1>1, <1>4
  <2>2. PICK R : R = [tip : E, sent : BOOLEAN]
    OBVIOUS
  <2>3. history \in Seq(R) /\ e \in R /\ n \in 1 .. Len(history)
    BY <1>1, <1>2, <1>3, <1>4a, <2>2
  <2>4. after \in Seq(R) /\ Len(after) = Len(history)
    <3>1. [history EXCEPT ![n] = e] \in Seq(R) /\ Len([history EXCEPT ![n] = e]) = Len(history)
      BY <2>3, ExceptSeq
    <3> QED BY <2>1, <3>1
  <2>5. \A i \in 1 .. n : after[i] = IF i = n THEN e ELSE history[i]
    BY <1>3, <2>1
  <2> QED BY <1>1, <2>2, <2>4, <2>5, Places
<1>6. /\ \A i \in 1 .. n : after[i].tip = history[i].tip
      /\ \A i \in 1 .. n : i # n => after[i].sent = history[i].sent
  BY <1>3, <1>4, <1>4a, <1>5
<1>7. \A i, j : Since(after, i) = Since(history, i) /\ Between(after, i, j) = Between(history, i, j)
  BY <1>3, <1>5, <1>6 DEF Since, Between
<1>8. ASSUME NEW i \in 1 .. n, after[i].sent
      PROVE  HeldBack(E, after[i].tip, Since(after, i), used)
  <2>1. Since(after, i) = Since(history, i)
    BY <1>7
  <2>2. CASE i = n
    BY <1>1, <1>6, <2>2 DEF HeldBack, AboutToSend
  <2>3. CASE i # n
    <3>1. history[i].sent
      BY <1>6, <1>8, <2>3
    <3> QED BY <1>1, <1>3, <1>6, <2>1, <3>1 DEF Rotating
  <2> QED BY <2>2, <2>3
<1>9. Rotating(E, after, used)
  BY <1>5, <1>8 DEF Rotating
<1>10. Rotated(E, after)
  <2> SUFFICES ASSUME NEW i \in 1 .. n, NEW j \in 1 .. n, i < j, after[i].tip = after[j].tip, after[i].sent
               PROVE  Turned(E, after[i].tip, Between(after, i, j))
    BY <1>5 DEF Rotated
  <2>1. i # n
    BY <1>3
  <2>2. history[i].sent /\ history[i].tip = history[j].tip
    BY <1>6, <2>1
  <2>3. Between(after, i, j) = Between(history, i, j)
    BY <1>7
  <2> QED BY <1>3, <1>6, <2>2, <2>3 DEF Rotated
<1> QED BY <1>5, <1>9, <1>10 DEF History

-----------------------------------------------------------------------------
(* The history of the tips *)

(* Nothing that the rotation rests on changes, unless a scheduler is gone. *)
LEMMA RotationStays ==
  ASSUME RotationInv, UNCHANGED <<world, shown>>, db'.used = db.used, DOMAIN db' = DOMAIN db,
         \A p \in Process : tip'[p] = tip[p] \/ tip'[p] = NoTip
  PROVE  RotationInv'
<1>1. \A p \in Process : DOMAIN tip'[p] = {"at", "next", "last", "used"}
  BY DEF RotationInv, NoTip
<1>2. ASSUME world.db PROVE TurnsInv'
  <2>1. TurnsInv /\ NoTip.at = "off"
    BY <1>2 DEF RotationInv, NoTip
  <2> QED BY <2>1 DEF TurnsInv, Examples
<1> QED BY <1>1, <1>2 DEF RotationInv, Examples

(* A scheduler goes on, or begins: it is the only one.                     *)
LEMMA RotationMoves ==
  ASSUME RadioInv, ServedInv, RotationInv, world' = world, NEW p \in Process, phase[p] \in Serving,
         NEW u, tip' = [tip EXCEPT ![p] = u], DOMAIN u = {"at", "next", "last", "used"},
         DOMAIN db' = DOMAIN db, shown' \in Seq([tip : Examples, sent : BOOLEAN]),
         world.db => /\ Rotating(Examples, shown', db'.used) /\ Rotating(Examples, shown', u.used)
                     /\ u.at = "claimed" => AboutToSend(shown', u.used) /\ db'.used = u.used
                     /\ Rotated(Examples, shown')
  PROVE  RotationInv'
<1>1. \A q \in Process : tip'[q] = IF q = p THEN u ELSE tip[q]
  BY DEF ServedInv
<1>2. \A q \in Process \ {p} : tip'[q].at = "off"
  BY <1>1, OneServer DEF ServedInv
<1>3. \A q \in Process : DOMAIN tip'[q] = {"at", "next", "last", "used"}
  BY <1>1 DEF RotationInv
<1>4. Examples' = Examples
  BY DEF Examples
<1>5. ASSUME world.db PROVE TurnsInv'
  <2>1. \A q \in Process : tip'[q].at # "off" => Rotating(Examples, shown', tip'[q].used)
    BY <1>1, <1>2, <1>5
  <2>2. \A q \in Process : tip'[q].at = "claimed" => AboutToSend(shown', tip'[q].used) /\ db'.used = tip'[q].used
    BY <1>1, <1>2, <1>5
  <2> QED BY <1>4, <1>5, <2>1, <2>2 DEF TurnsInv
<1> QED BY <1>3, <1>4, <1>5 DEF RotationInv

(* What is known of a scheduler, and of the list that it has.              *)
LEMMA SchedulerHas ==
  ASSUME ServedInv, RotationInv, NEW p \in Process, tip[p].at # "off"
  PROVE  /\ phase[p] \in Serving /\ DOMAIN tip[p] = {"at", "next", "last", "used"}
         /\ DOMAIN db = {"slot", "used", "welcomed"} /\ shown \in Seq([tip : Examples, sent : BOOLEAN])
         /\ world.db => /\ Rotating(Examples, shown, db.used) /\ Rotating(Examples, shown, tip[p].used)
                        /\ Rotated(Examples, shown)
                        /\ tip[p].at = "claimed" => AboutToSend(shown, tip[p].used) /\ db.used = tip[p].used
BY DEF ServedInv, RotationInv, TurnsInv

LEMMA RotationSchedules ==
  ASSUME RadioInv, ServedInv, RotationInv, NEW p \in Process, TipSchedule(p) \/ TipPasses(p)
  PROVE  RotationInv'
<1>1. PICK t : t = tip[p]
  OBVIOUS
<1>2. PICK u : /\ tip' = [tip EXCEPT ![p] = u]
               /\ (\E x : u = [t EXCEPT !.at = "asleep", !.next = x]) \/ u = [t EXCEPT !.at = "idle"]
  <2>1. CASE TipSchedule(p)
    <3>1. PICK x : tip' = [tip EXCEPT ![p] = [t EXCEPT !.at = "asleep", !.next = x]]
      BY <1>1, <2>1 DEF TipSchedule, TipGoes
    <3> QED BY <3>1
  <2>2. CASE TipPasses(p)
    BY <1>1, <2>2 DEF TipPasses, TipGoes
  <2> QED BY <2>1, <2>2
<1>3. t.at # "off" /\ UNCHANGED <<world, shown, db>>
  BY <1>1 DEF TipSchedule, TipPasses, runs
<1>4. DOMAIN t = {"at", "next", "last", "used"} /\ phase[p] \in Serving
  BY <1>1, <1>3, SchedulerHas
<1>5. u.used = t.used /\ u.at # "claimed" /\ DOMAIN u = {"at", "next", "last", "used"}
  BY <1>2, <1>4
<1> QED BY <1>1, <1>2, <1>3, <1>4, <1>5, SchedulerHas, RotationMoves

LEMMA RotationFires ==
  ASSUME RadioInv, ServedInv, RotationInv, NEW p \in Process, TipFire(p)
  PROVE  RotationInv'
<1>1. PICK t : t = tip[p]
  OBVIOUS
<1>2. t.at = "asleep" /\ UNCHANGED <<world, shown>>
  BY <1>1 DEF TipFire, runs
<1>3. DOMAIN t = {"at", "next", "last", "used"} /\ DOMAIN db = {"slot", "used", "welcomed"}
  BY <1>1, <1>2, SchedulerHas
<1>4. PICK u : tip' = [tip EXCEPT ![p] = u] /\ (\/ u = [t EXCEPT !.at = "idle"]
                                                 \/ u = [t EXCEPT !.last = t.next, !.at = "trying"]
                                                 \/ u = [t EXCEPT !.last = t.next, !.at = "idle"])
  BY <1>1 DEF TipFire, TipGoes
<1>5. u.used = t.used /\ u.at # "claimed" /\ DOMAIN u = {"at", "next", "last", "used"}
  BY <1>3, <1>4
<1>6. db' = db \/ Saved(t.next, t.used)
  BY <1>1 DEF TipFire, SaveFails
<1>7. DOMAIN db' = DOMAIN db /\ (db'.used = db.used \/ db'.used = t.used)
  BY <1>3, <1>6 DEF Saved
<1> QED BY <1>1, <1>2, <1>4, <1>5, <1>7, SchedulerHas, RotationMoves

LEMMA SentKeeps ==
  ASSUME NEW E, NEW history \in History(E)
  PROVE  [history EXCEPT ![Len(history)].sent = TRUE] \in History(E)
<1>1. PICK R : R = [tip : E, sent : BOOLEAN]
  OBVIOUS
<1>2. history \in Seq(R) /\ DOMAIN history = 1 .. Len(history) /\ Len(history) \in Nat
  <2>1. history \in Seq(R)
    BY <1>1 DEF History
  <2> QED BY <2>1, Places
<1>3. PICK n \in Nat : n = Len(history)
  BY <1>2
<1>4. PICK e : e = [history[n] EXCEPT !.sent = TRUE]
  OBVIOUS
<1>5. PICK later : later = [history EXCEPT ![n] = e]
  OBVIOUS
<1>6. CASE n = 0
  <2>1. later = history
    BY <1>2, <1>3, <1>5, <1>6
  <2> QED BY <1>1, <1>2, <1>3, <1>4, <1>5, <2>1 DEF History
<1>7. CASE n # 0
  <2>1. n \in 1 .. Len(history) /\ history[n] \in R
    BY <1>2, <1>3, <1>7, Places
  <2>2. e \in R
    BY <1>1, <1>4, <2>1
  <2>3. [history EXCEPT ![n] = e] \in Seq(R)
    BY <1>2, <2>1, <2>2, ExceptSeq
  <2> QED BY <1>1, <1>3, <1>4, <2>3 DEF History
<1> QED BY <1>6, <1>7

LEMMA RotationChooses ==
  ASSUME RadioInv, ServedInv, RotationInv, NEW p \in Process, TipChoose(p)
  PROVE  RotationInv'
<1>1. PICK t : t = tip[p]
  OBVIOUS
<1>2. PICK x \in Pool(t.next, t.used) \ ToSet(Recycled(Pool(t.next, t.used), t.used)) :
        LET used == Append(Recycled(Pool(t.next, t.used), t.used), x)
        IN  /\ \/ Saved(t.last, used) /\ TipGoes(p, [t EXCEPT !.used = used, !.at = "claimed"])
               \/ SaveFails /\ TipGoes(p, [t EXCEPT !.used = used, !.at = "idle"])
            /\ shown' = Append(shown, [tip |-> x, sent |-> FALSE])
  BY <1>1 DEF TipChoose
<1>3. Pool(t.next, t.used) = Peers(Examples, x) /\ x \in Examples /\ IsFiniteSet(Examples)
  BY <1>2, PoolIsTopic DEF RadioInv
<1>4. PICK before : before = Recycled(Peers(Examples, x), t.used) /\ x \notin ToSet(before)
  BY <1>2, <1>3
<1>5. PICK used : used = Append(before, x)
  OBVIOUS
<1>6. PICK u : /\ tip' = [tip EXCEPT ![p] = u]
               /\ \/ Saved(t.last, used) /\ u = [t EXCEPT !.used = used, !.at = "claimed"]
                  \/ SaveFails /\ u = [t EXCEPT !.used = used, !.at = "idle"]
  BY <1>2, <1>3, <1>4, <1>5 DEF TipGoes
<1>7. t.at = "trying" /\ world' = world
  BY <1>1 DEF TipChoose, runs
<1>8. /\ phase[p] \in Serving /\ DOMAIN t = {"at", "next", "last", "used"}
      /\ DOMAIN db = {"slot", "used", "welcomed"} /\ shown \in History(Examples)
      /\ world.db => /\ Rotating(Examples, shown, db.used) /\ Rotating(Examples, shown, t.used)
                     /\ Rotated(Examples, shown)
  BY <1>1, <1>7, SchedulerHas DEF History
<1>9. shown' \in History(Examples) /\ Grown(shown', shown, x)
  BY <1>2, <1>3, <1>8, HistoryGrows
<1>10. DOMAIN u = {"at", "next", "last", "used"} /\ u.used = used
  BY <1>6, <1>8
<1>11. DOMAIN db' = DOMAIN db
  BY <1>6, <1>8 DEF Saved, SaveFails
<1>12. ASSUME world.db
       PROVE  /\ Rotating(Examples, shown', db'.used) /\ Rotating(Examples, shown', u.used)
              /\ u.at = "claimed" => AboutToSend(shown', u.used) /\ db'.used = u.used
              /\ Rotated(Examples, shown')
  <2>1. Rotating(Examples, shown', used) /\ AboutToSend(shown', used) /\ Rotated(Examples, shown')
    BY <1>3, <1>4, <1>5, <1>8, <1>9, <1>12, ChosenRotates
  <2>2. Rotating(Examples, shown', db.used)
    BY <1>3, <1>8, <1>9, <1>12, RotatesOn
  <2>3. CASE Saved(t.last, used)
    <3>1. db'.used = used
      BY <1>8, <1>12, <2>3 DEF Saved
    <3> QED BY <1>10, <2>1, <3>1
  <2>4. CASE SaveFails /\ u = [t EXCEPT !.used = used, !.at = "idle"]
    <3>1. db' = db /\ u.at = "idle"
      BY <1>8, <2>4 DEF SaveFails
    <3> QED BY <1>10, <2>1, <2>2, <3>1
  <2> QED BY <1>6, <2>3, <2>4
<1>13. shown' \in Seq([tip : Examples, sent : BOOLEAN])
  BY <1>9 DEF History
<1> QED BY <1>6, <1>7, <1>8, <1>10, <1>11, <1>12, <1>13, RotationMoves

LEMMA RotationPosts ==
  ASSUME RadioInv, ServedInv, RotationInv, NEW p \in Process, TipPost(p)
  PROVE  RotationInv'
<1>1. PICK t : t = tip[p]
  OBVIOUS
<1>2. /\ t.at = "claimed" /\ world' = world /\ db' = db
      /\ tip' = [tip EXCEPT ![p] = [t EXCEPT !.at = "idle"]]
      /\ shown' = [shown EXCEPT ![Len(shown)].sent = TRUE]
  BY <1>1 DEF TipPost, TipGoes, runs
<1>3. /\ phase[p] \in Serving /\ DOMAIN t = {"at", "next", "last", "used"}
      /\ shown \in History(Examples)
      /\ world.db => /\ Rotating(Examples, shown, t.used) /\ Rotated(Examples, shown)
                     /\ AboutToSend(shown, t.used) /\ db.used = t.used
  BY <1>1, <1>2, SchedulerHas DEF History
<1>4. PICK u : u = [t EXCEPT !.at = "idle"]
  OBVIOUS
<1>5. DOMAIN u = {"at", "next", "last", "used"} /\ u.used = t.used /\ u.at # "claimed"
  BY <1>3, <1>4
<1>6. world.db => /\ shown' \in History(Examples)
                  /\ Rotating(Examples, shown', t.used) /\ Rotated(Examples, shown')
  BY <1>2, <1>3, SentRotates
<1>7. shown' \in Seq([tip : Examples, sent : BOOLEAN])
  BY <1>2, <1>3, SentKeeps DEF History
<1> QED BY <1>2, <1>3, <1>4, <1>5, <1>6, <1>7, RotationMoves

LEMMA RotationBegins ==
  ASSUME RadioInv, ServedInv, RotationInv, NEW p \in Process, BeginPosts(p)
  PROVE  RotationInv'
<1>1. world' = world /\ phase[p] \in Serving /\ UNCHANGED <<db, shown>>
  BY DEF BeginPosts, Begin, Serving
<1>2. CASE tip' = tip
  BY <1>1, <1>2, RotationStays
<1>3. PICK u : u = [at |-> "idle", next |-> None, last |-> db.slot, used |-> db.used]
  OBVIOUS
<1>4. CASE tip' = [tip EXCEPT ![p] = u]
  <2>1. DOMAIN u = {"at", "next", "last", "used"} /\ u.used = db.used /\ u.at = "idle"
    BY <1>3
  <2>2. /\ shown \in Seq([tip : Examples, sent : BOOLEAN])
        /\ world.db => Rotating(Examples, shown, db.used) /\ Rotated(Examples, shown)
    BY DEF RotationInv, TurnsInv
  <2> QED BY <1>1, <1>4, <2>1, <2>2, RotationMoves
<1>5. tip' = tip \/ tip' = [tip EXCEPT ![p] = u]
  BY <1>3 DEF BeginPosts, TipGoes
<1> QED BY <1>2, <1>4, <1>5

LEMMA RotationNext ==
  ASSUME RadioInv, ServedInv, RotationInv, [Next]_vars
  PROVE  RotationInv'
<1>1. world' = world
  BY WorldStays
<1>2. CASE PostsFollow
  <2>1. /\ \A p \in Process : tip'[p] = tip[p] \/ tip'[p] = NoTip
        /\ UNCHANGED <<db, shown>>
    BY <1>2 DEF PostsFollow
  <2> QED BY <1>1, <2>1, RotationStays
<1>3. CASE UNCHANGED <<db, tip, shown>>
  BY <1>1, <1>3, RotationStays
<1>4. ASSUME NEW p \in Process, TipStep(p) PROVE RotationInv'
  BY <1>4, RotationSchedules, RotationFires, RotationChooses, RotationPosts DEF TipStep
<1>5. ASSUME NEW p \in Process, FortuneStep(p) \/ VoiceStep(p) PROVE RotationInv'
  <2>1. UNCHANGED <<db, tip, shown>>
    BY <1>5 DEF FortuneStep, FortuneSchedule, FortuneFire, FortunePost, FortunePasses,
                VoiceStep, Choose, Expire, AnnounceReset
  <2> QED BY <1>3, <2>1
<1>6. ASSUME NEW p \in Process, WelcomeStep(p) PROVE RotationInv'
  <2>1. UNCHANGED <<tip, shown>> /\ (db' = db \/ \E n : db' = [db EXCEPT !.welcomed = @ \cup {n}])
    BY <1>6 DEF WelcomeStep, WelcomeClaim, WelcomePost, WelcomePasses, SaveFails
  <2>2. DOMAIN db' = DOMAIN db /\ db'.used = db.used
    BY <2>1 DEF RotationInv
  <2> QED BY <1>1, <2>1, <2>2, RotationStays
<1>7. ASSUME NEW p \in Process, Posts(p) PROVE RotationInv'
  BY <1>4, <1>5, <1>6, <1>7, PostsStep
<1>8. CASE Tick \/ TurnBack \/ UNCHANGED vars
  BY <1>3, <1>8 DEF Tick, TurnBack, vars, posts
<1> QED BY <1>2, <1>7, <1>8, RotationBegins DEF Next

LEMMA RotationInit ==
  ASSUME Init
  PROVE  RadioInv /\ ServedInv /\ RotationInv
<1>1. RadioInv /\ ServedInv
  BY RadioInit DEF Init, ServedInv, RunsInit, NoTip, NoFortune
<1>2. PICK used : used = << >>
  OBVIOUS
<1>3. Rotating(Examples, << >>, used) /\ Rotated(Examples, << >>)
  BY <1>2 DEF Rotating, Rotated, IsInjective
<1>4. /\ shown = << >> /\ DOMAIN db = {"slot", "used", "welcomed"} /\ db.used = used
      /\ \A p \in Process : tip[p].at = "off" /\ DOMAIN tip[p] = {"at", "next", "last", "used"}
  BY <1>2 DEF Init, NoTip
<1>5. shown \in Seq([tip : Examples, sent : BOOLEAN])
  BY <1>4
<1> QED BY <1>1, <1>3, <1>4, <1>5 DEF RotationInv, TurnsInv

(* Wherever the tips have a table, one that was sent does not come again   *)
(* before its peers, or ten of them, had their turn: whatever the tips and *)
(* topics are, however often a commit or a send fails, a run ends or       *)
(* crashes between a choice and its commit, or the clock is set back       *)
(* (usage_tips.py, fire; storage.py, save_usage_tips).                     *)
THEOREM TipsRotateAlways == Spec => []TipsRotate
<1>1. RadioInv /\ ServedInv /\ RotationInv /\ [Next]_vars => RadioInv' /\ ServedInv' /\ RotationInv'
  BY RadioNext, ServedNext, RotationNext
<1>2. RotationInv => TipsRotate
  <2> SUFFICES ASSUME RotationInv, world.db, NEW i \in DOMAIN shown, NEW j \in DOMAIN shown,
                      i < j, shown[i].tip = shown[j].tip, shown[i].sent
               PROVE  LET pool == {t \in Examples : TopicOf[t] = TopicOf[shown[i].tip]}
                          between == {shown[k].tip : k \in i + 1 .. j - 1} \cap pool
                      IN  pool \subseteq between \cup {shown[i].tip} \/ Cardinality(between) >= Recent
    BY DEF TipsRotate
  <2>1. Turned(Examples, shown[i].tip, Between(shown, i, j))
    BY DEF RotationInv, TurnsInv, Rotated
  <2>2. DOMAIN shown = 1 .. Len(shown) /\ Len(shown) \in Nat
    BY Places DEF RotationInv
  <2>3. {m \in DOMAIN shown : i < m /\ m < j} = i + 1 .. j - 1
    BY <2>2
  <2>4. Between(shown, i, j) = {shown[k].tip : k \in i + 1 .. j - 1}
    BY <2>3 DEF Between
  <2> QED BY <2>1, <2>4 DEF Turned, Peers
<1> QED BY <1>1, <1>2, RotationInit, PTL DEF Spec

=============================================================================

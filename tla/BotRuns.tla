------------------------------ MODULE BotRuns ------------------------------
(***************************************************************************)
(* The runs of the program from the lock to the radio and back:            *)
(* bot/cli.py, bot/channels.py, bot/lifecycle.py and start, prepare and    *)
(* stop of bot/service.py, on top of SingleInstance.  A run opens the      *)
(* radio, prepares all its channels, starts them one after the other, and  *)
(* ends by stopping them, closing the radio and giving the lock back.      *)
(*                                                                         *)
(* External: the port of the radio is closed when its process is gone.     *)
(***************************************************************************)
EXTENDS SingleInstance, Sequences

CONSTANT Worlds  (* what the user has set up, and the bounds of a behaviour *)

(* Two older versions would share the radio before any run of this one.    *)
ASSUME RunsAssumption ==
  \A w \in Worlds : w.older \subseteq Process \ Controller /\ \A p, q \in w.older : p = q

VARIABLES
  world,     (* one of them                                                *)
  launches,  (* how many programs were started                             *)
  radio,     (* the processes that have the port open                      *)
  prepared,  (* how many channels each run has prepared                    *)
  begun      (* how many it has started                                    *)

runs == <<instance, world, launches, radio, prepared, begun>>

(* SIGTERM and Ctrl-C are handled by `run'.                                *)
Handled == {"connecting", "preparing", "up"}
Serving == {"preparing", "up"}

RunsInit ==
  /\ world \in Worlds
  /\ launches = 0
  /\ InstanceInit(world.older)
  /\ radio = world.older
  /\ prepared = [p \in Process |-> 0]
  /\ begun = [p \in Process |-> 0]

(* A process that leaves the work of a run, or is gone, has no channels;   *)
(* one that is gone has no radio.                                          *)
ChannelsFollow ==
  /\ radio' = {p \in radio : phase'[p] # "gone"}
  /\ prepared' = [p \in Process |-> IF phase'[p] \in Serving THEN prepared[p] ELSE 0]
  /\ begun' = [p \in Process |-> IF phase'[p] \in Serving THEN begun[p] ELSE 0]
  /\ UNCHANGED <<world, launches>>

-----------------------------------------------------------------------------
Start(p) ==
  /\ p \in world.runs /\ launches < world.launches
  /\ Launch(p)
  /\ launches' = launches + 1
  /\ UNCHANGED <<world, radio, prepared, begun>>

StartOlder(q) ==
  /\ q \in world.older /\ launches < world.launches
  /\ Restarted(q)
  /\ launches' = launches + 1
  /\ radio' = radio \cup {q}
  /\ UNCHANGED <<world, prepared, begun>>

(* connect: the port is open; the handshake succeeds, or the port is       *)
(* closed again and the program ends.                                      *)
OpenPort(p) ==
  /\ phase[p] = "connecting" /\ p \notin radio
  /\ radio' = radio \cup {p}
  /\ UNCHANGED <<instance, world, launches, prepared, begun>>

Connect(p) ==
  /\ phase[p] = "connecting" /\ p \in radio
  /\ Goes(p, "preparing")
  /\ ChannelsFollow

(* With several channels each must have a key that no other has.           *)
Distinct(keys, n) ==
  Len(keys) > 1 => keys[n] # None /\ \A i \in 1 .. n - 1 : keys[i] # keys[n]

Prepare(p) ==
  LET n == prepared[p] + 1
  IN  /\ phase[p] = "preparing" /\ n <= Len(world.keys)
      /\ IF Distinct(world.keys, n)
           THEN /\ prepared' = [prepared EXCEPT ![p] = n]
                /\ UNCHANGED <<instance, world, launches, radio, begun>>
           ELSE Goes(p, "stopping") /\ ChannelsFollow

(* BotService._start of the next channel, once all are prepared.  What     *)
(* posts by itself on the channel is started with it.                      *)
Begin(p) ==
  LET n == begun[p] + 1
  IN  /\ phase[p] = "preparing" /\ prepared[p] = Len(world.keys)
      /\ begun' = [begun EXCEPT ![p] = n]
      /\ IF n = Len(world.keys) THEN Goes(p, "up") ELSE UNCHANGED instance
      /\ UNCHANGED <<world, launches, radio, prepared>>

(* A signal, the user's quit, or an error of the radio or a channel while  *)
(* it starts: stop, which cancels what the run is doing.                   *)
Quit(p) ==
  /\ phase[p] \in Handled
  /\ Goes(p, "stopping")
  /\ ChannelsFollow

(* disconnect: the port is closed even if the library does not manage.     *)
Disconnect(p) ==
  /\ phase[p] = "stopping" /\ p \in radio
  /\ radio' = radio \ {p}
  /\ UNCHANGED <<instance, world, launches, prepared, begun>>

(* Mutant: the lock is given back while the radio is being closed.         *)
ReturnEarly(p) == Leave(p) /\ ChannelsFollow

(* The service has ended, and the lock's __exit__ begins.                  *)
Return(p) == p \notin radio /\ Leave(p) /\ ChannelsFollow

(* The process is killed, or the power fails for it.                       *)
Crash(p) ==
  /\ p \in Registered
  /\ Gone({p})
  /\ ChannelsFollow

RunsNext ==
  \/ (Contend \/ Wait) /\ ChannelsFollow
  \/ \E p \in Process :
       \/ Start(p) \/ StartOlder(p) \/ OpenPort(p) \/ Connect(p) \/ Prepare(p)
       \/ Quit(p) \/ Disconnect(p) \/ Return(p) \/ Crash(p)

-----------------------------------------------------------------------------
(* One process has the radio: an older version has ended, and a former     *)
(* owner has closed it, before a new one opens it (__enter__, stop_others  *)
(* and the order of _run's finally and __exit__).                          *)
OneRadio == Cardinality(radio) <= 1

(* A bot only asks the one to end that has the lock, or one that does not  *)
(* take part: never one that waits like itself, whoever gets the lock in   *)
(* between (_owner, _legacy_processes).                                    *)
WaiterSpared ==
  [][\A q \in term' \ term : q = lock \/ q \notin Registered]_runs

(* Nobody waits for the lock forever, even if others are always quicker    *)
(* and each of them ignores the request to end (the deadline of            *)
(* __enter__).                                                             *)
Handover == \A p \in Process : phase[p] = "waiting" ~> phase[p] # "waiting"

=============================================================================

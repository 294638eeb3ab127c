--------------------------- MODULE SingleInstance ---------------------------
(***************************************************************************)
(* One bot per user: bot/instance.py and its use by main of bot/cli.py.    *)
(* Processes of this program, or of a version from before the lock, start  *)
(* at any time; a new one makes the owner of the lock end and waits.       *)
(*                                                                         *)
(* External: the lock of a file is free as soon as its holder has closed   *)
(* it or is gone; a process ends at once when it is killed, and at SIGTERM *)
(* too unless `run' has taken over the signal.  The checks that protect    *)
(* processes of others (user, time of creation, arguments) are left out:   *)
(* a process here is a bot of this user.                                   *)
(***************************************************************************)
EXTENDS Integers, FiniteSets

CONSTANTS
  Process,
  Controller,  (* the processes that are started with --stop               *)
  None,
  Grace,       (* grace_s, in polls of the lock as TLC's unit of time      *)
  KillWait     (* kill_wait_s; 0 is less than a unit                       *)

ASSUME InstanceAssumption ==
  /\ Controller \subseteq Process /\ None \notin Process
  /\ Grace \in Nat \ {0} /\ KillWait \in Nat

VARIABLES
  phase,     (* where each process is; "older" never looks at the lock     *)
  lock,      (* who has it                                                 *)
  record,    (* who the file says has it                                   *)
  waited,    (* how long each has waited                                   *)
  told,      (* signalled: when each asked which other to end              *)
  targets,   (* stop_others: whom each asked to end                        *)
  term       (* processes that SIGTERM was sent to                         *)

instance == <<phase, lock, record, waited, told, targets, term>>

Phases == {"off", "launched", "waiting", "locked", "clearing", "connecting", "preparing",
           "up", "stopping", "leaving", "exiting", "gone", "older"}

Refusal == Grace + KillWait + 2
Nobody == [q \in Process |-> None]

InstanceInit(older) ==
  /\ phase = [p \in Process |-> IF p \in older THEN "older" ELSE "off"]
  /\ lock = None /\ record = None
  /\ waited = [p \in Process |-> 0]
  /\ told = [p \in Process |-> Nobody]
  /\ targets = [p \in Process |-> {}]
  /\ term = {}

(* _registered: the processes that have the lock's file open.              *)
Registered == {p \in Process : phase[p] \notin {"off", "launched", "exiting", "gone", "older"}}

(* Mutant: a bot that waits for the lock is taken for an older one.        *)
UnregisteredWaiters(p) ==
  {q \in Process \ ({p} \cup Controller) : phase[q] \in {"launched", "waiting", "exiting", "older"}}

(* _legacy_processes: bots that do not.  That includes one that was        *)
(* launched and has not come to the lock, and one that has left it.        *)
Unregistered(p) ==
  {q \in Process \ ({p} \cup Controller) : phase[q] \in {"launched", "exiting", "older"}}

(* The processes Q are gone, with all they had.  What others know of them  *)
(* (a record, a signal) is of no other process.                            *)
Gone(Q) ==
  /\ phase' = [q \in Process |-> IF q \in Q THEN "gone" ELSE phase[q]]
  /\ lock' = IF lock \in Q THEN None ELSE lock
  /\ record' = IF record \in Q THEN None ELSE record
  /\ told' = [p \in Process |-> [q \in Process |-> IF {p, q} \cap Q # {} THEN None ELSE told[p][q]]]
  /\ waited' = [p \in Process |-> IF p \in Q THEN 0 ELSE waited[p]]
  /\ targets' = [p \in Process |-> IF p \in Q THEN {} ELSE targets[p] \ Q]
  /\ term' = term \ Q

Goes(p, to) ==
  /\ phase' = [phase EXCEPT ![p] = to]
  /\ UNCHANGED <<lock, record, waited, told, targets, term>>

Asks(p, to, Q) ==
  /\ phase' = [phase EXCEPT ![p] = to]
  /\ targets' = [targets EXCEPT ![p] = Q]

-----------------------------------------------------------------------------
(* A program is started, perhaps once more after it ended.                 *)
Launch(p) == phase[p] \in {"off", "gone"} /\ Goes(p, "launched")

(* SIGTERM before `run' handles it or after, or sent to an older version.  *)
DiesOfTerm(p) ==
  /\ p \in term
  /\ phase[p] \in {"launched", "waiting", "locked", "clearing", "older", "leaving", "exiting"}
  /\ Gone({p})

(* The file is opened; from now on the process is registered.              *)
Open(p) == phase[p] = "launched" /\ Goes(p, "waiting")

(* flock succeeds, at once or in a later turn of the loop.                 *)
Lock(p) ==
  /\ phase[p] = "waiting" /\ lock = None
  /\ lock' = p
  /\ phase' = [phase EXCEPT ![p] = "locked"]
  /\ UNCHANGED <<record, waited, told, targets, term>>

Refuse(p) ==
  /\ phase[p] = "waiting" /\ lock # None /\ waited[p] >= Refusal
  /\ Gone({p})

(* _owner.  A record may be of an owner that has since ended.              *)
Owner(p) == IF record \in Registered \ {p} THEN record ELSE None

Polls(p) == phase[p] = "waiting" /\ lock # None /\ waited[p] < Refusal

AskToEnd(p) ==
  LET q == Owner(p)
  IN  /\ Polls(p) /\ q # None
      /\ told[p][q] = None
      /\ told' = [told EXCEPT ![p][q] = waited[p]]
      /\ term' = term \cup {q}
      /\ UNCHANGED <<phase, lock, record, waited, targets>>

KillOwner(p) ==
  LET q == Owner(p)
  IN  /\ Polls(p) /\ q # None
      /\ told[p][q] # None /\ waited[p] - told[p][q] >= Grace
      /\ Gone({q})

(* Mutant: nobody gives up waiting.                                        *)
WaitForever ==
  /\ \E p \in Process : Polls(p)
  /\ waited' = [p \in Process |-> IF Polls(p) /\ waited[p] < Refusal - 1 THEN waited[p] + 1 ELSE waited[p]]
  /\ UNCHANGED <<phase, lock, record, told, targets, term>>

(* Time passes for all that wait.                                          *)
Wait ==
  /\ \E p \in Process : Polls(p)
  /\ waited' = [p \in Process |-> IF Polls(p) THEN waited[p] + 1 ELSE waited[p]]
  /\ UNCHANGED <<phase, lock, record, told, targets, term>>

(* The owner writes its name, and stop_others begins.                      *)
Record(p) ==
  /\ phase[p] = "locked"
  /\ record' = p
  /\ Asks(p, "clearing", Unregistered(p))
  /\ term' = term \cup Unregistered(p)
  /\ UNCHANGED <<lock, waited, told>>

(* Those that have not ended in time are killed.                           *)
KillRemaining(p) ==
  /\ phase[p] \in {"clearing", "leaving"} /\ targets[p] # {}
  /\ Gone(targets[p])

(* __exit__: stop_others once more.  `Run' has dealt with a signal to p.   *)
Exit(p, signals) ==
  /\ Asks(p, "leaving", Unregistered(p))
  /\ term' = signals \cup Unregistered(p)
  /\ UNCHANGED <<lock, record, waited, told>>

Leave(p) == phase[p] = "stopping" /\ Exit(p, term \ {p})

(* stop_others returns: --stop is done, a bot goes on to the radio.  If    *)
(* more have come up it fails, and the program ends.                       *)
Clear(p) ==
  /\ phase[p] = "clearing" /\ targets[p] = {}
  /\ IF p \in Controller \/ Unregistered(p) # {} THEN Exit(p, term) ELSE Goes(p, "connecting")

(* close, whatever stop_others has found.  The lock is free before the     *)
(* process is gone.                                                        *)
Close(p) ==
  /\ phase[p] = "leaving" /\ targets[p] = {}
  /\ phase' = [phase EXCEPT ![p] = "exiting"]
  /\ lock' = None
  /\ UNCHANGED <<record, waited, told, targets, term>>

End(p) == phase[p] = "exiting" /\ Gone({p})

(* A service manager starts an older version again when it was stopped.    *)
Restarted(q) ==
  /\ phase[q] = "gone"
  /\ \E p \in Process : phase[p] = "clearing"
  /\ Goes(q, "older")

Contend ==
  \E p \in Process :
    \/ DiesOfTerm(p) \/ Open(p) \/ Lock(p) \/ Refuse(p) \/ AskToEnd(p) \/ KillOwner(p)
    \/ Record(p) \/ KillRemaining(p) \/ Clear(p) \/ Close(p) \/ End(p)

=============================================================================

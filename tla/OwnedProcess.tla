---------------------------- MODULE OwnedProcess ----------------------------
(***************************************************************************)
(* The owned-process manager of src/src/services/owned-process.ts: at most *)
(* one child, started and stopped by calls that may overlap, and whose     *)
(* exit is reported to listeners once.  A process is identified by its     *)
(* generation (the pid and start time of the status record).               *)
(***************************************************************************)
EXTENDS Integers

CONSTANTS
    Starter,  \* calls of start
    Stopper,  \* calls of stop
    MaxProc   \* bound on the processes spawned

ASSUME ProcAssumption == MaxProc \in Nat

Proc == 1..MaxProc

VARIABLES
    active,   \* the active child's generation, 0 for null
    phase,    \* life of each process
    killed,   \* whether SIGKILL has been sent to it
    starter,  \* per start call: where it is, and the process it spawned
    stopper   \* per stop call: where it is, and the process it captured

manager == <<active, phase, killed, starter, stopper>>

NoCall == [pc |-> "idle", proc |-> 0]

InitManager ==
    /\ active = 0
    /\ phase = [p \in Proc |-> "none"]
    /\ killed = [p \in Proc |-> FALSE]
    /\ starter = [c \in Starter |-> NoCall]
    /\ stopper = [c \in Stopper |-> NoCall]

(* Mutant: start does not look for an active child. *)
SpawnAnother(c) ==
    \E p \in Proc :
        /\ phase[p] = "none" /\ \A q \in Proc : q < p => phase[q] # "none"
        /\ phase' = [phase EXCEPT ![p] = "spawning"]
        /\ active' = p
        /\ starter' = [starter EXCEPT ![c] = [pc |-> "spawning", proc |-> p]]
        /\ UNCHANGED <<killed, stopper>>

(* start(): refused while a child is active; otherwise the child is active *)
(* from the spawn on, before it is known whether it runs.                  *)
Spawn(c) ==
    IF active # 0
    THEN /\ starter' = [starter EXCEPT ![c].pc = "failed"]
         /\ UNCHANGED <<active, phase, killed, stopper>>
    ELSE \E p \in Proc :
            /\ phase[p] = "none" /\ \A q \in Proc : q < p => phase[q] # "none"
            /\ phase' = [phase EXCEPT ![p] = "spawning"]
            /\ active' = p
            /\ starter' = [starter EXCEPT ![c] = [pc |-> "spawning", proc |-> p]]
            /\ UNCHANGED <<killed, stopper>>

(* 'spawn': the call returns the status of the child. *)
Spawned(c) ==
    LET p == starter[c].proc IN
    /\ starter[c].pc = "spawning"
    /\ phase[p] = "spawning"
    /\ phase' = [phase EXCEPT ![p] = "alive"]
    /\ starter' = [starter EXCEPT ![c].pc = "started"]
    /\ UNCHANGED <<active, killed, stopper>>

(* 'error': nothing runs, and the call throws. *)
SpawnError(c) ==
    LET p == starter[c].proc IN
    /\ starter[c].pc = "spawning"
    /\ phase[p] = "spawning"
    /\ phase' = [phase EXCEPT ![p] = "closed"]
    /\ active' = IF active = p THEN 0 ELSE active
    /\ starter' = [starter EXCEPT ![c].pc = "failed"]
    /\ UNCHANGED <<killed, stopper>>

(* The process ends by itself or by a signal (external). *)
Exit(p) ==
    /\ phase[p] = "alive"
    /\ phase' = [phase EXCEPT ![p] = "exited"]
    /\ UNCHANGED <<active, killed, starter, stopper>>

(* 'close': the child is no longer active and, if it was, the listeners    *)
(* are told; the composition adds what they do.                            *)
Notifies(p) == active = p
Close(p) ==
    /\ phase[p] = "exited"
    /\ phase' = [phase EXCEPT ![p] = "closed"]
    /\ active' = IF Notifies(p) THEN 0 ELSE active
    /\ UNCHANGED <<killed, starter, stopper>>

(* stop(): SIGTERM to the active child, which may ignore it. *)
StopCaptures(c) ==
    /\ stopper[c].pc = "idle"
    /\ stopper' = [stopper EXCEPT ![c] = IF active = 0 THEN [@ EXCEPT !.pc = "stopped"]
                                         ELSE [pc |-> "grace", proc |-> active]]
    /\ UNCHANGED <<active, phase, killed>>

(* Mutants: stop returns once it has sent SIGKILL; it never sends it. *)
GraceExpiresAtOnce(c) ==
    LET p == stopper[c].proc IN
    /\ stopper[c].pc = "grace"
    /\ killed' = [killed EXCEPT ![p] = (active = p) \/ @]
    /\ stopper' = [stopper EXCEPT ![c].pc = "stopped"]
    /\ UNCHANGED <<active, phase, starter>>

GraceExpiresWithoutKill(c) ==
    /\ stopper[c].pc = "grace"
    /\ stopper' = [stopper EXCEPT ![c].pc = IF active = stopper[c].proc THEN "killing"
                                            ELSE "stopped"]
    /\ UNCHANGED <<active, phase, killed, starter>>

(* The grace period ends: SIGKILL only if the captured child is still the  *)
(* active one. *)
GraceExpires(c) ==
    LET p == stopper[c].proc IN
    /\ stopper[c].pc = "grace"
    /\ IF active = p
       THEN /\ killed' = [killed EXCEPT ![p] = TRUE]
            /\ stopper' = [stopper EXCEPT ![c].pc = "killing"]
       ELSE stopper' = [stopper EXCEPT ![c].pc = "stopped"] /\ UNCHANGED killed
    /\ UNCHANGED <<active, phase, starter>>

(* The captured child's 'close' has been seen. *)
StopReturns(c) ==
    /\ stopper[c].pc \in {"grace", "killing"}
    /\ phase[stopper[c].proc] = "closed"
    /\ stopper' = [stopper EXCEPT ![c].pc = "stopped"]
    /\ UNCHANGED <<active, phase, killed, starter>>

-----------------------------------------------------------------------------
(* Every variable keeps its type, and the active child is one that exists. *)
ManagerTypeOK ==
    /\ active \in Proc \cup {0}
    /\ active # 0 => phase[active] \in {"spawning", "alive", "exited"}
    /\ phase \in [Proc -> {"none", "spawning", "alive", "exited", "closed"}]
    /\ killed \in [Proc -> BOOLEAN]
    /\ starter \in [Starter -> [pc : {"idle", "spawning", "started", "stopping", "failed", "done"},
                               proc : Proc \cup {0}]]
    /\ stopper \in [Stopper -> [pc : {"idle", "grace", "killing", "stopped"}, proc : Proc \cup {0}]]

(* No second child is ever alive beside the active one, not even one that  *)
(* is dying or still being spawned.                                        *)
OneChild ==
    \A p \in Proc : phase[p] \in {"spawning", "alive", "exited"} => active = p

(* A stop that has returned leaves the child it signalled gone. *)
StoppedIsGone ==
    \A c \in Stopper : stopper[c].pc = "stopped" /\ stopper[c].proc # 0
                         => phase[stopper[c].proc] = "closed"

(* What a call knows of the process it spawned or signalled: a start that  *)
(* goes on has seen it run, and a stop under way has captured one.         *)
CallsKnowTheirProcess ==
    /\ \A c \in Starter :
          /\ starter[c].pc \in {"spawning", "started"} => starter[c].proc \in Proc
          /\ starter[c].pc = "started" => phase[starter[c].proc] \in {"alive", "exited", "closed"}
    /\ \A c \in Stopper :
          /\ stopper[c].pc = "idle" => stopper[c].proc = 0
          /\ stopper[c].pc \in {"grace", "killing"} => /\ stopper[c].proc \in Proc
                                                       /\ phase[stopper[c].proc] # "none"
=============================================================================

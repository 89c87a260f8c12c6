---------------------------- MODULE DesmumeTools ----------------------------
(***************************************************************************)
(* The desmume_start and desmume_stop tools of src/src/tools/desmume.ts    *)
(* over the process manager, with the part of the debug controller they    *)
(* share: the process generation its session is for.                       *)
(***************************************************************************)
EXTENDS OwnedProcess

CONSTANT RomChanges  \* whether the ROM may change while the emulator starts

VARIABLES
    debugger,  \* #sessionIdentity of the controller, 0 for null
    resultOf,  \* per start call, the generation its successful result names
    awaits     \* per start call, the stop it awaits after a ROM mismatch, if any

vars == <<manager, debugger, resultOf, awaits>>

Init ==
    /\ InitManager
    /\ debugger = 0
    /\ resultOf = [c \in Starter |-> 0]
    /\ awaits = [c \in Starter |-> {}]

(* desmume_start validates, reads the ARM9 range and hashes the ROM, then  *)
(* asks the manager for a process. *)
StartTool(c) ==
    /\ starter[c].pc = "idle"
    /\ Spawn(c)
    /\ UNCHANGED <<debugger, resultOf, awaits>>

ChildSpawned(c) == Spawned(c) /\ UNCHANGED <<debugger, resultOf, awaits>>
ChildFailed(c)  == SpawnError(c) /\ UNCHANGED <<debugger, resultOf, awaits>>

(* Mutant: the controller is initialized whatever runs by then. *)
InitializeUnchecked(c) ==
    LET p == starter[c].proc IN
    /\ starter[c].pc = "started"
    /\ debugger' = p
    /\ resultOf' = [resultOf EXCEPT ![c] = p]
    /\ starter' = [starter EXCEPT ![c].pc = "done"]
    /\ UNCHANGED <<active, phase, killed, stopper, awaits>>

(* The ROM is hashed again, unchanged: the controller is initialized for   *)
(* the process that was started, and reset if that is no longer the one    *)
(* that runs. *)
Initialize(c) ==
    LET p == starter[c].proc IN
    /\ starter[c].pc = "started"
    /\ IF active = p
       THEN /\ debugger' = p
            /\ resultOf' = [resultOf EXCEPT ![c] = p]
            /\ starter' = [starter EXCEPT ![c].pc = "done"]
       ELSE /\ debugger' = 0
            /\ starter' = [starter EXCEPT ![c].pc = "failed"]
            /\ UNCHANGED resultOf
    /\ UNCHANGED <<active, phase, killed, stopper, awaits>>

(* The ROM has changed, or cannot be hashed: the tool stops whichever      *)
(* process is active (its call s of stop), then resets the controller.     *)
RomMismatch(c, s) ==
    /\ RomChanges
    /\ starter[c].pc = "started"
    /\ StopCaptures(s)
    /\ awaits' = [awaits EXCEPT ![c] = {s}]
    /\ starter' = [starter EXCEPT ![c].pc = "stopping"]
    /\ UNCHANGED <<debugger, resultOf>>

RomRejected(c) ==
    /\ starter[c].pc = "stopping"
    /\ \A s \in awaits[c] : stopper[s].pc = "stopped"
    /\ starter' = [starter EXCEPT ![c].pc = "failed"]
    /\ debugger' = 0
    /\ UNCHANGED <<active, phase, killed, stopper, resultOf, awaits>>

(* desmume_stop: without a process the controller is reset at once,        *)
(* otherwise the exit listener does it.                                    *)
StopTool(s) ==
    /\ StopCaptures(s)
    /\ debugger' = IF active = 0 THEN 0 ELSE debugger
    /\ UNCHANGED <<starter, resultOf, awaits>>

(* The exit listener resets the controller. *)
ChildClosed(p) ==
    /\ Close(p)
    /\ debugger' = IF Notifies(p) THEN 0 ELSE debugger
    /\ UNCHANGED <<resultOf, awaits>>

Stopping(s) == (GraceExpires(s) \/ StopReturns(s)) /\ UNCHANGED <<debugger, resultOf, awaits>>
ChildExits(p) == Exit(p) /\ UNCHANGED <<debugger, resultOf, awaits>>

Next ==
    \/ \E c \in Starter : \/ StartTool(c) \/ ChildSpawned(c) \/ ChildFailed(c)
                          \/ Initialize(c) \/ RomRejected(c)
                          \/ \E s \in Stopper : RomMismatch(c, s)
    \/ \E s \in Stopper : StopTool(s) \/ Stopping(s)
    \/ \E p \in Proc : ChildExits(p) \/ ChildClosed(p)

Spec == Init /\ [][Next]_vars

(* A process that got SIGKILL ends, events are handled, timers fire. *)
FairSpec ==
    /\ Spec
    /\ \A s \in Stopper : WF_vars(Stopping(s))
    /\ \A c \in Starter : WF_vars(ChildSpawned(c))
    /\ \A p \in Proc : WF_vars(ChildClosed(p)) /\ WF_vars(killed[p] /\ ChildExits(p))

-----------------------------------------------------------------------------
(* The types of the tools' variables and of the manager's. *)
TypeOK ==
    /\ ManagerTypeOK
    /\ debugger \in Proc \cup {0}
    /\ resultOf \in [Starter -> Proc \cup {0}]
    /\ awaits \in [Starter -> SUBSET Stopper]

(* The debugger is never initialized for a process that is not the active  *)
(* one: neither a late start nor an exit leaves a session of a dead        *)
(* generation behind.                                                      *)
DebuggerFollowsProcess == debugger \in {0, active}

(* The inductive invariant behind the three: a debugger is only ever for a *)
(* process that was seen to run, so that a failed spawn has none.          *)
IInv ==
    /\ TypeOK /\ OneChild /\ CallsKnowTheirProcess /\ StoppedIsGone /\ DebuggerFollowsProcess
    /\ debugger # 0 => phase[debugger] \in {"alive", "exited"}

(* A desmume_start that succeeded leaves its process with a debugger for   *)
(* as long as it is the active one.                                        *)
StartedHasDebugger ==
    \A c \in Starter : resultOf[c] # 0 /\ active = resultOf[c] => debugger = active

(* A stop ends, whatever the process does with SIGTERM. *)
StopEnds == \A s \in Stopper : stopper[s].pc = "grace" ~> stopper[s].pc = "stopped"
=============================================================================

------------------------- MODULE DesmumeToolsProofs -------------------------
(***************************************************************************)
(* Proofs about DesmumeTools and the process manager it is built on: for   *)
(* any number of overlapping starts, stops and processes there is at most  *)
(* one child, a stop that returned has left none behind, and the debugger  *)
(* is for the child that runs.                                             *)
(***************************************************************************)
EXTENDS DesmumeTools, TLAPS

(* No process, no call, no debugger. *)
LEMMA InitIInv == Init => IInv
BY ProcAssumption DEF Init, InitManager, NoCall, IInv, TypeOK, ManagerTypeOK, OneChild,
   CallsKnowTheirProcess, StoppedIsGone, DebuggerFollowsProcess, Proc

(* A start is refused, or spawns a process while none is active. *)
LEMMA StartToolStep == ASSUME IInv, NEW c \in Starter, StartTool(c) PROVE IInv'
<1> USE DEF IInv, StartTool, Spawn
<1>1. CASE active # 0
  <2>1. starter' = [starter EXCEPT ![c].pc = "failed"] /\ UNCHANGED <<active, phase, killed, stopper>>
    BY <1>1
  <2>2. TypeOK'
    BY <2>1 DEF TypeOK, ManagerTypeOK
  <2>3. OneChild' /\ DebuggerFollowsProcess' /\ StoppedIsGone'
    BY <2>1 DEF OneChild, DebuggerFollowsProcess, StoppedIsGone
  <2>4. CallsKnowTheirProcess'
    BY <2>1 DEF CallsKnowTheirProcess, TypeOK, ManagerTypeOK
  <2> QED
    BY <2>1, <2>2, <2>3, <2>4
<1>2. ASSUME active = 0,
             NEW p \in Proc,
             phase[p] = "none",
             phase' = [phase EXCEPT ![p] = "spawning"],
             active' = p,
             starter' = [starter EXCEPT ![c] = [pc |-> "spawning", proc |-> p]],
             UNCHANGED <<killed, stopper>>
      PROVE  IInv'
  <2>1. debugger = 0 /\ p # 0
    BY <1>2 DEF DebuggerFollowsProcess, Proc
  <2>2. TypeOK'
    BY <1>2, <2>1 DEF TypeOK, ManagerTypeOK
  <2>3. OneChild' /\ DebuggerFollowsProcess'
    BY <1>2, <2>1 DEF OneChild, DebuggerFollowsProcess, TypeOK, ManagerTypeOK, Proc
  <2>4. CallsKnowTheirProcess' /\ StoppedIsGone'
    BY <1>2 DEF CallsKnowTheirProcess, StoppedIsGone, TypeOK, ManagerTypeOK
  <2> QED
    BY <1>2, <2>1, <2>2, <2>3, <2>4
<1> QED
  BY <1>1, <1>2

(* The child runs, or it could not be spawned. *)
LEMMA SpawnedStep == ASSUME IInv, NEW c \in Starter, ChildSpawned(c) PROVE IInv'
<1> USE DEF IInv, ChildSpawned, Spawned
<1>1. starter[c].proc \in Proc /\ active = starter[c].proc
  BY DEF CallsKnowTheirProcess, OneChild
<1>2. TypeOK'
  BY <1>1 DEF TypeOK, ManagerTypeOK
<1>3. OneChild' /\ DebuggerFollowsProcess' /\ StoppedIsGone'
  BY <1>1 DEF OneChild, DebuggerFollowsProcess, StoppedIsGone, TypeOK, ManagerTypeOK
<1>4. CallsKnowTheirProcess'
  BY <1>1 DEF CallsKnowTheirProcess, TypeOK, ManagerTypeOK
<1> QED
  BY <1>1, <1>2, <1>3, <1>4 DEF TypeOK, ManagerTypeOK

LEMMA SpawnErrorStep == ASSUME IInv, NEW c \in Starter, ChildFailed(c) PROVE IInv'
<1> USE DEF IInv, ChildFailed, SpawnError
<1>1. starter[c].proc \in Proc /\ active = starter[c].proc /\ debugger = 0
  BY DEF CallsKnowTheirProcess, OneChild, DebuggerFollowsProcess, TypeOK, ManagerTypeOK
<1>2. TypeOK' /\ OneChild' /\ DebuggerFollowsProcess'
  BY <1>1 DEF TypeOK, ManagerTypeOK, OneChild, DebuggerFollowsProcess
<1>3. CallsKnowTheirProcess' /\ StoppedIsGone'
  BY <1>1 DEF CallsKnowTheirProcess, StoppedIsGone, TypeOK, ManagerTypeOK
<1> QED
  BY <1>1, <1>2, <1>3

(* The end of a start: initialized, superseded, or with another ROM. *)
LEMMA InitializeStep == ASSUME IInv, NEW c \in Starter, Initialize(c) PROVE IInv'
<1> USE DEF IInv, Initialize
<1>1. TypeOK'
  <2>1. /\ starter' \in [Starter -> [pc : {"idle", "spawning", "started", "stopping", "failed", "done"},
                                    proc : Proc \cup {0}]]
        /\ starter[c].proc \in Proc \cup {0}
    BY DEF TypeOK, ManagerTypeOK
  <2>2. debugger' \in Proc \cup {0} /\ resultOf' \in [Starter -> Proc \cup {0}]
    BY <2>1 DEF TypeOK
  <2> QED
    BY <2>1, <2>2 DEF TypeOK, ManagerTypeOK
<1>2. OneChild' /\ DebuggerFollowsProcess' /\ StoppedIsGone'
  BY DEF OneChild, DebuggerFollowsProcess, StoppedIsGone
<1>3. CallsKnowTheirProcess'
  BY DEF CallsKnowTheirProcess, TypeOK, ManagerTypeOK
<1>4. debugger' # 0 => phase'[debugger'] \in {"alive", "exited"}
  BY DEF TypeOK, ManagerTypeOK, CallsKnowTheirProcess
<1> QED
  BY <1>1, <1>2, <1>3, <1>4

LEMMA RomMismatchStep ==
  ASSUME IInv, NEW c \in Starter, NEW s \in Stopper, RomMismatch(c, s)
  PROVE  IInv'
<1> USE DEF IInv, RomMismatch, StopCaptures
<1>1. TypeOK' /\ OneChild' /\ DebuggerFollowsProcess'
  BY DEF TypeOK, ManagerTypeOK, OneChild, DebuggerFollowsProcess
<1>2. CallsKnowTheirProcess' /\ StoppedIsGone'
  BY DEF CallsKnowTheirProcess, StoppedIsGone, TypeOK, ManagerTypeOK
<1> QED
  BY <1>1, <1>2

LEMMA RomRejectedStep == ASSUME IInv, NEW c \in Starter, RomRejected(c) PROVE IInv'
BY DEF IInv, RomRejected, TypeOK, ManagerTypeOK, OneChild, CallsKnowTheirProcess, StoppedIsGone,
       DebuggerFollowsProcess

(* A stop captures the active child, and ends when that child is gone. *)
LEMMA StopToolStep == ASSUME IInv, NEW s \in Stopper, StopTool(s) PROVE IInv'
<1> USE DEF IInv, StopTool, StopCaptures
<1>1. TypeOK' /\ OneChild' /\ DebuggerFollowsProcess'
  BY DEF TypeOK, ManagerTypeOK, OneChild, DebuggerFollowsProcess
<1>2. CallsKnowTheirProcess' /\ StoppedIsGone'
  BY DEF CallsKnowTheirProcess, StoppedIsGone, TypeOK, ManagerTypeOK
<1> QED
  BY <1>1, <1>2

LEMMA StoppingStep == ASSUME IInv, NEW s \in Stopper, Stopping(s) PROVE IInv'
<1> USE DEF IInv, Stopping
<1>1. CASE GraceExpires(s)
  \* A captured child that is no longer active has closed: it cannot be unborn.
  <2>1. active # stopper[s].proc => phase[stopper[s].proc] = "closed"
    BY <1>1 DEF GraceExpires, CallsKnowTheirProcess, OneChild, TypeOK, ManagerTypeOK
  <2>2. TypeOK'
    <3>1. CASE active = stopper[s].proc
      <4>1. killed' \in [Proc -> BOOLEAN]
        BY <1>1, <3>1 DEF GraceExpires, TypeOK, ManagerTypeOK
      <4> QED
        BY <1>1, <3>1, <4>1 DEF GraceExpires, TypeOK, ManagerTypeOK
    <3>2. CASE active # stopper[s].proc
      BY <1>1, <3>2 DEF GraceExpires, TypeOK, ManagerTypeOK
    <3> QED
      BY <3>1, <3>2
  <2>3. OneChild' /\ DebuggerFollowsProcess'
    BY <1>1 DEF GraceExpires, OneChild, DebuggerFollowsProcess
  <2>4. CallsKnowTheirProcess'
    BY <1>1 DEF GraceExpires, CallsKnowTheirProcess, TypeOK, ManagerTypeOK
  <2>5. StoppedIsGone'
    BY <1>1, <2>1 DEF GraceExpires, StoppedIsGone, TypeOK, ManagerTypeOK
  <2> QED
    BY <1>1, <2>2, <2>3, <2>4, <2>5 DEF GraceExpires
<1>2. CASE StopReturns(s)
  BY <1>2 DEF StopReturns, TypeOK, ManagerTypeOK, OneChild, CallsKnowTheirProcess,
              StoppedIsGone, DebuggerFollowsProcess
<1> QED
  BY <1>1, <1>2

(* The process ends, and its end is noticed. *)
LEMMA ExitStep == ASSUME IInv, NEW p \in Proc, ChildExits(p) PROVE IInv'
BY DEF IInv, ChildExits, Exit, TypeOK, ManagerTypeOK, OneChild, CallsKnowTheirProcess,
       StoppedIsGone, DebuggerFollowsProcess

LEMMA CloseStep == ASSUME IInv, NEW p \in Proc, ChildClosed(p) PROVE IInv'
<1> USE DEF IInv, ChildClosed, Close, Notifies
<1>1. active = p /\ p # 0
  BY DEF OneChild, Proc
<1>2. TypeOK' /\ OneChild' /\ DebuggerFollowsProcess'
  BY <1>1 DEF TypeOK, ManagerTypeOK, OneChild, DebuggerFollowsProcess
<1>3. CallsKnowTheirProcess' /\ StoppedIsGone'
  BY <1>1 DEF CallsKnowTheirProcess, StoppedIsGone, TypeOK, ManagerTypeOK
<1> QED
  BY <1>1, <1>2, <1>3

LEMMA StutterStep == ASSUME IInv, UNCHANGED vars PROVE IInv'
BY DEF IInv, vars, manager, TypeOK, ManagerTypeOK, OneChild, CallsKnowTheirProcess,
       StoppedIsGone, DebuggerFollowsProcess

(* However starts and stops overlap, every reachable state satisfies the   *)
(* inductive invariant (owned-process.ts, tools/desmume.ts).               *)
THEOREM Invariance == Spec => []IInv
<1>1. IInv /\ [Next]_vars => IInv'
  BY StartToolStep, SpawnedStep, SpawnErrorStep, InitializeStep, RomMismatchStep, RomRejectedStep,
     StopToolStep, StoppingStep, ExitStep, CloseStep, StutterStep DEF Next
<1> QED
  BY InitIInv, <1>1, PTL DEF Spec

(* Types, of the manager and of the tools. *)
THEOREM TypeCorrect == Spec => []TypeOK
BY Invariance, PTL DEF IInv

(* Never two children at once, dying and unborn ones included: start       *)
(* refuses while any child is active, and only 'close' or 'error' of the   *)
(* active one makes room (owned-process.ts start, #track).                 *)
THEOREM OneChildAlways == Spec => []OneChild
BY Invariance, PTL DEF IInv

(* A stop() that has returned leaves the child it signalled closed, also   *)
(* when the grace period ended while the child was replaced.               *)
THEOREM StopLeavesNothing == Spec => []StoppedIsGone
BY Invariance, PTL DEF IInv

(* The controller's session is for the active child or for none, whatever  *)
(* start is late and whatever exit is reported meanwhile.                  *)
THEOREM DebuggerFollows == Spec => []DebuggerFollowsProcess
BY Invariance, PTL DEF IInv
=============================================================================

--------------------------- MODULE DebugController ---------------------------
(***************************************************************************)
(* The debug controller of src/src/services/debug-controller.ts with its   *)
(* breakpoint registry and executable ranges, over the GDB sessions it     *)
(* creates, one per generation of the owned emulator.                      *)
(*                                                                         *)
(* GdbSession models what one session does; here a session is its FIFO of  *)
(* requests, its state and its queued stop.  A request and the microtask   *)
(* continuation that its reply triggers are one step: no other request of  *)
(* the session is answered and no event runs in between.                   *)
(***************************************************************************)
EXTENDS Integers, Sequences, FiniteSets

CONSTANTS
    Call,            \* tool calls, each made once
    Loc,             \* breakpoint locations: an address and its resolved mode
    NoLoc,           \* a stop elsewhere
    MainLoc,         \* the locations of the main ARM9 range
    Ops,             \* the operations the calls of this instance may be
    MaxGen,          \* bound on the emulator generations
    MaxBreakpoints,  \* 32 in the code
    MaxStops,        \* bound on the stops of the target
    RepliesLost,     \* whether the reply to a command the stub obeyed may be late
    OrphansDrain,    \* whether calls left on a reset session have ended before
                     \* the next emulator listens on the port
    Clients          \* whether the client of an instance may await a call before it
                     \* makes the next: a subset of BOOLEAN

ASSUME LocAssumption   == NoLoc \notin Loc /\ MainLoc \subseteq Loc
ASSUME BoundAssumption == MaxGen \in Nat /\ MaxBreakpoints \in Nat /\ MaxStops \in Nat
ASSUME FlagAssumption  == /\ RepliesLost \in BOOLEAN /\ OrphansDrain \in BOOLEAN
                         /\ Clients \subseteq BOOLEAN

Gen     == 1..MaxGen
ExecOps == {"continue", "wait", "pause"}

VARIABLES
    gen,        \* #session and #sessionIdentity: the current generation, 0 for none
    registry,   \* #breakpoints: the set of its records
    nextId,     \* #nextId of the registry
    ranges,     \* locations inside #ranges
    lastStop,   \* #lastStop: the number of the stop it describes, 0 for null
    queue,      \* per session, the calls in its promise chain, the first one served
    sstate,     \* per session, its execution state
    stopQueued, \* per session, whether it holds a queued stop
    call,       \* per call: what it does and where it is
    awaiting,   \* whether the client awaits a call before it makes the next
    gens,       \* generations started so far
    emu,        \* the generation listening on the GDB port, 0 for none
    installed,  \* breakpoints the stub of emu holds
    target,     \* the ARM9: the session that resumed it, 0 when halted
    at,         \* where it last stopped
    stops,      \* stops of the target so far
    stopsAt     \* stops at each location since the last generation

ctrl     == <<gen, registry, nextId, ranges, lastStop>>
sessions == <<queue, sstate, stopQueued>>
emulator == <<gens, emu, installed, target, at, stops, stopsAt>>
vars     == <<ctrl, sessions, call, awaiting, emulator>>

Idle == [op |-> "none", cmd |-> "none", pc |-> "idle", sess |-> 0, id |-> 0,
         loc |-> NoLoc, shown |-> 0, shownAt |-> 0]

CallRecord == [op : {"none", "add", "remove", "capture"} \cup ExecOps,
               cmd : {"none", "Z0", "z0", "?", "g"} \cup ExecOps,
               pc : {"idle", "queued", "waiting", "done"},
               sess : Gen \cup {0}, id : Nat, loc : Loc \cup {NoLoc},
               shown : 0..MaxStops, shownAt : 0..MaxStops]

Init ==
    /\ gen = 0 /\ registry = {} /\ nextId = 1 /\ ranges = {} /\ lastStop = 0
    /\ queue = [g \in Gen |-> <<>>]
    /\ sstate = [g \in Gen |-> "unavailable"]
    /\ stopQueued = [g \in Gen |-> FALSE]
    /\ call = [c \in Call |-> Idle]
    /\ awaiting \in Clients
    /\ gens = 0 /\ emu = 0 /\ installed = {} /\ target = 0 /\ at = NoLoc
    /\ stops = 0 /\ stopsAt = [l \in Loc |-> 0]

-----------------------------------------------------------------------------
(* The registry *)

Known(id)    == \E b \in registry : b.id = id
Record(id)   == CHOOSE b \in registry : b.id = id
Without(id)  == {b \in registry : b.id # id}
ActiveAt(l)  == {b \in registry : b.enabled /\ b.loc = l}

(* Mutant: a record is enabled before the stub has acknowledged it. *)
NewEnabledRecord(l)  == [id |-> nextId, loc |-> l, enabled |-> TRUE, hits |-> 0]

(* add: refuses a full registry and a duplicate; the record is not enabled *)
(* until the stub has acknowledged it. *)
CanAdd(l) ==
    /\ Cardinality(registry) < MaxBreakpoints
    /\ \A b \in registry : b.loc # l

NewRecord(l) == [id |-> nextId, loc |-> l, enabled |-> FALSE, hits |-> 0]

MarkInstalled(id) == registry' = Without(id) \cup {[Record(id) EXCEPT !.enabled = TRUE]}

RecordHit(l) ==
    registry' = IF ActiveAt(l) = {} THEN registry
                ELSE LET b == CHOOSE x \in ActiveAt(l) : TRUE
                     IN  Without(b.id) \cup {[b EXCEPT !.hits = @ + 1]}

-----------------------------------------------------------------------------
(* Requests to a session *)

NewCall(op, cmd, id, loc, shown) ==
    [op |-> op, cmd |-> cmd, pc |-> "queued", sess |-> gen, id |-> id, loc |-> loc,
     shown |-> shown, shownAt |-> 0]

Enqueue(c, g, request) ==
    /\ call' = [call EXCEPT ![c] = request]
    /\ queue' = [queue EXCEPT ![g] = Append(@, c)]

End(c, g) ==
    /\ call' = [call EXCEPT ![c].pc = "done"]
    /\ queue' = [queue EXCEPT ![g] = Tail(@)]

AtHead(c, g) == queue[g] # <<>> /\ Head(queue[g]) = c /\ call[c].pc = "queued"

(* connect() of a request: a session that has no connection opens one to   *)
(* whatever emulator listens on the port, and is stopped then.             *)
CanConnect(g)   == sstate[g] # "unavailable" \/ emu # 0
ConnectState(g) == IF sstate[g] = "unavailable" THEN "stopped" ELSE sstate[g]

-----------------------------------------------------------------------------
(* Tool calls.  Each first requires an owned process, so that nothing is   *)
(* begun while there is none.                                              *)

Begin(c, op) ==
    /\ op \in Ops /\ call[c].pc = "idle"
    /\ gen # 0 /\ emu # 0
    /\ awaiting => \A d \in Call : call[d].pc \in {"idle", "done"}

(* addBreakpoint up to its request: resolve, registry.add, Z0. *)
AddBreakpoint(c, l) ==
    /\ Begin(c, "add")
    /\ l \in ranges
    /\ CanAdd(l)
    /\ registry' = registry \cup {NewRecord(l)}
    /\ nextId' = nextId + 1
    /\ Enqueue(c, gen, NewCall("add", "Z0", nextId, l, 0))
    /\ UNCHANGED <<gen, ranges, lastStop, sstate, stopQueued, emulator>>

RemoveBreakpoint(c, b) ==
    /\ Begin(c, "remove")
    /\ Enqueue(c, gen, NewCall("remove", "z0", b.id, b.loc, 0))
    /\ UNCHANGED <<ctrl, sstate, stopQueued, emulator>>

Execute(c, op) ==
    /\ Begin(c, op)
    /\ Enqueue(c, gen, NewCall(op, op, 0, NoLoc, 0))
    /\ UNCHANGED <<ctrl, sstate, stopQueued, emulator>>

(* captureCurrentStopContext: a stopped session, or an unavailable one     *)
(* that connects; the stop it reports is the one remembered, or else the   *)
(* answer to a "?" sent before the registers are read.                     *)
CaptureStopContext(c) ==
    /\ Begin(c, "capture")
    /\ ConnectState(gen) = "stopped"
    /\ sstate' = [sstate EXCEPT ![gen] = "stopped"]
    /\ Enqueue(c, gen, NewCall("capture", IF lastStop = 0 THEN "?" ELSE "g", 0, NoLoc, lastStop))
    /\ UNCHANGED <<ctrl, stopQueued, emulator>>

(* replaceAdditionalRanges: refused while a breakpoint is registered. *)
ReplaceAdditionalRanges(R) ==
    /\ "replace" \in Ops
    /\ gen # 0 /\ emu # 0
    /\ registry = {}
    /\ ranges' = MainLoc \cup R
    /\ UNCHANGED <<gen, registry, nextId, lastStop, sessions, call, emulator>>

-----------------------------------------------------------------------------
(* Replies and the continuations they trigger *)

(* Mutants: a removal the stub refused drops the record all the same; the  *)
(* rollback of an add clears the registry.                                 *)
RejectedDropping(c, g) ==
    /\ End(c, g)
    /\ registry' = Without(call[c].id)
    /\ UNCHANGED <<gen, nextId, ranges, lastStop, stopQueued>>

RejectedClearing(c, g) ==
    /\ End(c, g)
    /\ registry' = IF call[c].op = "add" THEN {} ELSE registry
    /\ UNCHANGED <<gen, nextId, ranges, lastStop, stopQueued>>

(* The request of c is refused, or its reply is lost: the call throws.  An *)
(* add first takes its record back, by its id.                             *)
Rejected(c, g) ==
    /\ End(c, g)
    /\ registry' = IF call[c].op = "add" THEN Without(call[c].id) ELSE registry
    /\ UNCHANGED <<gen, nextId, ranges, lastStop, stopQueued>>

Fail(c, g) ==
    /\ AtHead(c, g)
    /\ call[c].cmd \in {"Z0", "z0", "g", "?"} \/ ~CanConnect(g)
    /\ sstate' = IF CanConnect(g) THEN [sstate EXCEPT ![g] = ConnectState(g)] ELSE sstate
    /\ Rejected(c, g)
    /\ UNCHANGED emulator

Stopped(c, g) == AtHead(c, g) /\ CanConnect(g) /\ ConnectState(g) = "stopped"

Insert(c, g) ==
    /\ Stopped(c, g)
    /\ call[c].cmd = "Z0"
    /\ sstate' = [sstate EXCEPT ![g] = "stopped"]
    /\ installed' = installed \cup {call[c].loc}
    /\ End(c, g)
    /\ \/ IF Known(call[c].id) THEN MarkInstalled(call[c].id) ELSE UNCHANGED registry
       \/ RepliesLost /\ registry' = Without(call[c].id)
    /\ UNCHANGED <<gen, nextId, ranges, lastStop, stopQueued, gens, emu, target, at,
                   stops, stopsAt>>

Delete(c, g) ==
    /\ Stopped(c, g)
    /\ call[c].cmd = "z0"
    /\ sstate' = [sstate EXCEPT ![g] = "stopped"]
    /\ installed' = installed \ {call[c].loc}
    /\ End(c, g)
    /\ \/ registry' = Without(call[c].id)
       \/ RepliesLost /\ UNCHANGED registry
    /\ UNCHANGED <<gen, nextId, ranges, lastStop, stopQueued, gens, emu, target, at,
                   stops, stopsAt>>

(* "?": the stop is remembered and the capture goes on to the registers. *)
QueryStop(c, g) ==
    /\ Stopped(c, g)
    /\ call[c].cmd = "?"
    /\ sstate' = [sstate EXCEPT ![g] = "stopped"]
    /\ lastStop' = stops
    /\ call' = [call EXCEPT ![c] = [@ EXCEPT !.cmd = "g", !.shown = stops]]
    /\ queue' = [queue EXCEPT ![g] = Append(Tail(@), c)]
    /\ UNCHANGED <<gen, registry, nextId, ranges, stopQueued, emulator>>

(* Mutant: a capture counts a hit as well. *)
ReadRegistersCounting(c, g) ==
    /\ Stopped(c, g)
    /\ call[c].cmd = "g"
    /\ sstate' = [sstate EXCEPT ![g] = "stopped"]
    /\ call' = [call EXCEPT ![c] = [@ EXCEPT !.pc = "done", !.shownAt = stops]]
    /\ queue' = [queue EXCEPT ![g] = Tail(@)]
    /\ RecordHit(at)
    /\ UNCHANGED <<gen, nextId, ranges, lastStop, stopQueued, emulator>>

(* "g": a capture reports the stop it remembered, an execution request     *)
(* counts the hit of the breakpoint at the PC it reads.                    *)
ReadRegisters(c, g) ==
    /\ Stopped(c, g)
    /\ call[c].cmd = "g"
    /\ sstate' = [sstate EXCEPT ![g] = "stopped"]
    /\ call' = [call EXCEPT ![c] = [@ EXCEPT !.pc = "done", !.shownAt = stops]]
    /\ queue' = [queue EXCEPT ![g] = Tail(@)]
    /\ IF call[c].op \in ExecOps THEN RecordHit(at) ELSE UNCHANGED registry
    /\ UNCHANGED <<gen, nextId, ranges, lastStop, stopQueued, emulator>>

(* #enrichExecutionResult: the stop is remembered; with breakpoints        *)
(* registered, the registers are read over the current session.            *)
Enrich(c, g, n) ==
    /\ lastStop' = n
    /\ IF registry # {} /\ gen # 0
       THEN /\ call' = [call EXCEPT ![c] = [@ EXCEPT !.cmd = "g", !.pc = "queued", !.sess = gen]]
            /\ queue' = [q \in Gen |->
                          LET rest == IF q = g THEN Tail(queue[q]) ELSE queue[q]
                          IN  IF q = gen THEN Append(rest, c) ELSE rest]
       ELSE End(c, g)
    /\ UNCHANGED <<gen, registry, nextId, ranges>>

(* "c" goes out, or the request is refused because of the state. *)
Continue(c, g) ==
    /\ AtHead(c, g)
    /\ call[c].cmd = "continue"
    /\ CanConnect(g)
    /\ stopQueued' = [stopQueued EXCEPT ![g] = @ /\ ConnectState(g) # "stopped"]
    /\ IF ConnectState(g) = "stopped"
       THEN /\ sstate' = [sstate EXCEPT ![g] = "waiting"]
            /\ target' = g
            /\ call' = [call EXCEPT ![c].pc = "waiting"]
            /\ UNCHANGED queue
       ELSE End(c, g) /\ UNCHANGED <<sstate, target>>
    /\ UNCHANGED <<ctrl, gens, emu, installed, at, stops, stopsAt>>

(* waitForStop takes a queued stop; it and interruptAndWait need a running *)
(* session, and do not connect.                                            *)
AwaitStop(c, g) ==
    /\ AtHead(c, g)
    /\ call[c].cmd \in {"wait", "pause"}
    /\ \/ /\ call[c].cmd = "wait" /\ stopQueued[g]
          /\ stopQueued' = [stopQueued EXCEPT ![g] = FALSE]
          /\ sstate' = [sstate EXCEPT ![g] = "stopped"]
          /\ Enrich(c, g, stops)
       \/ /\ ~(call[c].cmd = "wait" /\ stopQueued[g])
          /\ sstate[g] = "running"
          /\ sstate' = [sstate EXCEPT ![g] = "waiting"]
          /\ call' = [call EXCEPT ![c].pc = "waiting"]
          /\ UNCHANGED <<ctrl, queue, stopQueued>>
       \/ /\ ~(call[c].cmd = "wait" /\ stopQueued[g])
          /\ sstate[g] # "running"
          /\ End(c, g)
          /\ UNCHANGED <<ctrl, sstate, stopQueued>>
    /\ UNCHANGED emulator

Waiting(c, g) == queue[g] # <<>> /\ Head(queue[g]) = c /\ call[c].pc = "waiting"

(* The target stops at a breakpoint or elsewhere.  The stop answers the    *)
(* waiting request, or is queued when the request has timed out.           *)
TargetStops(l) ==
    /\ target # 0 /\ emu # 0
    /\ stops < MaxStops
    /\ target' = 0 /\ at' = l /\ stops' = stops + 1
    /\ stopsAt' = IF l = NoLoc THEN stopsAt ELSE [stopsAt EXCEPT ![l] = @ + 1]
    /\ \/ \E c \in Call :
            /\ Waiting(c, target)
            /\ sstate' = [sstate EXCEPT ![target] = "stopped"]
            /\ Enrich(c, target, stops + 1)
            /\ UNCHANGED stopQueued
       \/ /\ sstate[target] = "running"
          /\ sstate' = [sstate EXCEPT ![target] = "stopped"]
          /\ stopQueued' = [stopQueued EXCEPT ![target] = TRUE]
          /\ UNCHANGED <<ctrl, queue, call>>
       \/ /\ sstate[target] \notin {"waiting", "running"}
          /\ UNCHANGED <<ctrl, sessions, call>>
    /\ UNCHANGED <<gens, emu, installed>>

WaitTimesOut(c, g) ==
    /\ Waiting(c, g)
    /\ sstate' = [sstate EXCEPT ![g] = "running"]
    /\ End(c, g)
    /\ UNCHANGED <<ctrl, stopQueued, emulator>>

-----------------------------------------------------------------------------
(* The life of the emulator *)

(* desmume_start: a new process and a session for it.  (No session is left *)
(* from an earlier one: its exit has reset the controller.)                *)
StartEmulator ==
    /\ emu = 0
    /\ gens < MaxGen
    /\ OrphansDrain => \A g \in Gen : queue[g] = <<>>
    /\ gens' = gens + 1
    /\ emu' = gens + 1
    /\ gen' = gens + 1
    /\ registry' = {} /\ nextId' = 1 /\ lastStop' = 0
    /\ ranges' = MainLoc
    /\ installed' = {} /\ target' = 0 /\ at' = NoLoc
    /\ stopsAt' = [l \in Loc |-> 0]
    /\ UNCHANGED <<sessions, call, stops>>

Heads == {Head(queue[g]) : g \in {x \in Gen : queue[x] # <<>>}}

(* The process exits, and its exit listener resets the controller: the     *)
(* awaited reply of a session is rejected, the calls behind it stay, and   *)
(* so may one that is still connecting.  The continuation of a rejected    *)
(* add finds the registry empty.                                           *)
EmulatorExits ==
    /\ emu # 0
    /\ emu' = 0 /\ installed' = {} /\ target' = 0
    /\ gen' = 0 /\ registry' = {} /\ nextId' = 1 /\ ranges' = {} /\ lastStop' = 0
    /\ sstate' = [g \in Gen |-> "unavailable"]
    /\ stopQueued' = [stopQueued EXCEPT ![gen] = FALSE]
    /\ \E hit \in SUBSET Heads :
        /\ \A g \in Gen : queue[g] # <<>> /\ sstate[g] # "unavailable" => Head(queue[g]) \in hit
        /\ call' = [c \in Call |-> IF c \in hit THEN [call[c] EXCEPT !.pc = "done"] ELSE call[c]]
        /\ queue' = [g \in Gen |-> IF queue[g] # <<>> /\ Head(queue[g]) \in hit
                                   THEN Tail(queue[g]) ELSE queue[g]]
    /\ UNCHANGED <<gens, at, stops, stopsAt>>

-----------------------------------------------------------------------------
Request(c) ==
    \/ \E l \in Loc : AddBreakpoint(c, l)
    \/ \E b \in registry : RemoveBreakpoint(c, b)
    \/ \E op \in ExecOps : Execute(c, op)
    \/ CaptureStopContext(c)

Answer(c, g) ==
    \/ Fail(c, g) \/ Insert(c, g) \/ Delete(c, g) \/ QueryStop(c, g) \/ ReadRegisters(c, g)
    \/ Continue(c, g) \/ AwaitStop(c, g) \/ WaitTimesOut(c, g)

Step ==
    \/ \E c \in Call : Request(c)
    \/ \E c \in Call, g \in Gen : Answer(c, g)
    \/ \E R \in SUBSET (Loc \ MainLoc) : ReplaceAdditionalRanges(R)
    \/ \E l \in installed \cup {NoLoc} : TargetStops(l)
    \/ StartEmulator
    \/ EmulatorExits

(* The client keeps to its way of calling. *)
Next == Step /\ UNCHANGED awaiting

Spec == Init /\ [][Next]_vars

-----------------------------------------------------------------------------
(* Properties *)

(* Every variable keeps its type; no two records share an id or a location. *)
RegistryOK ==
    /\ nextId \in Nat \ {0}
    /\ \A b \in registry : b \in [id : 1..(nextId - 1), loc : Loc, enabled : BOOLEAN, hits : Nat]
    /\ \A b, d \in registry : b.id = d.id \/ b.loc = d.loc => b = d

TypeOK ==
    /\ gen \in Gen \cup {0} /\ emu = gen /\ gens \in Gen \cup {0}
    /\ RegistryOK
    /\ lastStop \in 0..MaxStops /\ ranges \subseteq Loc
    /\ queue \in [Gen -> Seq(Call)]
    /\ sstate \in [Gen -> {"unavailable", "stopped", "running", "waiting"}]
    /\ stopQueued \in [Gen -> BOOLEAN]
    /\ call \in [Call -> CallRecord]
    /\ awaiting \in BOOLEAN
    /\ installed \subseteq Loc /\ target \in Gen \cup {0} /\ at \in Loc \cup {NoLoc}
    /\ stops \in 0..MaxStops /\ stopsAt \in [Loc -> Nat]

(* A breakpoint the controller reports enabled is in the emulator: no      *)
(* interleaving of adds, removals, exits and restarts leaves a stale flag. *)
EnabledIsInstalled == \A b \in registry : b.enabled => b.loc \in installed

(* No breakpoint stays in the emulator without a record to remove it by.   *)
InstalledIsRegistered == \A l \in installed : \E b \in registry : b.loc = l

(* Replacing the executable ranges never strands a breakpoint outside them, *)
(* the ones still being inserted or installed without a record included.    *)
BreakpointsInRange ==
    gen # 0 => installed \cup {b.loc : b \in registry} \subseteq ranges

(* While an add of the current generation is under way its record is its   *)
(* own: nobody enables, removes or replaces it.                            *)
AddOwnsRecord ==
    \A c \in Call :
        call[c].op = "add" /\ call[c].pc = "queued" /\ call[c].sess = gen =>
            \E b \in registry : b.id = call[c].id /\ b.loc = call[c].loc /\ ~b.enabled

(* A stop at a breakpoint is counted at most once, for that breakpoint. *)
HitsMatchStops == \A b \in registry : b.hits <= stopsAt[b.loc]

(* So it is when the client awaits each call, whatever times out or exits. *)
AwaitedHitsMatchStops == awaiting => HitsMatchStops

(* A captured stop context describes the stop whose registers it shows. *)
CaptureIsCurrent ==
    \A c \in Call : call[c].op = "capture" /\ call[c].shownAt # 0
                        => call[c].shown = call[c].shownAt

-----------------------------------------------------------------------------
(* Why they hold *)

Pending(c) == call[c].pc \in {"queued", "waiting"}

(* The chain of a session holds the calls under way on it, each once, and  *)
(* a call waits for a stop exactly while the session does, at the head.    *)
QueueInv ==
    /\ \A g \in Gen : \A i \in 1..Len(queue[g]) :
          /\ call[queue[g][i]].sess = g /\ Pending(queue[g][i])
          /\ i # 1 => call[queue[g][i]].pc = "queued"
    /\ \A g \in Gen : \A i, j \in 1..Len(queue[g]) : queue[g][i] = queue[g][j] => i = j
    /\ \A c \in Call : Pending(c) =>
          /\ call[c].sess \in Gen
          /\ \E i \in 1..Len(queue[call[c].sess]) : queue[call[c].sess][i] = c
          /\ call[c].op = "add" <=> call[c].cmd = "Z0"
          /\ call[c].pc = "waiting" => sstate[call[c].sess] = "waiting" /\ call[c].cmd \in ExecOps
    /\ \A g \in Gen : sstate[g] = "waiting" =>
          queue[g] # <<>> /\ call[queue[g][1]].pc = "waiting"

(* Only the current session is in use, and without one nothing is kept.    *)
GenInv ==
    /\ \A g \in Gen : g # gen =>
          sstate[g] = "unavailable" /\ ~stopQueued[g] /\ (gen # 0 => queue[g] = <<>>)
    /\ \A g \in Gen : stopQueued[g] => sstate[g] = "stopped"
    /\ target \in {0, gen}
    /\ gen = 0 => registry = {} /\ installed = {} /\ ranges = {}

(* The order of the chain keeps adds and removals of one location apart: a *)
(* pending add owns its record, ahead of every removal of it, and a removal*)
(* of a record that is gone is ahead of the add that took its location.    *)
Place(i) == call[queue[gen][i]]
Places   == 1..Len(queue[gen])

OrderInv ==
    gen # 0 => \A i \in Places :
        /\ Place(i).cmd \in {"Z0", "z0"} => Place(i).id \in 1..(nextId - 1) /\ Place(i).loc \in Loc
        /\ Place(i).cmd = "Z0" =>
              /\ \E b \in registry : b.id = Place(i).id /\ b.loc = Place(i).loc /\ ~b.enabled
              /\ \A j \in Places : Place(j).id = Place(i).id =>
                    (Place(j).cmd = "z0" => i < j) /\ (Place(j).cmd = "Z0" => i = j)
        /\ Place(i).cmd = "z0" => \A b \in registry :
              /\ b.id = Place(i).id => b.loc = Place(i).loc
              /\ b.loc = Place(i).loc /\ b.id # Place(i).id =>
                    \E j \in Places : i < j /\ Place(j).cmd = "Z0" /\ Place(j).id = b.id

(* The part of the invariant that needs the orphans of a reset session to  *)
(* have ended before the next emulator listens. *)
Base == TypeOK /\ QueueInv /\ GenInv /\ OrderInv

(* With no reply lost, the stub and the registry agree exactly. *)
Agreement == EnabledIsInstalled /\ \A l \in installed : \E b \in registry : b.loc = l /\ b.enabled

(* A hit still to be counted: a stop that is queued, or whose registers an *)
(* execution request is about to read.                                     *)
Counting(c) == call[c].pc = "queued" /\ call[c].cmd = "g" /\ call[c].op \in ExecOps
HitPending == (\E c \in Call : Counting(c)) \/ (\E g \in Gen : stopQueued[g])

(* With an awaiting client one call is under way, and at most one hit is   *)
(* to be counted, of a stop after which nothing has run.                   *)
HitInv ==
    /\ \A c, d \in Call : Pending(c) /\ Pending(d) => c = d
    /\ \A c \in Call : call[c].cmd = "?" => call[c].op = "capture"
    /\ \A c \in Call, g \in Gen : Counting(c) => ~stopQueued[g]
    /\ HitPending => /\ target = 0
                     /\ at \in Loc => /\ stopsAt[at] >= 1
                                      /\ \A b \in registry : b.loc = at => b.hits < stopsAt[at]
    /\ HitsMatchStops

(* The inductive invariant of an instance with the two flags of its run. *)
IInv == Base /\ Agreement /\ BreakpointsInRange /\ (awaiting => HitInv)
=============================================================================

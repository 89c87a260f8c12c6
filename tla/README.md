# RE-MCP: models, model checking and proofs

RE-MCP is a TypeScript MCP server for reverse engineering Nintendo DS ROMs.  It owns a
DeSmuME process and talks to the GDB stub of that emulator, extracts and analyses ROMs,
builds modified ROMs, drives Ghidra, and keeps the hand-off state of the AI controllers
that use it on disk.  This directory holds TLA+ models of the parts whose correctness
depends on the order of events or on limits, and of the algorithms whose results must fit
together, with the TLC runs that check them and the TLAPS proofs about them.  Paths are relative to the directory that contains `src/`; the server's sources are
under `src/src/`.

Run a model with `tlc -config <cfg> <module>`, the proofs with `tlapm <module>.tla`.

## 1. Inventory

Node executes one callback at a time; what interleaves are the `await`s of overlapping tool
calls, socket and child-process events, timers, and (for the files) several server
processes.

| Component | State it keeps | Operations | Talks to | What is hard |
|---|---|---|---|---|
| **GDB session** `services/gdb-session.ts`, `gdb-rsp.ts`, `gdb-stop.ts` | socket, execution state, receive buffer, the one awaited reply, a queued stop, a promise chain | `connect`, `reset`, `sendStoppedCommand`, `continueExecution`, `stepInstructions`, `waitForStop`, `interruptAndWait` | the emulator's stub over TCP | overlapping calls, timeouts against late replies, several packets in one event, sockets closing late, resets |
| **Debug controller** `services/debug-controller.ts`, `breakpoint-registry.ts`, `executable-ranges.ts`, `stop-context.ts`, `arm9-registers.ts` | the session and the identity of its process, breakpoint records, ranges, the last stop | add, remove and list breakpoints, continue, step, wait, pause, capture, replace ranges | a GDB session; the process manager tells it of exits | registry and stub must agree across failures, exits and restarts; results that belong to another stop |
| **Owned process** `services/owned-process.ts` | the active child, exit listeners | `start`, `stop`, `status`, `onExit` | the operating system | overlapping starts and stops, SIGTERM ignored, the child dying in between |
| **DeSmuME tools** `tools/desmume.ts` | nothing of its own | the `desmume_*` tools | process manager, controller, ROM files | several awaits between spawn and the debugger's initialization |
| **Runtime correlation** `services/nds/runtime-correlation*.ts`, `tools/nds-runtime.ts` | none | correlate a stop with a ROM, an overlay, Ghidra | controller, manager, disk | the process or the ROM changing meanwhile |
| **Controller checkpoint** `services/controller-checkpoint.ts` | one JSON file per ROM, a lock file, a temporary file | read, write | disk, other server processes | crashes between file operations, concurrent writers, failures after the rename |
| **Investigation journal** `services/re-orchestration/investigation-journal.ts`, `resume*.ts` | three JSON files per investigation | persist, read, resume | disk | three renames without a lock |
| **Re-orchestration workflows** `services/re-orchestration/*` | none | trace a function, data usage, decompile candidates | static analysis, Ghidra, journal | bounds |
| **Extraction and bundle** `services/nds/extraction.ts` | a directory per ROM | extract, promote, restore | disk | promotion by rename, concurrent promoters, crashes |
| **Mutation pipeline** `services/nds/mutation/*` | a staging directory, an output | plan, build, verify, publish | disk | inputs changing, two builds of one plan |
| **Overlay cache, BLZ** `services/nds/overlay-runtime.ts`, `blz*.ts` | decoded overlays of one analysis, a byte budget | decode on demand | disk | concurrent decodes under one budget |
| **Ghidra project and inspection** `services/nds/ghidra-*.ts` | a project directory, its manifest and latest run | bootstrap, status, inspect | a Ghidra child process, disk | crashes, overlapping runs |
| **Static analysis, pattern search, ROM map** `services/nds/*` | none | bounded traversals, parsing | disk | limits, boundaries |
| **Process runner** `services/process-runner.ts` | one child | run with timeout and output limit | the operating system | timeout, limit and exit racing |
| **Server shell** `index.ts`, `config.ts`, `security/paths.ts` | configuration | register tools | MCP client | none of it concurrent |

What makes each correct:

* *GDB session*: one request at a time; each reply goes to its own request; the state never
  says *stopped* while the target runs; no stop is lost; there is one connection; every call
  ends.
* *Debug controller*: a record is enabled only if the stub holds the breakpoint, and the
  stub holds none without a record; no breakpoint is outside the ranges; hits and captured
  contexts belong to the stop they name.
* *Owned process, tools*: one child; a stop leaves it gone, and ends; the debugger exists
  only for the process that runs.
* *Checkpoint*: a compare-and-set register; reports are true; the file is always whole.
* *Journal*: what a reader accepts was in all three files at one moment, and nothing reported is
  lost, while operations come one at a time; a resume finds every artifact, always.
* *Bundle*: a bundle that was there is there after a call, however the call ends.
* *Mutation pipeline*: what the planner accepts, the builder builds and the verifier passes;
  what passes is what was asked for and nothing else; a published build is whole and stays.
* *Ghidra project*: an inspection reads only what a bootstrap has completed for the ROM as it
  is; a bootstrap takes up whatever an earlier one has left.
* *Static analysis*: limits hold; a result that says complete is all there is, and a truncated
  one contains nothing else.
* *Budget, patterns*: limits are respected and given back, chunks hide no match.

The hazards, each at its line and with the property that would catch it, are listed in
`PROJECT.json`.

## 2. Modules

| Module | What it is |
|---|---|
| `GdbSession` | one session with its sockets, timers, promise chain, and the stub |
| `GdbSessionProofs` | its proofs: the promise chain, types, and what the session and the stub say to each other |
| `DebugController` | the controller and its registry over abstract sessions, one per emulator generation |
| `DebugControllerProofs` | its proofs |
| `OwnedProcess` | the process manager |
| `DesmumeTools` | the tools that start and stop the emulator, over `OwnedProcess`, with the controller's session identity |
| `DesmumeToolsProofs` | the proofs of both |
| `CheckpointRegister` | what the checkpoint promises: an atomic compare-and-set register |
| `ControllerCheckpoint` | the lock, temporary-file and rename protocol, implementing `CheckpointRegister` |
| `ControllerCheckpointProofs` | its proofs, the refinement included |
| `InvestigationJournal` | the journal's three files, the resume artifacts, the operations that write them and the resumes that read them |
| `InvestigationJournalProofs` | its proofs |
| `NdsRom` | the structure of an image: reading, writing, overlays at run time, addresses |
| `MutationPlan` | the mutation pipeline as functions: compile, apply, verify |
| `MutationCases` | the pipeline end to end, against what the manifest means |
| `MutationBuild` | the calls of build and verify over the files of one manifest |
| `MutationBuildProofs` | its proofs |
| `AnalysisBundle` | the extractions of one ROM's bundle |
| `GhidraProject` | bootstraps, inspections and extractions of one ROM, over `AnalysisBundle`, with the runs of Ghidra |
| `GhidraProjectProofs` | the proofs of both |
| `NdsCode` | code: who owns an address, what an instruction does and refers to, scopes and seeds; over `NdsRom` |
| `ControlFlow` | the control-flow graph of one entry |
| `ReferenceScan` | the reference search and the verdict on a function, over `ControlFlow` |
| `FunctionDiscovery` | the discovery of functions, over `ControlFlow` |
| `StaticAnalysis` | the four tools together, and the code there is, to compare |
| `StaticAnalysisProofs` | the proofs that all of them keep to their limits, and that graphs, searches and verdicts are right |
| `MC*` | instances for TLC: symmetry sets; the values of the constants are in the `.cfg` files |

Definitions whose comment begins with *Mutant* are variants of the definition that follows
them, with a plausible mistake.  No specification uses them; they show that a property
notices the mistake.

### GdbSession

Variables are the private fields (`sock` is `#socket`, `frag` the socket from which `#buffer`
holds an unfinished packet, `pending`, `queuedStop`), the promise chain as a ticket queue
(`issued`, `served`, `place`), and the local state of each call (`pc`, `on`, `left`, `got`).
A `Req` is one call of one method.  Its steps are the segments between awaits:

| Code | Action |
|---|---|
| `#runExclusive` takes its place / releases it in `finally` | `Submit` / `Settle` |
| `connect()` inside an operation, and called directly | `EnterConnecting`, `ConnectDirectly` |
| state check, `#waitForPacket`, write | `Dispatch`, `EnterWait`, `EnterInterrupt` (with `AwaitReply`) |
| continuation of the awaited reply | `Resume` = `ReturnReply`, `ReturnStop`, `StepAgain`, `RejectStop` |
| the reply timer | `ReplyTimeout` |
| `connect`, `error`+`close`, connect timer, `close` | `Connected`, `ConnectRefused`, `ConnectTimeout`, `Closed` |
| `data` | `Deliver` begins a chunk of whole packets, `HandlePacket` parses one, `DeliverFragment` leaves half a packet in the buffer |
| `reset()` | `Reset` |

Node's scheduling is part of the model.  A macrotask (timer, socket event, reset) is enabled
only when no continuation is ready (`Quiet`), and while a chunk is being parsed nothing else
runs, so a reply and the stop behind it in the same chunk are both handled before the
continuation of the reply.  Submissions interleave freely.  The stub and the TCP connection
are external: requests are answered in order; data may be delivered in any
chunks and fragments; a connection may be refused, broken or closed by the peer, with unread
packets on it; the target stops or exits at any time while it runs.  Attaching a
debugger halts the target, which is what the code relies on when it sets the state to
*stopped* on connect.  Abstracted: packet contents (a kind, and the request it answers, which
only the properties read), and `close()` and `sendRspCommand`, which the server does
not use.  The reason of a signal is abstracted too: after one, a step sequence with instructions
left may go on (`StepAgain`, a plain SIGTRAP) or end (`ReturnStop`, anything else).

### DebugController

`registry` is the set of records, `queue[g]` the promise chain of the session of generation
`g`, `call` the tool calls.  Each controller method is cut where it awaits a request:
`AddBreakpoint` registers the record and queues `Z0`; `Insert` or `Fail` is the reply with
the continuation that marks the record installed or takes it back; an execution request that
stops while breakpoints exist queues a `g` (`Enrich`), and `ReadRegisters` counts the hit.
`EmulatorExits` is the exit listener's `reset`, `StartEmulator` the initialization for a new
process: the awaits between the two are in `DesmumeTools`.  A session is reduced to what
`GdbSession` shows of it: a FIFO of requests, a state, a queued stop.  A step sequence behaves
as a continue here; exit stops and the memory reads of a stop context are left out.

Three constants name assumptions.  `RepliesLost = FALSE`: the reply of a `Z0` or `z0` the
stub has obeyed arrives.  With `TRUE` the stub and the registry may disagree, which the code
cannot notice, since the protocol has no query for breakpoints.  `OrphansDrain = TRUE`: calls
still queued on the session of a dead process have ended before the next emulator listens on
the port.  `Clients`: whether the client may await each call before the next (`awaiting`);
with both values in the set, one instance covers both clients.

### OwnedProcess and DesmumeTools

A process is its generation; `phase` follows spawn, death and `close`.  `Spawn`, `Spawned`,
`SpawnError`, `Close`, `StopCaptures`, `GraceExpires`, `StopReturns` are the segments of
`start` and `stop`.  `DesmumeTools` adds what `desmume_start` does after the spawn:
`Initialize` compares the active process with the started one, `RomMismatch` stops whichever
process is active and then resets the controller (`RomRejected`).  `Exit` by itself,
including the effect of a SIGTERM, is the operating system's choice.

### ControllerCheckpoint, CheckpointRegister

Each action is one file operation of `writeControllerCheckpoint` and
`writeCheckpointAtomic`: `AcquireLock` (mkdir, exclusive create), `CheckRevision`,
`RemoveTemp`, `CreateTemp`, `WriteTemp` (write, sync, close), `Rename`, `Verify` (the
read-back), `ReleaseLock`; `Fail` is the failure of any of them, `Crash` the death of a server
between any two.  The temporary file is named after the process id, so that two calls of one
process share it, and a new server may have the id of a dead one.  Content is the name of the
write that stored it, with its revision and whether it is complete.  A lock left by a crash
stays, as in the code.

A power failure is not modelled: files survive a crash of the server as they are.

### InvestigationJournal

A high-level `re_*` operation stores its resume artifact (`PersistArtifact`, complete with its
read-back), reads the journal (`ReadFile` once per file, in any order, as `Promise.all` may),
takes it as the basis of its entry (`CheckCurrent`), replaces the three files one after the
other (`RenameJournal`, `RenameProjection`, `RenameMetadata`) and reads them back (`Verify`).
A resume reads the same files (`AcceptJournal`) and then the artifacts (`ReadArtifacts`).
`Accepts` is the acceptance test of `readInvestigationJournal`; `Inconsistent` is every way it
can fail.  `Fail` is a failed file operation of a call or the death of the server under it.

A file is the list of entries it was made from, since the metadata binds the other two by
their hashes; hashes do not collide.  Assumed besides: no two calls of one process write one
file in the same millisecond, which is what makes the name of a temporary file private.  Left
out: the contents of entries, the limit in bytes, the caps of the projection, and the
checkpoint that a resume reads beside the journal.

No lock is taken, so the properties divide.  `ResumeFindsArtifacts` holds whatever overlaps.
`AcceptedWasCommitted`, `PersistedStays` and `AppendOnly` hold of a client that awaits each
operation before it makes the next (`awaiting`); its resumes may overlap anything.
`committed` remembers every list that all three files have held at one moment (`Whole`), which a
reader that takes them one by one never sees: that what it accepts is such a list needs the order
of the renames, the metadata last.  Two overlapping operations can read the same journal, take
the same sequence number and drop one another's entry, although both have reported success.  With
three calls at once, an accepted list need not even have been in the files: *o1* replaces journal
and projection, *o3* reads these two, *o2*, which had read the files as they were before, replaces
the journal, *o1* replaces the metadata, and *o3* reads it and accepts the journal of *o1*, which
was in all three files at no moment (`MaxAtOnce` = 3, `Clients` = {FALSE}, and the property
without its `awaiting`).  After a failure between two renames the files disagree and every later
call is refused, as the error asks for, until somebody restores them.

### NdsRom, MutationPlan, MutationCases

An image is a sequence of cells, one per ROM offset, and a cell holds what the code tells
apart: data, an executable or a region of the header, a FAT entry, a piece of the FNT, an
overlay record, a BLZ payload by what it decodes to.  `ReadRomMap` is `readNdsRomMap` with its
four parsers, `FatCells`, `FntCells`, `OverlayTableCells` and `RebuiltHeader` are the
serializers with their refusals, `ResolveRuntimeAddress` and `ResolveRomOffset` the resolver.
Hashes and the CRC are the content they are taken over, so they do not collide.  The header is
10 cells instead of 0x200 bytes; names and field widths are abstract.

`Compile` is the planner: it selects the component of each operation, checks its guards,
detects conflicts, gives new files and directories their identifiers, lays payloads and then
tables out behind the source, and rewrites the header.  `Apply` builds the image of a plan and
`Verify` makes each check of the verifier.  `MutationCases` runs them: a client writes a
manifest, the planner compiles it, the builder applies the plan, one cell may be damaged, the
verifier judges.  `Meaning` and `Asked` say what an image means (executables, files by
identifier, path and content, directories, overlays as they run) and what a manifest asks it
to become.  They mention no layout and use none of the planner's definitions, so comparing the
two is a check of the planner and not of itself.

### MutationBuild

The same pipeline as calls over files, in one server or several: the map is read
(`ReadMap`) and compared with the source again (`CompareMap`), the artifact is read, a
directory of the name is looked for (`LookForBuild`) and verified if found, else a stage is
created, the source copied and checked, the operations applied, the result verified, the
evidence written, the `beforePublish` hook called (`BeforePublish`, which may do anything to the
stage), the stage hashed again and renamed.  `RemoveStage` is the `finally`.  Source, artifact
and published directory may be edited by others between any two steps (`EditInputs`,
`TouchPublished`), any operation may fail, any server die.  An input is `TRUE` while it is what
the manifest was written for; an output is what its inputs were when it was made.

### AnalysisBundle

One action per file operation of `extractNdsAnalysisBundle`: `MakeTemporary`, `Generate`,
`CompareSource`, `LookForFinal`, `MoveAside`, `Promote`, `DiscardBackup`, and the handler of a
failed promotion, `RemoveFinal`, `RestoreBackup`, `DropTemporary`.  `FileFails` is the failure
of any of them, which for a removal may leave half a directory.  Each call has directories of
its own; in the code two calls of one process in the same millisecond share theirs.

### GhidraProject

Bootstraps, inspections and extractions of one ROM.  The bundle is `AnalysisBundle`, and beside
it lie the bridge, the results Ghidra writes, and the requests of inspections, all of which an
extraction moves away.  `markers`, `program` and the three state files persist.  The steps of
`bootstrapNdsGhidraProject` are `Consult` (the state and the project must name each other), the
extraction, the construction and placing of the bridge (`BuildBridge` to `CheckBridge`), and
for each processor `Launch`, `EndRun`, `CheckResult` and `RecordProcessor`, then `Finish`,
`WriteSuccess` and `ForgetFailure`; `ReportFailure` is the handler.  An inspection passes the gate
(`ReadTrustedState`, `MatchBridge`, `VerifySource`), writes its request, runs Ghidra, reads the
answer and removes both (`RemoveTransport`).

A run of Ghidra is a process with steps of its own: it takes the project lock or fails,
creates the markers of a new project one after the other, loads the program, runs the scripts of
`src/resources/ghidra`, which read whatever bridge is there by then, and saves.  It outlives a
server that dies and, when it is killed for its time or its output, may stop anywhere or not at
all, since the signal reaches the launcher (`KillGhidra`, `Stop`).  What Ghidra itself does is
modelled from how the scripts and `ghidra-project.ts` use it.  `Manifests` are the bridges
servers of different versions make of one ROM; the Ghidra version is constant.

### NdsCode, ControlFlow, ReferenceScan, FunctionDiscovery, StaticAnalysis

A program is a ROM map with what the decoder makes of the bytes at each place: a size, the flags
its flow is normalised from, an immediate operand, a displacement from the PC.  `Resolve` is
`resolveNdsCodeSource`, `ControlFlowTarget` the rule that a target inside the component of the
instruction belongs to it, `InstructionAt` the normalised instruction, `ReferencesTo` the
classification of its references.  The worklists keep the code's order: a FIFO of blocks, one
instruction a step, each limit where the code tests it.  `FunctionDiscovery` gives every
function and every seed a graph in turn, with its own limits clipped to what is left of those
of the call.  `StaticAnalysis` begins a call of one of the four tools and defines, once more and
without worklists or limits, the code that is reachable (`Reach`), the references in it, the
functions and the calls, which is what the answers are compared with.

## 3. Runs

| Run | Instance | What it shows |
|---|---|---|
| `gdb_exec` | 3 calls of any exclusive method, 3 sockets, corrupt packets, 1 reset; commands are answered in time, execution requests may time out | `Serialized`, `StoppedMeansHalted`, `ReplyIsOwn`, `NoLostStop` |
| `gdb_live` | 2 calls of any method, any reply late or absent, `connect` called directly | `CallsEnd` |
| `dbg_registry` | 4 calls, overlapping or one at a time, 2 generations, 2 locations, 2 stops | `EnabledIsInstalled`, `InstalledIsRegistered`, `AddOwnsRecord`; `AwaitedHitsMatchStops` of a client that awaits its calls |
| `desmume` | 3 starts, 2 stops (a ROM mismatch uses one), 3 processes | `OneChild`, `StoppedIsGone`, `DebuggerFollowsProcess`, `StopEnds` |
| `checkpoint` | 4 writes, 2 process ids, 3 revisions, 1 crash | `OneWriter`, `OutcomeIsTrue`; it implements `CheckpointRegister` |
| `journal` | 3 operations, 1 resume, at most 2 calls at once (operations awaited or overlapping), a journal of at most 2 entries, 2 failures or crashes | `ResumeFindsArtifacts`; `AcceptedWasCommitted`, `PersistedStays` of a client that awaits its operations |
| `mutation_plan` | 2 images, manifests of up to 3 of 23 and of 6 operations, 1 damaged cell (manifests of 1 operation) | `AcceptedVerifies`, `VerifiedIsAsked`, `DamageIsCaught`, `OrderIrrelevant`, `AddressesAgree` |
| `mutation_build` | 2 builds, 1 verification, 1 edit, 1 failure or crash | `SuccessIsTrue`, `WholeIsReused`, `RaceIsWon`, `NoStageLeft`, `WriteOnce` |
| `ghidra` | 2 clients, 3 calls, 2 manifests, 1 trouble: a fault, or a call that begins beside another | `IInv`, `InspectionSeesTrusted`, `BootstrapIsTrue`, `RetryRecovers`, `BundleSurvives` |
| `static_analysis` | 432 programs of main and two overlays, 102 requests, 6 sets of limits | `BudgetsHold`, `GraphIsExact`, `CompleteIsWhole`, `FoundIsFirst`, `VerdictIsRight`, `DiscoveryIsExact` |
| `bundle_lost` | 2 extractions, 1 failure | **violated**: `SuccessHasBundle` |
| `mutation_shared` | an image with two overlays on one file | **violated**: `SharedFileStaysValid` |

`AcceptedVerifies` says that an accepted plan is not refused by apply either.  `IInv` of
`GhidraProject` includes that a program whose evidence is trusted was saved.  The runs leave out
what a stronger property of theirs or a proof already covers: the type invariants, the inductive
invariants that TLAPS checks, and smaller properties that the modules state for the reader
(`CommandOnlyWhenHalted`, `OneConnection`, `WaitingHasWaiter` of the session,
`BreakpointsInRange` of the controller, `OverwritesWhatItRead` and `FileIsWhole` of the
checkpoint, `AppendOnly` of the journal).  Each can be added to its `.cfg` by name.

Bounds.  In the session, a call that serves, one that waits and one that is submitted late
are three; each opens at most one socket; a chunk of two packets is a reply and the stop
behind it; two instructions are a step sequence with one in the middle.  In the controller,
two locations and two records distinguish *this* breakpoint from another, and fill a registry
of two; a second generation is enough for everything an earlier one can leave behind.  For
the processes, a start can overlap a child that is dying, one that is being killed and one
that has replaced it.  For the checkpoint, two writers of one process and two of another
collide on the temporary file as well as on the lock, and the third revision meets
`MAX_SAFE_INTEGER`.  For the journal, two calls at once are a writer with a reader or with a
second writer, the third operation meets the limit of entries or the files two others have
torn, and two failures tear them twice.  What the proofs cover needs no bounds.

For the mutation plan, the images have a compressed and a plain overlay at one address, one of
the other processor, padding behind a payload, files that back overlays and files that do not,
nested directories, and in the second no FNT at all; the operations are of every type, with
guards that fail, and three of them are the least with which two that are accepted meet a third.
Capacity, alignment and growth are small enough that a rebuild passes and fails each of them.
For the build, two builders race each other and a third call reads what they publish.

For Ghidra, `MaxTroubles` counts faults and overlapping begins together, since one is enough to
leave the project at any of its stages; the third call is then the one that finds it so, or a
second bootstrap before an inspection.  The ROM is put back only between calls.  A fault or an
overlap while an import runs may leave a program no state names: `orphaned` remembers it, and
`RetryRecovers` leaves it out (section 4).

For the static analyses, main calls into an overlay and back, branches over words, ends without a
successor, and loads a literal; overlay 2 is read as ARM or as Thumb, also from the middle of an
instruction; overlay 10 is compressed, and lies behind overlay 2, over its last word, or over
main's; components are ordered as text, 10 before 2.  Every limit is met by one set of limits, and by the wide ones none.  Two things are kept
out, because a property fails there (section 4): a byte limit that leaves two bytes before a
four-byte Thumb instruction, and a call in main under an overlay of the address asked about.

Deadlock is checked in `static_analysis`, where a call that was not answered must be able to go
on.  Elsewhere the calls are finitely many, and the system stops when they are done.

Fairness.  `CallsEnd` assumes that Node runs ready continuations and finishes a chunk, that a
due timer fires and that a destroyed socket emits `close`; nothing is assumed of the stub,
which may stay silent for ever.  `StopEnds` assumes that events are delivered, that the grace
timer fires and that a process that got SIGKILL ends; SIGTERM may be ignored.

## 4. Where the code does something else

Two runs expect a violation; `PROJECT.json` has the code line and the sentence it contradicts.

1. `bundle_lost`.  The handler of a failed promotion removes whatever has the final name, and
   then restores its backup.  The failure may be that of the removal of the backup, after the
   promotion: then the new bundle goes, and half of the old one takes its place.  Or the final
   directory is another call's, and there is no backup.
2. `mutation_shared`.  A decoded overlay is replaced whose FAT file also backs a second overlay.
   The file moves for both; the overlay table gets the new compressed size of the one that was
   named.  The verifier passes the image, and the second overlay cannot be decoded any more.

The following were met on the way.  Each has a definition or a constant that shows it, and no
run of its own.

* *A late answer to `?`.*  A command that times out leaves its reply on the wire, and the next
  packet resolves whichever request waits; a `continue` can take it for its stop.  With
  `"query"` in `TimeoutKinds` of `MCGdbSession_exec.cfg`, `StoppedMeansHalted` fails
  (`gdb-session.ts` 397).
* *Two connections.*  `captureCurrentStopContext` calls `connect()` beside the chain, where it
  only looks at `#socket`.  With `"connect"` in `Kinds`, `OneConnection` fails
  (`debug-controller.ts` 300).
* *Hits of overlapping calls.*  The registers of a stop are read by a command queued behind others,
  so that a `continue` issued meanwhile goes first: `HitsMatchStops` of `DebugController`
  (`debug-controller.ts` 378).
* *The stop that is remembered.*  After a wait that timed out, a stop may be queued in the session;
  a capture then reports the older one with the registers of the newer: `CaptureIsCurrent`
  (`debug-controller.ts` 307).
* *A start without its debugger.*  A start that finds the ROM changed stops whichever process is
  active and resets the shared controller: `StartedHasDebugger` of `DesmumeTools`
  (`tools/desmume.ts` 212).
* *The checkpoint under a re-extraction.*  The directory that is moved aside holds the checkpoint
  and its lock; revisions start again at 1, and a stale expected revision can match (`extraction.ts` 507).
* *An import cut short.*  When a first bootstrap ends during its import, Ghidra may have created
  the project although the state names no program; every later bootstrap is refused
  (`ghidra-project.ts` 509), until somebody removes the project.  `RetryRecovers` without
  `orphaned` shows it.
* *Evidence of an older manifest.*  `ReMcpImportEvidence` adds to the property maps of a program and
  removes nothing: `EvidenceIsTrusted` of `GhidraProject` fails after a second bootstrap with
  another manifest (`ReMcpImportEvidence.java` 75), although README.md:488 says that reruns reconcile
  metadata and evidence.
* *Three bootstraps and a gate.*  The script of an inspection compares the hash of the ROM and the
  processor of the program it reads, and not its manifest (`ReMcpInspectProgram.java` 137 to
  152).  A bootstrap of version 1 finishes the ARM9; one of version 2 that overlaps processes it
  again under its own bridge; a third, of version 1, puts the first bridge back and dies; the
  first finishes the ARM7 and reports success.  The gate then trusts version 1, and the ARM9 was
  analysed under version 2: with 3 clients, 4 calls and `MaxTroubles = 3`,
  `InspectionSeesTrusted` fails.  It holds after one trouble (the run) and for servers of one
  version (section 5).
* *A search cut inside an instruction.*  When the byte limit leaves two bytes before a four-byte
  Thumb instruction, the slice decodes to nothing, the block ends, and the search says complete
  (`xrefs.ts` 359).  A limit of 10 bytes in `MCStaticAnalysis` with such an instruction behind
  eight bytes of code makes `CompleteIsWhole` fail.
* *A caller under an overlay.*  The caller of a reference is resolved again from its address alone;
  in main under an overlay that is ambiguous, and the proof is dropped (`function-analysis.ts`
  195), so that a called function is said not to be proven.  In `functions`, the same makes the
  whole discovery fail (`FailGraph`).
* *A call two functions share* counts once in `directCallerCount`, although `calls` has two edges
  (`function-discovery.ts` 619).

## 5. Proofs

TLAPS checks these for every value of the constants that satisfies the named assumptions.

`GdbSessionProofs` proves `Serialized` and `WaitingHasWaiter`.  Neither is inductive: that two
calls are never in the section follows from the ticket queue.  `IInv` therefore adds
`ChainInv` (places are unique and below `issued`, waiting calls hold places not yet served,
the call in the section holds exactly the place being served) and `AwaitInv` (the reply slot
holds the call that awaits).  `Settle` and `AwaitReply` are shared by most actions, so lemmas
about them carry the argument: a set of calls that settles contains at most one that holds
the chain, so that `served` advances by exactly the one place given up, and `AwaitReply` never
finds the slot taken.  Assumption: `NoReq` is not a call and `NoSock` not a socket.

The rest of `GdbSessionProofs` proves `TypeOK`, and from `AnsweredInTime` `StoppedMeansHalted`,
`ReplyIsOwn` and `NoLostStop`.  `AnsweredInTime` is what the run `gdb_exec` assumes too: commands
do not time out (execution requests may), and nobody calls `connect` beside the chain.  Neither
half can be dropped (section 4: a late answer, two connections).  None of the three is inductive.
`TokenInv` says that the session's socket is the only live connection (`ConnectionInv`), and that
on it there is one token: a request on its way to the stub, a running target, or one packet on
its way back, never two; each state of the session and each awaiting request says which
(`Exchange`), a queued stop is there only when the session has stopped (`QueuedStopInv`), and a
stop that a continuation is about to return is still true (`ResumedInv`).  The interrupt byte is
no token, since the stub answers it only with the stop of a running target.  Every action either
passes the token on or leaves it.

`DesmumeToolsProofs` proves `OneChild`, `StoppedIsGone` and `DebuggerFollowsProcess`, with the
types, for any number of processes and of overlapping starts and stops.  `IInv` adds what a call
knows of the process it spawned or captured (`CallsKnowTheirProcess`) and that a debugger is only
ever for a process that was seen to run; without that, a failed spawn could leave one behind.

`DebugControllerProofs` has three invariants.  `Base` is the types, what the chains hold
(`QueueInv`: the calls under way, each once, the one that waits for a stop at the head), that only
the current session is in use (`GenInv`), and the order of the chain (`OrderInv`: a pending add
owns its record and is ahead of every removal of it, and a removal of a record that is gone is
ahead of the add that took its location).  `AddOwnsRecord` follows.  With `Agreement` it gives
`EnabledIsInstalled`, `InstalledIsRegistered` and `BreakpointsInRange`: the order of the chain is
what makes a reply meet the record its request was about.  `HitInv` gives `AwaitedHitsMatchStops`: with a client that awaits its
calls, at most one hit is still to be counted, of a stop after which nothing has run.
Hypotheses: `OrphansDrain` for all three, since a call left on a dead session that reaches the
next emulator installs a breakpoint nobody knows; `~RepliesLost` for the agreement.  They are the
constants of `dbg_registry`.

`ControllerCheckpointProofs` proves `OneWriter`, `OverwritesWhatItRead`, `OutcomeIsTrue`, the
invariant itself, and that the protocol implements `CheckpointRegister`.  `IInv` adds that
revisions only grow, so that a version is determined by its revision (`RevisionInv`); that
the temporary file of a writer's process is the one it made (`TempInv`); and where each
outcome may be set (`ProgressInv`).  Under the refinement `value <- file` the rename is
`Commit`, the read is `Look` and every other step stutters.  Assumptions: `NoWriter` is no
writer; the bounds are natural numbers.

`InvestigationJournalProofs` proves every property of the journal's run.  `IInv` adds four
parts.  Whoever the client is, every entry in a file, or read from one, has its artifact
(`ArtifactInv`), and a writer has room for its entry (`RoomInv`).  With a client that awaits its
operations, the one under way has read the files as they are, and its files are its basis with or
without its entry according to how far it is (`AwaitedInv`); so the metadata, which is replaced
last, is replaced when the other two files hold the same list, and any metadata that is in
place, or that a call has read however long ago, was once in all three (`CommitInv`).
Accepting a list demands its metadata, hence `AcceptedWasCommitted`.
Assumptions: operations and resumes are different calls, the bounds are natural numbers, the
limit is positive.

`MutationBuildProofs` proves `IInv`, `SuccessIsTrue`, `WholeIsReused`, `NoStageLeft` and
`WriteOnce` for any number of calls, edits and faults.  `Known` says at each place of a call what
it knows: past the hook its stage has all the evidence, before the rename its stage is right, and
on the way through a verification either it has seen the directory whole or the directory has a
flaw that one of the checks still ahead will find.  The second is what survives other
people's edits, which only take a directory further from being whole.  One lemma,
`BystanderKeeps`, covers the calls that a step does not belong to; `Publish` is the only step of
a call that changes the final directory.  `RaceIsWon` rests on a second invariant, `RaceInv`:
while nobody has edited a file and nothing has failed, every check a build makes passes but the
rename of a loser, so that exactly one call has answered *built* once there is a directory.
Assumptions: builders and verifiers are different calls, the bounds are natural numbers.

`GhidraProjectProofs` takes any number of clients, manifests, calls, faults and overlaps.

* `IInv`, that no state names a program the project does not hold, is inductive with its types;
  `TypeOK` alone is not, for an evidence is added under whatever manifest a copy names, and that
  a prepared copy names one had to be said (`CopiesAreThere`).
* `BundleSurvives` follows from `BundleInv`: while a call replaces the bundle, the old one is in
  its backup, and a new one that was whole has the final name.  A server that dies between the
  two renames is left out, as no handler runs.  The proof found that `had`, which remembers
  what a call has to leave, outlived such a death, and held a later call to a bundle it had never
  touched; the bounds of the run are too small to meet that.  A crash now ends it.
* `InspectionReadsSigned` is `SignedInv`: at most one Ghidra holds the project (`OneHolder`), a
  program that was once prepared under a bridge is never replaced by one that was not, and the
  state files, the calls and the answers name only such programs.  So the gate never admits an
  inspection of a program RE-MCP has not processed, whatever overlapped, failed or died.
  `InspectionIsTrusted` follows for servers of one version; this hypothesis cannot be dropped
  (section 4, three bootstraps and a gate).
* `BootstrapIsTrue` needs no hypothesis.  `AloneInv` is about a call that nobody disturbs: no
  other call is active and no Ghidra runs but its own; the bridge is its own from the moment it
  is checked; the program a run is about is prepared under that bridge, saved, and still so when
  the second run has ended; and each state file is what the call wrote.  Any other call and any
  fault ends its being alone.
* `RetryRecovers` says that such a call does not fail either, until an import is cut short and
  leaves an orphan in the project.  What could make it fail is what others left before it was
  alone, so `RetryInv` adds `Tidy`, which is about everybody: when no import is under way, the
  saved programs are the ones the state names, and there is a project exactly if it names one;
  while one is, its call knows how far it is (`ImportIsTidy`), and beside it only inspections are
  active (`Sole`), because the state names too little for a processing run.  `GoesWell` then says
  at each place of the lone bootstrap that the check ahead will pass.

Assumptions: `None` is no manifest, the bounds are natural numbers.

`StaticAnalysisProofs` proves `BudgetsHold` for any program, request and limits.  The limits on
blocks, instructions and edges are tested where they are used; the ones on bytes are not: a block
is given a window of bytes once and reads on, and a discovery gives each graph what the ones before
it have left.  `WithinLimits`, which is inductive, therefore adds that the bytes read and the rest
of the window fit the limit together (`WindowInLimit`, `ScanWindowInLimit`); that the blocks of a
graph were scheduled and its bytes cover its instructions, each counted once (`GraphInLimits`); that
a graph of a discovery has limits that what is left covers (`GraphIsCovered`), so that its totals can be
added when it ends, whatever it shares with the ones before; and that a search and a
discovery are never open together.  The seeds, the references of an instruction and the calls of a graph
are processed by folds, and the bytes of a graph are summed by one: what a fold keeps is proved by
induction over the elements it has taken (`EverySubset`, `FoldExists`), derived from the well-founded order of the
natural numbers, once for each fold, and a sum of sizes is the cardinality of a set (`SumIsBytes`).
`StaticAnalysisProofs` also proves `FoundIsFirst`: a finished search returns only references of
`ScopeCode`, the code that its entries and seeds reach in its components, and of the code it decoded
none that it left out comes before one it returns, whatever limit cut it.
`ScanFinds`, inductive with `WithinLimits`, says that what is queued, and the place a block is read
at, is in the components of the search and belongs to `ScopeCode` if it decodes (`Leads`: a target is
scheduled before anybody knows that it is code); that all that was decoded belongs to it; and that
`found` is in order, has only references of decoded code, and tells of each of
them: it is there, or the list is full of earlier ones.  `ScopeCode` is computed by `ReachedFrom`,
which counts its waves; that it is closed under the successors (`ReachedIsClosed`), which a step
of the search needs, is a counting argument: a wave that finds nothing new is the last, and
every other takes a place none took before.  That nothing else is in it is `ReachedIsLeast`.

Three properties fail for the values of the constants that section 4 names, and their theorems state
the condition that excludes those.  The decoder is given only the bytes left of the limit, so that an
instruction it does not fit in ends a block as bytes that do not decode would, with no reason
given (`xrefs.ts` 359): the walk may have missed code only if fewer than four bytes of the limit
are left, because no instruction is longer.

* `GraphsAreExact` proves `GraphIsExact` for a graph that ends with four bytes of its limit to spare.
  `GraphKnown`, inductive with `WithinLimits`, has three parts: what is scheduled and decoded flows
  from the entry (`GraphFlows`; this one asks for no bytes to spare); while no reason is given and
  there are bytes to spare, every scheduled place, and every place that decoded code leads to, is
  pending, decoded or no code (`GraphCovers`); and every edge ends in what was scheduled, or has
  the unresolved exit of its own branch (`Accounts`, `GraphIsTied`).  To keep the second
  part, a block must know that its window is the rest of its component or all that is left of the
  limit (`WindowIsRest`), so that a silent stop (`SilentStop`) is one at undecodable bytes.  At the
  end nothing is pending, and `ReachIsLeast` makes what was decoded all there is.
* `SearchIsWhole` proves `CompleteIsWhole` under the same condition.  `ScanKnown` carries the
  coverage (`ScanCovers`, for the roots of the search and for what is in its components, calls
  included) and that the list has every reference of decoded code as long as it has room
  (`ListsAll`): references are counted and retained one by one, and only the count knows that
  some were left out.
* `VerdictsAreRight` proves `VerdictIsRight` where the callers in `ScopeCode` are themselves when they
  are resolved again from their addresses (`CallersAreUnique`); a caller under an overlay is not
  (`function-analysis.ts` 195).  That an entry is proven is then right whatever the limits; that it
  is not needs the complete list, hence the four bytes.  `VerdictFacts` says that from the end of the
  search to the answer nothing changes what the verdict is made from, although a graph is built
  between them.  A proof among the references is a call of the entry (`ProofIsCall`), and a call of
  the entry would be a proof (`CallIsProof`), because the target of an instruction is at its operand
  and in its mode (`TargetIsOperand`).

Assumptions of `StaticAnalysisProofs`: the types of a ROM map and of what the decoder returns
(`ProgramsAssumption`: sizes are not negative, and the code is finite); that code is at
addresses and an instruction has four bytes, or two in Thumb (`CodeAssumption`:
`normalizeInstruction` in `capstone.ts` throws on a size that is not two or four, and in ARM mode
Capstone decodes words), which `BudgetsHold` and `FoundIsFirst` do not use; and the types of a request that passed its checks
(`RequestsAssumption`: every limit is positive, as each `validateLimits` demands).  One more
describes the decoder, and no proof uses it: a direct branch has no target that is misaligned
for its mode (`AlignmentAssumption`; the tools throw on one, `requireAlignment` in
`disassembly-source.ts` 315, and the model has no such call).  None says that
addresses are consistent, that a component has code, or how the limits relate.

Alternatives whose conditions overlap are written with `IF`: a `CASE` whose conditions overlap has any of
the values that apply, and only TLC takes the first.

Only model-checked: the properties of `MutationCases`, which compare an algorithm with the tables of
an image by recursion, so that each would need an induction over data made by hand, as for the folds
and the waves above; `DiscoveryIsExact`, which compares a worklist of graphs with a closure of
closures, and would need the argument of `GraphsAreExact` once more above it, with the conditions
of the three theorems on every graph; and what the three properties say outside their
conditions, on the programs of the run.  Liveness (`CallsEnd`, `StopEnds`) needs `ENABLED` under fairness and is out of
the prover's reach.

## 6. Not modelled, and the plan

Left out for good: instruction decoding (a WebAssembly Capstone), the computation inside the
Ghidra scripts, BLZ bit by bit, the formatting of results and reports, tool registration,
configuration, path policy.

Next, in this order:

1. `OverlayRuntime`: the budget that concurrent decompressions share, with a proof that it is
   never exceeded and is given back.
2. `RuntimeCorrelation`: generation and ROM checks around a correlation.
3. `ProcessRunner`: timeout, output limit, exit and the two signals.
4. Pure algorithms against reference definitions: `ExecutableRanges.resolve`, the chunked pattern
   scan, the pages of an inspection.
5. An abstract FIFO debugger service that `GdbSession` implements and `DebugController` uses.
6. The projection of the journal: what its caps leave of the operations and artifacts, and
   whether a resume asks for a replay when they do.
7. The re-orchestration workflows, as bounded compositions of the static analyses.

Proofs to add: that a discovery lists only functions there are, with calls there are (the first half
of `DiscoveryIsExact`), by `GraphFlows` of each of its graphs and the induction over the calls of a
graph that `BudgetsHold` uses.

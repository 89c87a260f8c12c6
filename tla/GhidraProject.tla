---------------------------- MODULE GhidraProject ----------------------------
(***************************************************************************)
(* The Ghidra project of one ROM: nds_ghidra_bootstrap, the inspection     *)
(* tools and nds_extract_bundle, called by clients of one server or of     *)
(* several, over                                                           *)
(*   - the analysis bundle (AnalysisBundle), beside which lie the bridge,  *)
(*     the results Ghidra writes and the requests of inspections;          *)
(*   - the persistent project: its two markers and a program per processor;*)
(*   - the persistent state: latest-run, latest-success, latest-failure.   *)
(* A Ghidra run is a process of its own, which the project lock admits one *)
(* at a time and which outlives a server that dies.                        *)
(***************************************************************************)
EXTENDS Naturals, FiniteSets

CONSTANTS Calls,       \* clients, each of which makes one call after the other
          Manifests,   \* what the bridges of the ROM can be: a server version discovers its own
          MaxCalls,    \* calls begun
          MaxFaults,   \* file operations and Ghidra runs that fail, crashes and edits of the ROM
          MaxTroubles  \* faults, and calls that begin while another is active

ASSUME BoundAssumption == MaxCalls \in Nat /\ MaxFaults \in Nat /\ MaxTroubles \in Nat

VARIABLES final, temp, back, rom, pc, faults, had,   \* of AnalysisBundle
          markers,      \* of .gpr and .rep, those that exist
          program,      \* the program of each processor as it was saved
          run, success, \* latest-run.json and latest-success.json
          failure,      \* whether latest-failure.json exists
          job,          \* what each call knows
          ghidra,       \* the Ghidra process of each call
          begun, overlaps,
          alone,        \* history: no other call has been active and nothing has failed since it began
          orphaned      \* history: an import may have ended without being recorded
vars == <<final, temp, back, rom, pc, faults, had, markers, program, run, success, failure,
          job, ghidra, begun, overlaps, alone, orphaned>>

Processors == {"arm9", "arm7"}
None == "none"
ASSUME ManifestsAssumption == None \notin Manifests
Versions == Manifests \cup {None}

\* What lies beside a bundle: the published bridge and the results in it,
\* unfinished bridges, requests and answers of inspections.
Insides == [bridge : Versions, results : [Processors -> Versions], unfinished : SUBSET Calls,
            requests : SUBSET Calls, answers : SUBSET Calls]
Nothing == [bridge |-> None, results |-> [p \in Processors |-> None], unfinished |-> {},
            requests |-> {}, answers |-> {}]
INSTANCE AnalysisBundle

\* A program: the manifest its metadata names and those whose evidence is in its maps.
Programs == [there : BOOLEAN, manifest : Versions, evidence : SUBSET Manifests]
NoProgram == [there |-> FALSE, manifest |-> None, evidence |-> {}]
Stages == {"starting", "arm9-complete", "arm7-complete", "complete"}
RunStates == [there : BOOLEAN, stage : Stages, manifest : Versions,
              existing : SUBSET Processors, completed : SUBSET Processors]
NoRun == [there |-> FALSE, stage |-> "starting", manifest |-> None, existing |-> {}, completed |-> {}]

\* The kind of a call, its manifest (for an inspection the trusted one), whether
\* it found the project, its processor sets, the processor it is about and what
\* an inspection has read.
Jobs == [kind : {"extract", "bootstrap", "inspect"}, manifest : Versions, found : BOOLEAN,
         existing : SUBSET Processors, completed : SUBSET Processors,
         processor : Processors, seen : Programs]
NoJob == [kind |-> "extract", manifest |-> None, found |-> FALSE, existing |-> {}, completed |-> {},
          processor |-> "arm9", seen |-> NoProgram]
Modes == {"import", "process", "inspect"}
GhidraPlaces == {"off", "opening", "creating", "loading", "preparing", "evidence", "recording", "saving", "inspecting"}
Ghidras == [at : GhidraPlaces, mode : Modes, processor : Processors, copy : Programs, ok : BOOLEAN, killed : BOOLEAN]
NoGhidra == [at |-> "off", mode |-> "inspect", processor |-> "arm9", copy |-> NoProgram, ok |-> FALSE, killed |-> FALSE]

Bootstrapping == {"discovering", "rehashing", "clearing", "placing", "rechecking", "starting"}
Started == {"launching", "running", "checking", "recording", "finishing", "succeeding", "settling", "reporting"}
Trusting == {"trusting", "matching", "hashing"}
Requesting == {"requesting", "waiting", "reading", "confirming", "removing"}
Ended == {"extracted", "failed", "refused", "bootstrapped", "answered", "crashed"}
Places == {"idle", "consulting"} \cup Extracting \cup Bootstrapping \cup Started \cup Trusting \cup Requesting \cup Ended

TypeOK ==
    /\ BundleOK
    /\ pc \in [Calls -> Places]
    /\ markers \in SUBSET {"gpr", "rep"}
    /\ program \in [Processors -> Programs]
    /\ run \in RunStates /\ success \in RunStates /\ failure \in BOOLEAN
    /\ job \in [Calls -> Jobs] /\ ghidra \in [Calls -> Ghidras]
    /\ begun \in 0..MaxCalls /\ overlaps \in 0..MaxTroubles
    /\ alone \in [Calls -> BOOLEAN] /\ orphaned \in BOOLEAN

Init ==
    /\ BundleInit
    /\ markers = {} /\ program = [p \in Processors |-> NoProgram]
    /\ run = NoRun /\ success = NoRun /\ failure = FALSE
    /\ job = [c \in Calls |-> NoJob] /\ ghidra = [c \in Calls |-> NoGhidra]
    /\ begun = 0 /\ overlaps = 0
    /\ alone = [c \in Calls |-> FALSE] /\ orphaned = FALSE

Active(c) == \/ pc[c] \notin {"idle"} \cup Ended
             \/ At(c, "extracted") /\ job[c].kind = "bootstrap"
Found == markers = {"gpr", "rep"}
Prior == IF run.there THEN run ELSE success
Project == <<markers, program>>
State == <<run, success, failure>>
History == <<begun, overlaps, alone, orphaned>>
Bundle == <<final, temp, back, rom, faults, had>>
\* Steps of a call that change nothing but where it is, its job, the state or the directory.
Stay == UNCHANGED <<Project, ghidra, History>>
Pass(c, there) == Only(c, there) /\ UNCHANGED <<State, job>> /\ Stay
Learn(c, there, j) == Only(c, there) /\ job' = [job EXCEPT ![c] = j] /\ UNCHANGED State /\ Stay
Put(c, there, in) ==
    /\ final' = [final EXCEPT !.there = TRUE, !.inside = in]
    /\ had' = [d \in Calls |-> had[d] /\ final.there]
    /\ Goto(c, there) /\ UNCHANGED <<temp, back, rom, faults>>
\* Only a directory that is there is changed.
Adjust(c, there, in) ==
    /\ final' = [final EXCEPT !.inside = IF final.there THEN in ELSE @]
    /\ Move(c, there) /\ UNCHANGED <<temp, back>>
Inside == final.inside
Within(in) == final' = [final EXCEPT !.inside = in]

-----------------------------------------------------------------------------
(* Calls begin and return *)

Spare == faults + overlaps < MaxTroubles
\* A call that replaces the bundle while a bootstrap runs, or the reverse, can
\* cut an import short.
Collides(kind) ==
    /\ Prior.existing # Processors
    /\ \E d \in Calls : Active(d) /\ "bootstrap" \in {kind, job[d].kind} /\ "inspect" \notin {kind, job[d].kind}
Begin(c, kind) ==
    /\ begun < MaxCalls /\ begun' = begun + 1
    /\ rom /\ ghidra[c].at = "off"
    /\ IF \E d \in Calls : Active(d)
       THEN Spare /\ overlaps' = overlaps + 1
       ELSE UNCHANGED overlaps
    /\ alone' = [d \in Calls |-> d = c /\ \A e \in Calls \ {c} : ~Active(e) /\ ghidra[e].at = "off"]
    /\ orphaned' = (orphaned \/ Collides(kind))
    /\ UNCHANGED <<Project, State, ghidra>>

BeginExtraction(c) == BeginExtract(c) /\ Begin(c, "extract") /\ UNCHANGED job

\* One marker without the other is refused.
BeginBootstrap(c) ==
    /\ At(c, "idle") /\ Begin(c, "bootstrap")
    /\ \E m \in Manifests :
        job' = [job EXCEPT ![c] = [NoJob EXCEPT !.kind = "bootstrap", !.manifest = m, !.found = Found]]
    /\ Only(c, IF Found \/ markers = {} THEN "consulting" ELSE "refused")

BeginInspection(c) ==
    /\ At(c, "idle") /\ Begin(c, "inspect")
    /\ \E p \in Processors :
        job' = [job EXCEPT ![c] = [NoJob EXCEPT !.kind = "inspect", !.processor = p]]
    /\ Only(c, IF Found THEN "trusting" ELSE "refused")

\* The client has its answer and may call again.
Return(c) ==
    /\ pc[c] \in Ended /\ ~Active(c) /\ begun < MaxCalls
    /\ Goto(c, "idle")
    /\ job' = [job EXCEPT ![c] = NoJob]
    /\ UNCHANGED <<Bundle, Project, State, ghidra, History>>

Extract(c) == ExtractStep(c) /\ UNCHANGED <<Project, State, job, ghidra, History>>

-----------------------------------------------------------------------------
(* Bootstrap *)

\* A project and a state that do not name each other are refused.
Consult(c) ==
    /\ At(c, "consulting")
    /\ job' = [job EXCEPT ![c] = [@ EXCEPT !.existing = Prior.existing]]
    /\ IF job[c].found = (Prior.existing # {})
       THEN Enter(c)
       ELSE Only(c, "refused")
    /\ UNCHANGED State /\ Stay

\* The overlays of the bridge are those of the bundle, which is validated.
ValidateBundle(c) ==
    /\ At(c, "extracted") /\ Active(c)
    /\ Pass(c, IF final.whole THEN "discovering" ELSE "failed")

BuildBridge(c) ==
    /\ At(c, "discovering")
    /\ Put(c, "rehashing", [Inside EXCEPT !.unfinished = @ \cup {c}])
    /\ UNCHANGED <<State, job>> /\ Stay

Unbuild(c) == Adjust(c, "failed", [Inside EXCEPT !.unfinished = @ \ {c}])

RehashSource(c) ==
    /\ At(c, "rehashing")
    /\ IF rom THEN Only(c, "clearing") ELSE Unbuild(c)
    /\ UNCHANGED <<State, job>> /\ Stay

ClearBridge(c) ==
    /\ At(c, "clearing")
    /\ Adjust(c, "placing", [Inside EXCEPT !.bridge = None, !.results = [p \in Processors |-> None]])
    /\ UNCHANGED <<State, job>> /\ Stay

\* The unfinished bridge must still be there, and no other bridge.
PlaceBridge(c) ==
    /\ At(c, "placing")
    /\ IF c \in Inside.unfinished /\ Inside.bridge = None
       THEN Adjust(c, "rechecking", [Inside EXCEPT !.bridge = job[c].manifest, !.unfinished = @ \ {c}])
       ELSE Unbuild(c)
    /\ UNCHANGED <<State, job>> /\ Stay

\* The bridge just placed is validated, and the source hashed again.
CheckBridge(c) ==
    /\ At(c, "rechecking")
    /\ Pass(c, IF Inside.bridge = job[c].manifest /\ rom THEN "starting" ELSE "failed")

RunState(c, stage) == [there |-> TRUE, stage |-> stage, manifest |-> job[c].manifest,
                       existing |-> job[c].existing, completed |-> job[c].completed]
WriteRun(c, stage, there) ==
    /\ run' = RunState(c, stage)
    /\ Only(c, there) /\ UNCHANGED <<success, failure, job>> /\ Stay

\* Mutant: the run starts from what it will do, not from what exists.
StartAfresh(c) ==
    /\ At(c, "starting")
    /\ run' = [RunState(c, "starting") EXCEPT !.existing = {}]
    /\ Only(c, "launching") /\ UNCHANGED <<success, failure, job>> /\ Stay
WriteStarting(c) == At(c, "starting") /\ WriteRun(c, "starting", "launching")

\* The old result is removed and Ghidra is started, to import the program or to process it.
Launch(c) ==
    /\ At(c, "launching")
    /\ LET p == job[c].processor IN
       IF rom
       THEN /\ Adjust(c, "running", [Inside EXCEPT !.results = [@ EXCEPT ![p] = None]])
            /\ ghidra' = [ghidra EXCEPT ![c] = [NoGhidra EXCEPT
                            !.at = "opening", !.processor = p,
                            !.mode = IF p \in job[c].existing THEN "process" ELSE "import"]]
       ELSE Only(c, "reporting") /\ UNCHANGED ghidra
    /\ UNCHANGED <<State, job, Project, History>>

GhidraEnded(c, good, bad) ==
    /\ ghidra[c].at = "off"
    /\ Pass(c, IF ghidra[c].ok /\ ~ghidra[c].killed THEN good ELSE bad)
\* Mutant: the result file is believed whatever became of the run.
EndRunAnyhow(c) == At(c, "running") /\ GhidraEnded(c, "checking", "checking")
EndRun(c) == At(c, "running") /\ GhidraEnded(c, "checking", "reporting")

\* The result must be of this bridge, and the project complete.
CheckResult(c) ==
    /\ At(c, "checking")
    /\ LET p == job[c].processor IN
       IF Inside.results[p] = job[c].manifest /\ Found
       THEN Learn(c, "recording", [job[c] EXCEPT !.existing = @ \cup {p}, !.completed = @ \cup {p}])
       ELSE Pass(c, "reporting")

\* After the ARM9 comes the ARM7.
RecordProcessor(c) ==
    /\ At(c, "recording")
    /\ LET p == job[c].processor IN
       /\ run' = RunState(c, IF p = "arm9" THEN "arm9-complete" ELSE "arm7-complete")
       /\ job' = [job EXCEPT ![c] = [@ EXCEPT !.processor = "arm7"]]
       /\ Only(c, IF p = "arm9" THEN "launching" ELSE "finishing")
    /\ UNCHANGED <<success, failure>> /\ Stay

Finish(c) ==
    /\ At(c, "finishing")
    /\ IF rom THEN WriteRun(c, "complete", "succeeding") ELSE Pass(c, "reporting")

WriteSuccess(c) ==
    /\ At(c, "succeeding")
    /\ success' = RunState(c, "complete")
    /\ Only(c, "settling") /\ UNCHANGED <<run, failure, job>> /\ Stay

WriteFailure(c, is, there) ==
    /\ failure' = is
    /\ Only(c, there) /\ UNCHANGED <<run, success, job>> /\ Stay
\* Mutant: an old failure is kept.
KeepFailure(c) == At(c, "settling") /\ WriteFailure(c, failure, "bootstrapped")
ForgetFailure(c) == At(c, "settling") /\ WriteFailure(c, FALSE, "bootstrapped")
ReportFailure(c) == At(c, "reporting") /\ WriteFailure(c, TRUE, "failed")

-----------------------------------------------------------------------------
(* Inspection *)

Complete(s) == s.there /\ s.stage = "complete" /\ s.existing = Processors /\ s.completed = Processors
\* The last run must be the last success, with no failure since.
ReadTrustedState(c) ==
    /\ At(c, "trusting")
    /\ IF ~failure /\ Complete(run) /\ Complete(success) /\ run.manifest = success.manifest
       THEN Learn(c, "matching", [job[c] EXCEPT !.manifest = success.manifest])
       ELSE Pass(c, "refused")

MatchBridge(c) ==
    /\ At(c, "matching")
    /\ Pass(c, IF Inside.bridge = job[c].manifest THEN "hashing" ELSE "refused")

VerifySource(c) ==
    /\ At(c, "hashing")
    /\ Pass(c, IF rom THEN "requesting" ELSE "failed")

\* The request is written, its directory made if need be, and Ghidra started.
WriteRequest(c) ==
    /\ At(c, "requesting")
    /\ Put(c, "waiting", [Inside EXCEPT !.requests = @ \cup {c}, !.answers = @ \ {c}])
    /\ ghidra' = [ghidra EXCEPT ![c] = [NoGhidra EXCEPT !.at = "opening", !.processor = job[c].processor]]
    /\ UNCHANGED <<State, job, Project, History>>

EndInspection(c) == At(c, "waiting") /\ GhidraEnded(c, "reading", "removing")

ReadAnswer(c) ==
    /\ At(c, "reading")
    /\ IF c \in Inside.answers
       THEN Learn(c, "confirming", [job[c] EXCEPT !.seen = ghidra[c].copy])
       ELSE Pass(c, "removing")

ConfirmSource(c) ==
    /\ At(c, "confirming")
    /\ IF rom THEN Pass(c, "removing") ELSE Learn(c, "removing", [job[c] EXCEPT !.seen = NoProgram])

RemoveTransport(c) ==
    /\ At(c, "removing")
    /\ Adjust(c, IF job[c].seen.there THEN "answered" ELSE "failed",
              [Inside EXCEPT !.requests = @ \ {c}, !.answers = @ \ {c}])
    /\ UNCHANGED <<State, job>> /\ Stay

-----------------------------------------------------------------------------
(* Ghidra and the scripts it runs *)

Runs(c, here) == ghidra[c].at = here
Become(c, g) == ghidra' = [ghidra EXCEPT ![c] = g]
Onward(c, there) == Become(c, [ghidra[c] EXCEPT !.at = there])
Carry(c, there, copy) == Become(c, [ghidra[c] EXCEPT !.at = there, !.copy = copy])
Exit(c, ok) == Become(c, [ghidra[c] EXCEPT !.at = "off", !.ok = ok])
Quiet == UNCHANGED <<Bundle, pc, State, job, History>>

\* The project lock is not waited for; only an import creates a project.
OpenProject(c) ==
    /\ Runs(c, "opening")
    /\ IF \/ \E d \in Calls : ghidra[d].at \notin {"off", "opening"}
          \/ ghidra[c].mode # "import" /\ ~Found
       THEN Exit(c, FALSE)
       ELSE Onward(c, IF Found THEN "loading" ELSE "creating")
    /\ UNCHANGED Project /\ Quiet

CreateMarker(c) ==
    /\ Runs(c, "creating")
    /\ \E f \in {"gpr", "rep"} \ markers :
        /\ markers' = markers \cup {f}
        /\ Onward(c, IF Found' THEN "loading" ELSE "creating")
    /\ UNCHANGED program /\ Quiet

\* An import does not replace a program; without its program a run does nothing.
LoadProgram(c) ==
    /\ Runs(c, "loading")
    /\ LET g == ghidra[c]
           saved == program[g.processor] IN
       IF saved.there = (g.mode = "import")
       THEN Exit(c, g.mode # "import")
       ELSE Carry(c, IF g.mode = "inspect" THEN "inspecting" ELSE "preparing", [saved EXCEPT !.there = TRUE])
    /\ UNCHANGED Project /\ Quiet

\* A script that fails ends the run; the program may have been saved all the same.
ScriptFails(c) ==
    /\ Exit(c, FALSE)
    /\ \E saved \in BOOLEAN :
        program' = IF saved THEN [program EXCEPT ![ghidra[c].processor] = ghidra[c].copy] ELSE program

\* ReMcpPrepareProgram: the program belongs to the bridge that is there now.
PrepareProgram(c) ==
    /\ Runs(c, "preparing")
    /\ IF Inside.bridge # None
       THEN Carry(c, "evidence", [ghidra[c].copy EXCEPT !.manifest = Inside.bridge]) /\ UNCHANGED program
       ELSE ScriptFails(c)
    /\ UNCHANGED markers /\ Quiet

Owned(c) == Inside.bridge = ghidra[c].copy.manifest
\* ReMcpImportEvidence: adds to the property maps what the manifest proves.
ImportEvidence(c) ==
    /\ Runs(c, "evidence")
    /\ IF Owned(c)
       THEN /\ Carry(c, "recording", [ghidra[c].copy EXCEPT !.evidence = @ \cup {Inside.bridge}])
            /\ UNCHANGED program
       ELSE ScriptFails(c)
    /\ UNCHANGED markers /\ Quiet

\* ReMcpRecordAnalysis, after the analysis: writes the result.
RecordAnalysis(c) ==
    /\ Runs(c, "recording")
    /\ IF Owned(c)
       THEN /\ Within([Inside EXCEPT !.results = [@ EXCEPT ![ghidra[c].processor] = Inside.bridge]])
            /\ Onward(c, "saving") /\ UNCHANGED program
       ELSE ScriptFails(c) /\ UNCHANGED final
    /\ UNCHANGED <<temp, back, rom, faults, had, markers, pc, State, job, History>>

SaveProgram(c) ==
    /\ Runs(c, "saving")
    /\ program' = [program EXCEPT ![ghidra[c].processor] = ghidra[c].copy]
    /\ Exit(c, TRUE)
    /\ UNCHANGED markers /\ Quiet

\* ReMcpInspectProgram: answers the request if it is there.
InspectProgram(c) ==
    /\ Runs(c, "inspecting")
    /\ IF c \in Inside.requests
       THEN Within([Inside EXCEPT !.answers = @ \cup {c}]) /\ Exit(c, TRUE)
       ELSE UNCHANGED final /\ Exit(c, FALSE)
    /\ UNCHANGED <<temp, back, rom, faults, had, Project, pc, State, job, History>>

\* A run that is killed stops wherever it is, if it stops.
Stop(c) ==
    /\ ghidra[c].at # "off" /\ ghidra[c].killed
    /\ Exit(c, FALSE)
    /\ UNCHANGED Project /\ Quiet

GhidraStep(c) ==
    \/ OpenProject(c) \/ CreateMarker(c) \/ LoadProgram(c) \/ PrepareProgram(c) \/ ImportEvidence(c)
    \/ RecordAnalysis(c) \/ SaveProgram(c) \/ InspectProgram(c) \/ Stop(c)

-----------------------------------------------------------------------------
(* What goes wrong *)

Trouble == Spare /\ alone' = [c \in Calls |-> FALSE]
Importing(c) == pc[c] \in {"running", "checking", "recording"} /\ ghidra[c].mode = "import"
Fault(c) ==
    /\ Trouble
    /\ faults < MaxFaults /\ faults' = faults + 1
    /\ orphaned' = (orphaned \/ Importing(c))

\* A run exceeds its time or its output, or breaks down: it is killed, and
\* what it does from now on is not waited for as a success.
KillGhidra(c) ==
    /\ Fault(c)
    /\ pc[c] \in {"running", "waiting"} /\ ghidra[c].at # "off" /\ ~ghidra[c].killed
    /\ Become(c, [ghidra[c] EXCEPT !.killed = TRUE])
    /\ UNCHANGED <<final, temp, back, rom, had, pc, Project, State, job, begun, overlaps>>

ExtractionFails(c) ==
    /\ Trouble /\ FileFails(c)
    /\ UNCHANGED <<Project, State, job, ghidra, begun, overlaps, orphaned>>

\* A file operation of a bootstrap or of an inspection fails.
OperationFails(c) ==
    /\ Fault(c)
    /\ \/ pc[c] \in Bootstrapping /\ Goto(c, "failed")
       \/ pc[c] \in Started \ {"running", "reporting"} /\ Goto(c, "reporting")
       \/ pc[c] \in {"consulting", "reporting"} \cup Trusting /\ Goto(c, "failed")
       \/ pc[c] \in {"requesting", "reading", "confirming"} /\ Goto(c, "removing")
    /\ Within([Inside EXCEPT !.unfinished = IF pc[c] \in Bootstrapping THEN @ \ {c} ELSE @])
    /\ job' = [job EXCEPT ![c] = [@ EXCEPT !.seen = NoProgram]]
    /\ UNCHANGED <<temp, back, rom, had, Project, State, ghidra, begun, overlaps>>

\* The server dies; its Ghidra does not.
Crash(c) ==
    /\ Fault(c) /\ Active(c)
    /\ Goto(c, "crashed")
    /\ had' = [had EXCEPT ![c] = FALSE]
    /\ UNCHANGED <<final, temp, back, rom, Project, State, job, ghidra, begun, overlaps>>

ReplaceRom ==
    /\ Trouble
    /\ faults < MaxFaults /\ faults' = faults + 1
    /\ rom /\ rom' = FALSE
    /\ UNCHANGED <<final, temp, back, had, pc, Project, State, job, ghidra, begun, overlaps, orphaned>>
\* The ROM comes back only between calls.
PutRomBack ==
    /\ ~rom /\ rom' = TRUE
    /\ \A c \in Calls : ~Active(c)
    /\ UNCHANGED <<final, temp, back, faults, had, pc, Project, State, job, ghidra, History>>

-----------------------------------------------------------------------------

BootstrapStep(c) ==
    \/ Consult(c) \/ ValidateBundle(c) \/ BuildBridge(c) \/ RehashSource(c) \/ ClearBridge(c) \/ PlaceBridge(c)
    \/ CheckBridge(c) \/ WriteStarting(c) \/ Launch(c) \/ EndRun(c) \/ CheckResult(c) \/ RecordProcessor(c)
    \/ Finish(c) \/ WriteSuccess(c) \/ ForgetFailure(c) \/ ReportFailure(c)
InspectionStep(c) ==
    \/ ReadTrustedState(c) \/ MatchBridge(c) \/ VerifySource(c) \/ WriteRequest(c) \/ EndInspection(c)
    \/ ReadAnswer(c) \/ ConfirmSource(c) \/ RemoveTransport(c)

Next ==
    \/ \E c \in Calls :
        \/ BeginExtraction(c) \/ BeginBootstrap(c) \/ BeginInspection(c) \/ Return(c)
        \/ Extract(c) \/ BootstrapStep(c) \/ InspectionStep(c) \/ GhidraStep(c)
        \/ KillGhidra(c) \/ ExtractionFails(c) \/ OperationFails(c) \/ Crash(c)
    \/ ReplaceRom \/ PutRomBack
Spec == Init /\ [][Next]_vars

-----------------------------------------------------------------------------
(* Properties *)

\* An inspection that nothing disturbs reads a program of the manifest the
\* gate trusted, whatever one trouble has left before it: the markers, both
\* state files, the failure file and the bridge manifest
\* (ghidra-inspection-readiness.ts 155 to 226) are enough to trust the project.
\* After any number of troubles that takes servers of one version: three
\* bootstraps of two versions that overlap can leave a program of the version
\* the gate does not trust, since ReMcpInspectProgram compares the ROM and the
\* processor (137 to 152) and not the manifest.
InspectionSeesTrusted ==
    \A c \in Calls : At(c, "answered") /\ alone[c] => job[c].seen.manifest = job[c].manifest

\* What such an inspection reports as RE-MCP evidence was proved by the bridge it trusts.
EvidenceIsTrusted ==
    \A c \in Calls : At(c, "answered") /\ alone[c] => job[c].seen.evidence \subseteq {job[c].manifest}

\* A bootstrap that reports success, alone, has left both programs, both state
\* files and the bridge at its manifest, and no failure.
BootstrapIsTrue ==
    \A c \in Calls : At(c, "bootstrapped") /\ alone[c] =>
        /\ \A p \in Processors : program[p].manifest = job[c].manifest
        /\ Complete(run) /\ run = success /\ run.manifest = job[c].manifest
        /\ Inside.bridge = job[c].manifest /\ ~failure

\* A bootstrap alone, with nothing failing, succeeds whatever state earlier
\* failures, crashes and overlaps have left, unless one of them cut an import
\* short after Ghidra had begun to create what the state does not name yet
\* (ghidra-project.ts 509).
RetryRecovers ==
    \A c \in Calls : alone[c] /\ ~orphaned /\ job[c].kind = "bootstrap" =>
        pc[c] \notin {"failed", "refused"}

\* The state never names a program the project does not hold, so that a run
\* told to process finds one (ghidra-project.ts 570).
ExistingIsSaved ==
    \A p \in run.existing \cup success.existing : program[p].there

-----------------------------------------------------------------------------
(* Why the state is right about the programs *)

Saved == {p \in Processors : program[p].there}
\* A copy a run may save is of a program, and names a manifest once it is prepared.
CopiesAreThere ==
    \A c \in Calls :
        /\ ghidra[c].at \in {"preparing", "evidence", "recording", "saving"} => ghidra[c].copy.there
        /\ ghidra[c].at \in {"evidence", "recording", "saving"} => ghidra[c].copy.manifest # None
\* The run of a bootstrap is about its processor, and an import that ended well has saved it.
RunsAreApt ==
    \A c \in Calls : LET g == ghidra[c] IN
        /\ pc[c] = "running" =>
            /\ g.processor = job[c].processor
            /\ \/ g.mode = "import"
               \/ g.mode = "process" /\ g.processor \in job[c].existing
        /\ g.at = "off" /\ g.ok /\ g.mode = "import" => g.processor \in Saved
        /\ g.at = "inspecting" => g.mode = "inspect"
\* What a bootstrap believes to exist does.
JobsAreRight ==
    \A c \in Calls :
        /\ job[c].existing \subseteq Saved
        /\ pc[c] = "checking" => job[c].processor \in Saved
\* A project that a state or a waiting call takes for bootstrapped holds the program: a copy on
\* its way to be saved is of a program, a run of Ghidra is about the processor its call waits
\* for and processes only what was imported, and no state names a program that was never saved
\* (ghidra-project.ts 509 to 600).
IInv == TypeOK /\ CopiesAreThere /\ RunsAreApt /\ JobsAreRight /\ ExistingIsSaved
=============================================================================

-------------------------- MODULE GhidraProjectProofs --------------------------
(***************************************************************************)
(* Proofs about the Ghidra project of a ROM: that no state names a program *)
(* the project does not hold, that a call which replaces the analysis      *)
(* bundle leaves the one it found, what an inspection reads, that a        *)
(* bootstrap which is alone and reports success is true, and that one      *)
(* which is alone does succeed.                                            *)
(***************************************************************************)
EXTENDS GhidraProject, TLAPS

-----------------------------------------------------------------------------
(* The values of the model are of their types *)

LEMMA NothingIsInside == Nothing \in Insides
BY DEF Nothing, Insides, Versions, None

LEMMA NoDirectory == Absent \in Directories /\ Bare \in Directories
BY NothingIsInside DEF Absent, Bare, Directories

\* A program, a run of Ghidra and a job of nothing.
LEMMA NoneAreTyped == NoProgram \in Programs /\ NoJob \in Jobs /\ NoGhidra \in Ghidras /\ NoRun \in RunStates
<1>1. NoProgram \in Programs
  BY DEF NoProgram, Programs, Versions, None
<1>2. NoJob \in Jobs
  BY <1>1 DEF NoJob, Jobs, Versions, None, Processors
<1>3. NoGhidra \in Ghidras
  BY <1>1 DEF NoGhidra, Ghidras, GhidraPlaces, Modes, Processors
<1>4. NoRun \in RunStates
  BY DEF NoRun, RunStates, Stages, Versions, None
<1> QED BY <1>1, <1>2, <1>3, <1>4

\* What the tools do to what lies beside the bundle.
LEMMA InsideEdits ==
    ASSUME NEW in \in Insides, NEW c \in Calls, NEW v \in Versions, NEW p \in Processors
    PROVE  /\ [in EXCEPT !.unfinished = @ \cup {c}] \in Insides
           /\ [in EXCEPT !.unfinished = @ \ {c}] \in Insides
           /\ [in EXCEPT !.bridge = None, !.results = [q \in Processors |-> None]] \in Insides
           /\ [in EXCEPT !.bridge = v, !.unfinished = @ \ {c}] \in Insides
           /\ [in EXCEPT !.results = [@ EXCEPT ![p] = v]] \in Insides
           /\ [in EXCEPT !.requests = @ \cup {c}, !.answers = @ \ {c}] \in Insides
           /\ [in EXCEPT !.requests = @ \ {c}, !.answers = @ \ {c}] \in Insides
           /\ [in EXCEPT !.answers = @ \cup {c}] \in Insides
<1>1. in.unfinished \cup {c} \in SUBSET Calls /\ in.unfinished \ {c} \in SUBSET Calls
      /\ in.requests \cup {c} \in SUBSET Calls /\ in.requests \ {c} \in SUBSET Calls
      /\ in.answers \cup {c} \in SUBSET Calls /\ in.answers \ {c} \in SUBSET Calls
  BY DEF Insides
<1>2. None \in Versions /\ [q \in Processors |-> None] \in [Processors -> Versions]
      /\ in.results \in [Processors -> Versions]
  BY DEF Versions, Insides
<1>3. [in.results EXCEPT ![p] = v] \in [Processors -> Versions]
  BY <1>2
<1>4. [in EXCEPT !.unfinished = @ \cup {c}] \in Insides /\ [in EXCEPT !.unfinished = @ \ {c}] \in Insides
  BY <1>1 DEF Insides
<1>5. [in EXCEPT !.bridge = None, !.results = [q \in Processors |-> None]] \in Insides
  BY <1>2 DEF Insides
<1>6. [in EXCEPT !.bridge = v, !.unfinished = @ \ {c}] \in Insides
  BY <1>1 DEF Insides
<1>7. [in EXCEPT !.results = [@ EXCEPT ![p] = v]] \in Insides
  BY <1>3 DEF Insides
<1>8. /\ [in EXCEPT !.requests = @ \cup {c}, !.answers = @ \ {c}] \in Insides
      /\ [in EXCEPT !.requests = @ \ {c}, !.answers = @ \ {c}] \in Insides
      /\ [in EXCEPT !.answers = @ \cup {c}] \in Insides
  BY <1>1 DEF Insides
<1> QED BY <1>4, <1>5, <1>6, <1>7, <1>8

LEMMA DirectoryEdits ==
    ASSUME NEW d \in Directories
    PROVE  /\ d.inside \in Insides /\ d.there \in BOOLEAN /\ d.whole \in BOOLEAN
           /\ \A in \in Insides : /\ [d EXCEPT !.inside = in] \in Directories
                                 /\ [d EXCEPT !.there = TRUE, !.inside = in] \in Directories
           /\ \A b \in BOOLEAN : [d EXCEPT !.whole = b] \in Directories /\ Torn(d, b) \in Directories
BY DEF Directories, Torn

LEMMA JobEdits ==
    ASSUME NEW j \in Jobs, NEW m \in Versions, NEW s \in Programs, NEW E \in SUBSET Processors,
           NEW C \in SUBSET Processors, NEW p \in Processors
    PROVE  /\ [j EXCEPT !.existing = E] \in Jobs
           /\ [j EXCEPT !.existing = E, !.completed = C] \in Jobs
           /\ [j EXCEPT !.processor = p] \in Jobs
           /\ [j EXCEPT !.manifest = m] \in Jobs
           /\ [j EXCEPT !.seen = s] \in Jobs
BY DEF Jobs

LEMMA GhidraEdits ==
    ASSUME NEW g \in Ghidras, NEW there \in GhidraPlaces, NEW ok \in BOOLEAN, NEW s \in Programs
    PROVE  /\ [g EXCEPT !.at = there] \in Ghidras
           /\ [g EXCEPT !.at = "off", !.ok = ok] \in Ghidras
           /\ [g EXCEPT !.at = there, !.copy = s] \in Ghidras
           /\ [g EXCEPT !.killed = TRUE] \in Ghidras
BY DEF Ghidras, GhidraPlaces

LEMMA ProgramEdits ==
    ASSUME NEW s \in Programs, NEW m \in Versions, NEW e \in SUBSET Manifests
    PROVE  /\ [s EXCEPT !.there = TRUE] \in Programs
           /\ [s EXCEPT !.manifest = m] \in Programs
           /\ [s EXCEPT !.evidence = e] \in Programs
BY DEF Programs

LEMMA InitTyped == Init => TypeOK
<1> SUFFICES ASSUME Init PROVE TypeOK OBVIOUS
<1>1. BundleOK
  BY NoDirectory, BoundAssumption DEF Init, BundleInit, BundleOK
<1>2. pc \in [Calls -> Places]
  BY DEF Init, BundleInit, Places
<1>3. run \in RunStates /\ success \in RunStates /\ job \in [Calls -> Jobs] /\ ghidra \in [Calls -> Ghidras]
      /\ program \in [Processors -> Programs]
  BY NoneAreTyped DEF Init
<1>4. begun \in 0..MaxCalls /\ overlaps \in 0..MaxTroubles
  BY BoundAssumption DEF Init
<1>5. markers \in SUBSET {"gpr", "rep"} /\ failure \in BOOLEAN /\ orphaned \in BOOLEAN
  BY DEF Init
<1>6. alone \in [Calls -> BOOLEAN]
  BY DEF Init
<1> QED BY <1>1, <1>2, <1>3, <1>4, <1>5, <1>6 DEF TypeOK

-----------------------------------------------------------------------------
(* Every step keeps the types *)

\* What the frames of a call's steps leave of the types.
LEMMA OnlyTyped ==
    ASSUME TypeOK, NEW c \in Calls, NEW there \in Places, Only(c, there)
    PROVE  BundleOK' /\ pc' \in [Calls -> Places]
BY DEF TypeOK, BundleOK, Only, Move, Goto

LEMMA PassTyped ==
    ASSUME TypeOK, NEW c \in Calls, NEW there \in Places, Pass(c, there)
    PROVE  TypeOK'
<1>1. Only(c, there)
  BY DEF Pass
<1>2. BundleOK' /\ pc' \in [Calls -> Places]
  BY <1>1, OnlyTyped
<1> QED BY <1>2 DEF TypeOK, Pass, State, Stay, Project, History

LEMMA LearnTyped ==
    ASSUME TypeOK, NEW c \in Calls, NEW there \in Places, NEW j \in Jobs, Learn(c, there, j)
    PROVE  TypeOK'
<1>1. Only(c, there) /\ job' = [job EXCEPT ![c] = j]
  BY DEF Learn
<1>2. BundleOK' /\ pc' \in [Calls -> Places]
  BY <1>1, OnlyTyped
<1>3. job' \in [Calls -> Jobs]
  BY <1>1 DEF TypeOK
<1> QED BY <1>2, <1>3 DEF TypeOK, Learn, State, Stay, Project, History

LEMMA PutTyped ==
    ASSUME TypeOK, NEW c \in Calls, NEW there \in Places, NEW in \in Insides, Put(c, there, in)
    PROVE  BundleOK' /\ pc' \in [Calls -> Places]
<1>1. final' \in Directories /\ final.there \in BOOLEAN
  BY DirectoryEdits DEF TypeOK, BundleOK, Put
<1>2. had' \in [Calls -> BOOLEAN]
  BY <1>1 DEF TypeOK, BundleOK, Put
<1> QED BY <1>1, <1>2 DEF TypeOK, BundleOK, Put, Goto

LEMMA AdjustTyped ==
    ASSUME TypeOK, NEW c \in Calls, NEW there \in Places, NEW in \in Insides, Adjust(c, there, in)
    PROVE  BundleOK' /\ pc' \in [Calls -> Places]
<1>1. (IF final.there THEN in ELSE final.inside) \in Insides
  BY DirectoryEdits DEF TypeOK, BundleOK
<1>2. final' \in Directories
  BY <1>1, DirectoryEdits DEF TypeOK, BundleOK, Adjust
<1> QED BY <1>2 DEF TypeOK, BundleOK, Adjust, Move, Goto

LEMMA WithinTyped ==
    ASSUME TypeOK, NEW in \in Insides, Within(in)
    PROVE  final' \in Directories
BY DirectoryEdits DEF TypeOK, BundleOK, Within

LEMMA EnterTyped ==
    ASSUME TypeOK, NEW c \in Calls, Enter(c)
    PROVE  BundleOK' /\ pc' \in [Calls -> Places]
<1>1. temp' \in [Calls -> Directories] /\ back' \in [Calls -> Directories]
  BY NoDirectory DEF TypeOK, BundleOK, Enter
<1>2. pc' \in [Calls -> Places]
  BY DEF TypeOK, Enter, Goto, Places, Extracting
<1>3. had' \in [Calls -> BOOLEAN]
  BY DirectoryEdits DEF TypeOK, BundleOK, Enter
<1> QED BY <1>1, <1>2, <1>3 DEF TypeOK, BundleOK, Enter

\* A step of an extraction is one of the call alone.
LEMMA ExtractStepTyped ==
    ASSUME TypeOK, NEW c \in Calls, ExtractStep(c)
    PROVE  /\ BundleOK' /\ pc' \in [Calls -> Places]
           /\ \E there \in Extracting \cup {"failed", "extracted"} : Goto(c, there)
           /\ pc[c] \in Extracting /\ UNCHANGED <<rom, faults, had>>
<1> DEFINE Near == /\ \E there \in Extracting \cup {"failed", "extracted"} : Goto(c, there)
                   /\ pc[c] \in Extracting
                   /\ UNCHANGED <<rom, faults, had>>
           Typed == final' \in Directories /\ temp' \in [Calls -> Directories] /\ back' \in [Calls -> Directories]
<1>1. ASSUME Near PROVE pc' \in [Calls -> Places]
  BY <1>1 DEF TypeOK, Goto, Places, Ended
<1>2. ASSUME Near, Typed PROVE BundleOK'
  BY <1>2 DEF TypeOK, BundleOK
<1>3. final \in Directories /\ temp \in [Calls -> Directories] /\ back \in [Calls -> Directories] /\ rom \in BOOLEAN
  BY DEF TypeOK, BundleOK
<1>4. CASE AssertSourceIdentity(c) \/ CompareSource(c) \/ LookForFinal(c)
  <2>1. Near
    BY <1>4 DEF AssertSourceIdentity, CompareSource, LookForFinal, At, Only, Move, Extracting
  <2>2. Typed
    BY <1>4, <1>3 DEF AssertSourceIdentity, CompareSource, LookForFinal, Only
  <2> QED BY <2>1, <2>2, <1>1, <1>2
<1>5. CASE MakeTemporary(c) \/ Generate(c) \/ DropTemporary(c)
  <2>1. Near
    BY <1>5 DEF MakeTemporary, Generate, DropTemporary, At, Move, Extracting
  <2>2. [temp[c] EXCEPT !.whole = rom] \in Directories
    BY <1>3, DirectoryEdits
  <2>3. Typed
    BY <1>5, <1>3, <2>2, NoDirectory DEF MakeTemporary, Generate, DropTemporary
  <2> QED BY <2>1, <2>3, <1>1, <1>2
<1>6. CASE MoveAside(c) \/ Promote(c)
  <2>1. Near
    BY <1>6 DEF MoveAside, Promote, At, Only, Move, Extracting
  <2>2. Typed
    BY <1>6, <1>3, NoDirectory DEF MoveAside, Promote, Only
  <2> QED BY <2>1, <2>2, <1>1, <1>2
<1>7. CASE DiscardBackup(c) \/ RemoveFinal(c) \/ RestoreBackup(c)
  <2>1. Near
    BY <1>7 DEF DiscardBackup, RemoveFinal, RestoreBackup, At, Only, Move, Extracting
  <2>2. Typed
    BY <1>7, <1>3, NoDirectory DEF DiscardBackup, RemoveFinal, RestoreBackup, Only
  <2> QED BY <2>1, <2>2, <1>1, <1>2
<1> QED BY <1>4, <1>5, <1>6, <1>7 DEF ExtractStep

LEMMA FileFailsTyped ==
    ASSUME TypeOK, NEW c \in Calls, FileFails(c)
    PROVE  /\ BundleOK' /\ pc' \in [Calls -> Places]
           /\ \E there \in {"failed", "dropping", "undoing"} : Goto(c, there)
<1>1. AfterFault(c) \in {"failed", "dropping", "undoing"}
  BY DEF FileFails, AfterFault, Extracting
<1>2. pc' \in [Calls -> Places]
  BY <1>1 DEF FileFails, Goto, TypeOK, Places, Ended, Extracting
<1>3. faults' \in 0..MaxFaults
  BY BoundAssumption DEF FileFails, TypeOK, BundleOK
<1>4. PICK torn \in BOOLEAN :
        /\ back' = [back EXCEPT ![c] = Torn(@, torn /\ At(c, "discarding"))]
        /\ final' = Torn(final, torn /\ At(c, "undoing"))
        /\ had' = [had EXCEPT ![c] = @ /\ pc[c] \notin {"moving", "discarding", "undoing", "restoring"}]
  BY DEF FileFails
<1>5. (torn /\ At(c, "discarding")) \in BOOLEAN /\ (torn /\ At(c, "undoing")) \in BOOLEAN
  OBVIOUS
<1>6. back' \in [Calls -> Directories] /\ final' \in Directories
  BY <1>4, <1>5, DirectoryEdits DEF TypeOK, BundleOK
<1>7. had' \in [Calls -> BOOLEAN]
  BY <1>4 DEF TypeOK, BundleOK
<1> QED BY <1>1, <1>2, <1>3, <1>6, <1>7 DEF FileFails, TypeOK, BundleOK

LEMMA BeginTyped ==
    ASSUME TypeOK, NEW c \in Calls, NEW kind, Begin(c, kind)
    PROVE  /\ begun' \in 0..MaxCalls /\ overlaps' \in 0..MaxTroubles
           /\ alone' \in [Calls -> BOOLEAN] /\ orphaned' \in BOOLEAN
<1>1. begun' \in 0..MaxCalls
  BY BoundAssumption DEF Begin, TypeOK
<1>2. overlaps' \in 0..MaxTroubles
  BY BoundAssumption DEF Begin, Spare, TypeOK, BundleOK
<1>3. alone' \in [Calls -> BOOLEAN]
  BY DEF Begin
<1>4. orphaned' \in BOOLEAN
  BY DEF Begin, Collides, TypeOK
<1> QED BY <1>1, <1>2, <1>3, <1>4

LEMMA ComingTyped ==
    ASSUME TypeOK, NEW c \in Calls, BeginExtraction(c) \/ BeginBootstrap(c) \/ BeginInspection(c) \/ Return(c)
    PROVE  TypeOK'
<1>1. CASE BeginExtraction(c)
  <2>1. BundleOK' /\ pc' \in [Calls -> Places]
    BY <1>1, EnterTyped DEF BeginExtraction, BeginExtract
  <2> QED BY <1>1, <2>1, BeginTyped DEF BeginExtraction, Begin, Project, State, TypeOK
<1>2. CASE BeginBootstrap(c)
  <2>1. (IF Found \/ markers = {} THEN "consulting" ELSE "refused") \in Places
    BY DEF Places, Ended
  <2>2. BundleOK' /\ pc' \in [Calls -> Places]
    BY <1>2, <2>1, OnlyTyped DEF BeginBootstrap
  <2>3. PICK m \in Manifests :
            job' = [job EXCEPT ![c] = [NoJob EXCEPT !.kind = "bootstrap", !.manifest = m, !.found = Found]]
    BY <1>2 DEF BeginBootstrap
  <2>4. [NoJob EXCEPT !.kind = "bootstrap", !.manifest = m, !.found = Found] \in Jobs
    BY NoneAreTyped DEF Jobs, Versions, Found
  <2>5. job' \in [Calls -> Jobs]
    BY <2>3, <2>4 DEF TypeOK
  <2> QED BY <1>2, <2>2, <2>5, BeginTyped DEF BeginBootstrap, Begin, Project, State, TypeOK
<1>3. CASE BeginInspection(c)
  <2>1. (IF Found THEN "trusting" ELSE "refused") \in Places
    BY DEF Places, Ended, Trusting
  <2>2. BundleOK' /\ pc' \in [Calls -> Places]
    BY <1>3, <2>1, OnlyTyped DEF BeginInspection
  <2>3. PICK p \in Processors : job' = [job EXCEPT ![c] = [NoJob EXCEPT !.kind = "inspect", !.processor = p]]
    BY <1>3 DEF BeginInspection
  <2>4. [NoJob EXCEPT !.kind = "inspect", !.processor = p] \in Jobs
    BY NoneAreTyped DEF Jobs
  <2>5. job' \in [Calls -> Jobs]
    BY <2>3, <2>4 DEF TypeOK
  <2> QED BY <1>3, <2>2, <2>5, BeginTyped DEF BeginInspection, Begin, Project, State, TypeOK
<1>4. CASE Return(c)
  <2>1. pc' \in [Calls -> Places]
    BY <1>4 DEF Return, Goto, TypeOK, Places
  <2>2. job' \in [Calls -> Jobs]
    BY <1>4, NoneAreTyped DEF Return, TypeOK
  <2> QED BY <1>4, <2>1, <2>2 DEF Return, Bundle, Project, State, History, TypeOK, BundleOK
<1> QED BY <1>1, <1>2, <1>3, <1>4

LEMMA PriorIsTyped ==
    ASSUME TypeOK
    PROVE  Prior.existing \in SUBSET Processors
BY DEF TypeOK, Prior, RunStates

LEMMA JobIsTyped ==
    ASSUME TypeOK, NEW c \in Calls
    PROVE  /\ job[c] \in Jobs /\ job[c].manifest \in Versions /\ job[c].processor \in Processors
           /\ job[c].existing \in SUBSET Processors /\ job[c].completed \in SUBSET Processors
           /\ job[c].found \in BOOLEAN /\ job[c].seen \in Programs
BY DEF TypeOK, Jobs

LEMMA InsideIsTyped == TypeOK => Inside \in Insides
BY DirectoryEdits DEF TypeOK, BundleOK, Inside

LEMMA RunStateTyped ==
    ASSUME TypeOK, NEW c \in Calls, NEW stage \in Stages
    PROVE  RunState(c, stage) \in RunStates
BY JobIsTyped DEF RunState, RunStates

\* The steps of a bootstrap up to its bridge.
LEMMA BridgeTyped ==
    ASSUME TypeOK, NEW c \in Calls,
           Consult(c) \/ ValidateBundle(c) \/ BuildBridge(c) \/ RehashSource(c) \/ ClearBridge(c) \/ PlaceBridge(c)
           \/ CheckBridge(c)
    PROVE  TypeOK'
<1> DEFINE Here == BundleOK' /\ pc' \in [Calls -> Places]
<1>1. \A p \in {"discovering", "rehashing", "clearing", "placing", "rechecking", "starting", "failed", "refused"} :
        p \in Places
  BY DEF Places, Bootstrapping, Ended
<1>2. Inside \in Insides /\ job[c].manifest \in Versions
  BY InsideIsTyped, JobIsTyped
<1>3. ASSUME Here, Stay, UNCHANGED State, job' \in [Calls -> Jobs] PROVE TypeOK'
  BY <1>3 DEF TypeOK, Stay, State, Project, History
<1>4. job \in [Calls -> Jobs]
  BY DEF TypeOK
<1>5. CASE Consult(c)
  <2>1. Here
    BY <1>5, <1>1, EnterTyped, OnlyTyped DEF Consult
  <2>2. [job[c] EXCEPT !.existing = Prior.existing] \in Jobs
    BY JobIsTyped, PriorIsTyped DEF Jobs
  <2> QED BY <1>5, <1>3, <1>4, <2>1, <2>2 DEF Consult
<1>6. CASE ValidateBundle(c) \/ CheckBridge(c)
  BY <1>6, <1>1, PassTyped DEF ValidateBundle, CheckBridge
<1>7. ASSUME Unbuild(c) PROVE Here
  <2>1. [Inside EXCEPT !.unfinished = @ \ {c}] \in Insides
    BY <1>2, InsideEdits DEF Processors
  <2> QED BY <1>7, <1>1, <2>1, AdjustTyped DEF Unbuild
<1>8. CASE BuildBridge(c)
  <2>1. [Inside EXCEPT !.unfinished = @ \cup {c}] \in Insides
    BY <1>2, InsideEdits DEF Processors
  <2>2. Here
    BY <1>8, <1>1, <2>1, PutTyped DEF BuildBridge
  <2> QED BY <1>8, <1>3, <1>4, <2>2 DEF BuildBridge
<1>9. CASE RehashSource(c)
  <2>1. Here
    BY <1>9, <1>1, <1>7, OnlyTyped DEF RehashSource
  <2> QED BY <1>9, <1>3, <1>4, <2>1 DEF RehashSource
<1>10. CASE ClearBridge(c)
  <2>1. [Inside EXCEPT !.bridge = None, !.results = [p \in Processors |-> None]] \in Insides
    BY <1>2, InsideEdits DEF Processors
  <2>2. Here
    BY <1>10, <1>1, <2>1, AdjustTyped DEF ClearBridge
  <2> QED BY <1>10, <1>3, <1>4, <2>2 DEF ClearBridge
<1>11. CASE PlaceBridge(c)
  <2>1. [Inside EXCEPT !.bridge = job[c].manifest, !.unfinished = @ \ {c}] \in Insides
    BY <1>2, InsideEdits DEF Processors
  <2>2. Here
    BY <1>11, <1>1, <1>7, <2>1, AdjustTyped DEF PlaceBridge
  <2> QED BY <1>11, <1>3, <1>4, <2>2 DEF PlaceBridge
<1> QED BY <1>5, <1>6, <1>8, <1>9, <1>10, <1>11

\* The steps of a bootstrap with its runs of Ghidra.
LEMMA RunningTyped ==
    ASSUME TypeOK, NEW c \in Calls,
           WriteStarting(c) \/ Launch(c) \/ EndRun(c) \/ CheckResult(c) \/ RecordProcessor(c) \/ Finish(c)
           \/ WriteSuccess(c) \/ ForgetFailure(c) \/ ReportFailure(c)
    PROVE  TypeOK'
<1> DEFINE Here == BundleOK' /\ pc' \in [Calls -> Places]
<1>1. \A p \in Started \cup {"bootstrapped", "failed"} : p \in Places
  BY DEF Places, Ended
<1>2. \A p \in {"launching", "running", "checking", "recording", "finishing", "succeeding", "settling", "reporting"} :
        p \in Started
  BY DEF Started
<1>3. job[c] \in Jobs /\ job[c].processor \in Processors /\ job[c].existing \in SUBSET Processors
      /\ job[c].completed \in SUBSET Processors
  BY JobIsTyped
<1>4. \A stage \in {"starting", "arm9-complete", "arm7-complete", "complete"} : RunState(c, stage) \in RunStates
  BY RunStateTyped DEF Stages
<1>5. ASSUME NEW there \in Places, NEW stage \in Stages, WriteRun(c, stage, there) PROVE TypeOK'
  <2>1. Here
    BY <1>5, OnlyTyped DEF WriteRun
  <2>2. run' \in RunStates
    BY <1>5, RunStateTyped DEF WriteRun
  <2> QED BY <1>5, <2>1, <2>2 DEF WriteRun, Stay, Project, History, TypeOK
<1>6. CASE WriteStarting(c)
  BY <1>6, <1>1, <1>2, <1>5 DEF WriteStarting, Stages
<1>7. CASE Finish(c)
  BY <1>7, <1>1, <1>2, <1>5, PassTyped DEF Finish, Stages
<1>8. CASE Launch(c)
  <2>1. CASE rom
    <3> DEFINE g == [NoGhidra EXCEPT !.at = "opening", !.processor = job[c].processor,
                                     !.mode = IF job[c].processor \in job[c].existing THEN "process" ELSE "import"]
    <3>1. Inside \in Insides /\ Inside.results \in [Processors -> Versions]
      BY InsideIsTyped DEF Insides
    <3>2. [Inside EXCEPT !.results = [@ EXCEPT ![job[c].processor] = None]] \in Insides
      BY <1>3, <3>1, InsideEdits DEF Versions
    <3>3. Here
      BY <1>8, <1>1, <1>2, <2>1, <3>2, AdjustTyped DEF Launch
    <3>4. g \in Ghidras
      BY <1>3, NoneAreTyped DEF Ghidras, GhidraPlaces, Modes
    <3>5. ghidra' = [ghidra EXCEPT ![c] = g]
      BY <1>8, <2>1 DEF Launch
    <3> HIDE DEF g
    <3>6. ghidra' \in [Calls -> Ghidras]
      BY <3>4, <3>5 DEF TypeOK
    <3> QED BY <1>8, <3>3, <3>6 DEF Launch, State, Project, History, TypeOK
  <2>2. CASE ~rom
    <3>1. Here
      BY <1>8, <1>1, <1>2, <2>2, OnlyTyped DEF Launch
    <3> QED BY <1>8, <2>2, <3>1 DEF Launch, State, Project, History, TypeOK
  <2> QED BY <2>1, <2>2
<1>9. CASE EndRun(c)
  BY <1>9, <1>1, <1>2, PassTyped DEF EndRun, GhidraEnded
<1>10. CASE CheckResult(c)
  <2>1. [job[c] EXCEPT !.existing = @ \cup {job[c].processor}, !.completed = @ \cup {job[c].processor}] \in Jobs
    BY <1>3 DEF Jobs
  <2> QED BY <1>10, <1>1, <1>2, <2>1, PassTyped, LearnTyped DEF CheckResult
<1>11. CASE RecordProcessor(c)
  <2>1. Here
    BY <1>11, <1>1, <1>2, OnlyTyped DEF RecordProcessor
  <2>2. [job[c] EXCEPT !.processor = "arm7"] \in Jobs
    BY <1>3 DEF Jobs, Processors
  <2>3. job' \in [Calls -> Jobs] /\ run' \in RunStates
    BY <1>11, <1>4, <2>2 DEF RecordProcessor, TypeOK
  <2> QED BY <1>11, <2>1, <2>3 DEF RecordProcessor, Stay, Project, History, TypeOK
<1>12. CASE WriteSuccess(c)
  <2>1. Here
    BY <1>12, <1>1, <1>2, OnlyTyped DEF WriteSuccess
  <2> QED BY <1>12, <1>4, <2>1 DEF WriteSuccess, Stay, Project, History, TypeOK
<1>13. CASE ForgetFailure(c) \/ ReportFailure(c)
  <2>1. Here
    BY <1>13, <1>1, OnlyTyped DEF ForgetFailure, ReportFailure, WriteFailure
  <2> QED BY <1>13, <2>1 DEF ForgetFailure, ReportFailure, WriteFailure, Stay, Project, History, TypeOK
<1> QED BY <1>6, <1>7, <1>8, <1>9, <1>10, <1>11, <1>12, <1>13

LEMMA InspectionTyped ==
    ASSUME TypeOK, NEW c \in Calls, InspectionStep(c)
    PROVE  TypeOK'
<1>1. \A p \in Trusting \cup Requesting \cup {"refused", "failed", "answered"} : p \in Places
  BY DEF Places, Ended
<1>2. \A p \in {"matching", "hashing"} : p \in Trusting
  BY DEF Trusting
<1>3. \A p \in {"requesting", "waiting", "reading", "confirming", "removing"} : p \in Requesting
  BY DEF Requesting
<1>4. job[c] \in Jobs /\ job[c].manifest \in Versions /\ job[c].processor \in Processors /\ Inside \in Insides
  BY JobIsTyped, InsideIsTyped
<1>5. CASE ReadTrustedState(c)
  <2>1. [job[c] EXCEPT !.manifest = success.manifest] \in Jobs
    BY <1>4 DEF Jobs, TypeOK, RunStates
  <2> QED BY <1>5, <1>1, <1>2, <2>1, PassTyped, LearnTyped DEF ReadTrustedState
<1>6. CASE MatchBridge(c) \/ VerifySource(c) \/ EndInspection(c)
  BY <1>6, <1>1, <1>2, <1>3, PassTyped DEF MatchBridge, VerifySource, EndInspection, GhidraEnded
<1>7. CASE WriteRequest(c)
  <2>1. [Inside EXCEPT !.requests = @ \cup {c}, !.answers = @ \ {c}] \in Insides
    BY <1>4, InsideEdits DEF Processors
  <2>2. BundleOK' /\ pc' \in [Calls -> Places]
    BY <1>7, <1>1, <1>3, <2>1, PutTyped DEF WriteRequest
  <2>3. [NoGhidra EXCEPT !.at = "opening", !.processor = job[c].processor] \in Ghidras
    BY <1>4, NoneAreTyped DEF Ghidras, GhidraPlaces
  <2>4. ghidra' \in [Calls -> Ghidras]
    BY <1>7, <2>3 DEF WriteRequest, TypeOK
  <2> QED BY <1>7, <2>2, <2>4 DEF WriteRequest, State, Project, History, TypeOK
<1>8. CASE ReadAnswer(c)
  <2>1. [job[c] EXCEPT !.seen = ghidra[c].copy] \in Jobs
    BY <1>4 DEF Jobs, TypeOK, Ghidras
  <2> QED BY <1>8, <1>1, <1>3, <2>1, PassTyped, LearnTyped DEF ReadAnswer
<1>9. CASE ConfirmSource(c)
  <2>1. [job[c] EXCEPT !.seen = NoProgram] \in Jobs
    BY <1>4, NoneAreTyped DEF Jobs
  <2> QED BY <1>9, <1>1, <1>3, <2>1, PassTyped, LearnTyped DEF ConfirmSource
<1>10. CASE RemoveTransport(c)
  <2>1. [Inside EXCEPT !.requests = @ \ {c}, !.answers = @ \ {c}] \in Insides
    BY <1>4, InsideEdits DEF Processors
  <2>2. BundleOK' /\ pc' \in [Calls -> Places]
    BY <1>10, <1>1, <2>1, AdjustTyped DEF RemoveTransport
  <2> QED BY <1>10, <2>2 DEF RemoveTransport, Stay, State, Project, History, TypeOK
<1> QED BY <1>5, <1>6, <1>7, <1>8, <1>9, <1>10 DEF InspectionStep

-----------------------------------------------------------------------------
(* The runs of Ghidra *)

\* What a run does of its call's Ghidra: it goes on or it ends.
LEMMA ExitTyped ==
    ASSUME TypeOK, NEW c \in Calls, NEW ok \in BOOLEAN, Exit(c, ok)
    PROVE  ghidra' \in [Calls -> Ghidras]
<1>1. [ghidra[c] EXCEPT !.at = "off", !.ok = ok] \in Ghidras
  BY GhidraEdits, NoneAreTyped DEF TypeOK, GhidraPlaces
<1> QED BY <1>1 DEF Exit, Become, TypeOK

LEMMA OnwardTyped ==
    ASSUME TypeOK, NEW c \in Calls, NEW there \in GhidraPlaces, Onward(c, there)
    PROVE  ghidra' \in [Calls -> Ghidras]
<1>1. [ghidra[c] EXCEPT !.at = there] \in Ghidras
  BY GhidraEdits, NoneAreTyped DEF TypeOK
<1> QED BY <1>1 DEF Onward, Become, TypeOK

LEMMA CarryTyped ==
    ASSUME TypeOK, NEW c \in Calls, NEW there \in GhidraPlaces, NEW s \in Programs,
           Carry(c, there, s)
    PROVE  ghidra' \in [Calls -> Ghidras]
<1>1. [ghidra[c] EXCEPT !.at = there, !.copy = s] \in Ghidras
  BY GhidraEdits DEF TypeOK
<1> QED BY <1>1 DEF Carry, Become, TypeOK

LEMMA GhidraIsTyped ==
    ASSUME TypeOK, NEW c \in Calls
    PROVE  /\ ghidra[c] \in Ghidras /\ ghidra[c].processor \in Processors /\ ghidra[c].copy \in Programs
           /\ ghidra[c].copy.evidence \in SUBSET Manifests
           /\ program[ghidra[c].processor] \in Programs
BY DEF TypeOK, Ghidras, Programs

LEMMA ScriptFailsTyped ==
    ASSUME TypeOK, NEW c \in Calls, ScriptFails(c)
    PROVE  ghidra' \in [Calls -> Ghidras] /\ program' \in [Processors -> Programs]
<1>1. ghidra' \in [Calls -> Ghidras]
  BY ExitTyped DEF ScriptFails
<1>2. PICK saved \in BOOLEAN :
        program' = IF saved THEN [program EXCEPT ![ghidra[c].processor] = ghidra[c].copy] ELSE program
  BY DEF ScriptFails
<1>3. program' \in [Processors -> Programs]
  BY <1>2, GhidraIsTyped DEF TypeOK
<1> QED BY <1>1, <1>3

LEMMA GhidraStepTyped ==
    ASSUME TypeOK, CopiesAreThere, NEW c \in Calls, GhidraStep(c)
    PROVE  TypeOK'
<1>1. \A p \in {"off", "loading", "creating", "preparing", "evidence", "recording", "saving", "inspecting"} :
        p \in GhidraPlaces
  BY DEF GhidraPlaces
<1>2. ASSUME Quiet, markers' \in SUBSET {"gpr", "rep"}, program' \in [Processors -> Programs],
             ghidra' \in [Calls -> Ghidras]
      PROVE  TypeOK'
  BY <1>2 DEF Quiet, Bundle, State, History, TypeOK, BundleOK
<1>3. markers \in SUBSET {"gpr", "rep"} /\ program \in [Processors -> Programs]
  BY DEF TypeOK
<1>4. CASE OpenProject(c)
  <2>1. ghidra' \in [Calls -> Ghidras]
    BY <1>4, <1>1, ExitTyped, OnwardTyped DEF OpenProject
  <2> QED BY <1>4, <1>2, <1>3, <2>1 DEF OpenProject, Project
<1>5. CASE CreateMarker(c)
  <2>1. PICK f \in {"gpr", "rep"} \ markers :
          markers' = markers \cup {f} /\ Onward(c, IF Found' THEN "loading" ELSE "creating")
    BY <1>5 DEF CreateMarker
  <2>2. markers' \in SUBSET {"gpr", "rep"}
    BY <2>1, <1>3
  <2>3. (IF Found' THEN "loading" ELSE "creating") \in GhidraPlaces
    BY <1>1
  <2>4. [ghidra[c] EXCEPT !.at = IF Found' THEN "loading" ELSE "creating"] \in Ghidras
    BY <2>3, GhidraEdits, GhidraIsTyped
  <2>5. ghidra' \in [Calls -> Ghidras]
    BY <2>1, <2>4 DEF Onward, Become, TypeOK
  <2> QED BY <1>5, <1>2, <1>3, <2>2, <2>5 DEF CreateMarker
<1>6. CASE LoadProgram(c)
  <2> DEFINE g == ghidra[c]
             saved == program[ghidra[c].processor]
             there == IF g.mode = "inspect" THEN "inspecting" ELSE "preparing"
  <2>1. CASE saved.there = (g.mode = "import")
    <3>1. (g.mode # "import") \in BOOLEAN /\ Exit(c, g.mode # "import")
      BY <1>6, <2>1 DEF LoadProgram
    <3>2. ghidra' \in [Calls -> Ghidras]
      BY <3>1, ExitTyped
    <3> QED BY <1>6, <1>2, <1>3, <3>2 DEF LoadProgram, Project
  <2>2. CASE saved.there # (g.mode = "import")
    <3>1. there \in GhidraPlaces /\ [saved EXCEPT !.there = TRUE] \in Programs
      BY <1>1, GhidraIsTyped DEF Programs
    <3>2. Carry(c, there, [saved EXCEPT !.there = TRUE])
      BY <1>6, <2>2 DEF LoadProgram
    <3>3. ghidra' \in [Calls -> Ghidras]
      BY <3>1, <3>2, CarryTyped
    <3> QED BY <1>6, <1>2, <1>3, <3>3 DEF LoadProgram, Project
  <2> QED BY <2>1, <2>2
<1>7. CASE PrepareProgram(c)
  <2>1. CASE Inside.bridge # None
    <3>1. [ghidra[c].copy EXCEPT !.manifest = Inside.bridge] \in Programs
      BY GhidraIsTyped, InsideIsTyped DEF Programs, Insides
    <3>2. Carry(c, "evidence", [ghidra[c].copy EXCEPT !.manifest = Inside.bridge])
      BY <1>7, <2>1 DEF PrepareProgram
    <3>3. ghidra' \in [Calls -> Ghidras]
      BY <1>1, <3>1, <3>2, CarryTyped
    <3> QED BY <1>7, <1>2, <1>3, <2>1, <3>3 DEF PrepareProgram
  <2>2. CASE ~(Inside.bridge # None)
    BY <1>7, <1>2, <1>3, <2>2, ScriptFailsTyped DEF PrepareProgram
  <2> QED BY <2>1, <2>2
<1>8. CASE ImportEvidence(c)
  <2>1. CASE Owned(c)
    <3>1. Inside.bridge \in Manifests
      BY <1>8, <2>1, InsideIsTyped DEF ImportEvidence, Runs, Owned, CopiesAreThere, Insides, Versions
    <3>2. [ghidra[c].copy EXCEPT !.evidence = @ \cup {Inside.bridge}] \in Programs
      BY <3>1, GhidraIsTyped, ProgramEdits DEF Programs
    <3>3. Carry(c, "recording", [ghidra[c].copy EXCEPT !.evidence = @ \cup {Inside.bridge}])
      BY <1>8, <2>1 DEF ImportEvidence
    <3>4. ghidra' \in [Calls -> Ghidras]
      BY <1>1, <3>2, <3>3, CarryTyped
    <3> QED BY <1>8, <1>2, <1>3, <2>1, <3>4 DEF ImportEvidence
  <2>2. CASE ~Owned(c)
    BY <1>8, <1>2, <1>3, <2>2, ScriptFailsTyped DEF ImportEvidence
  <2> QED BY <2>1, <2>2
<1>9. CASE RecordAnalysis(c)
  <2>1. final' \in Directories
    <3>1. [Inside EXCEPT !.results = [@ EXCEPT ![ghidra[c].processor] = Inside.bridge]] \in Insides
      <4>1. Inside \in Insides /\ Inside.bridge \in Versions
        BY InsideIsTyped DEF Insides
      <4> QED BY <4>1, GhidraIsTyped, InsideEdits
    <3> QED BY <1>9, <3>1, WithinTyped DEF RecordAnalysis, TypeOK, BundleOK
  <2>2. ghidra' \in [Calls -> Ghidras] /\ program' \in [Processors -> Programs]
    BY <1>9, <1>1, <1>3, OnwardTyped, ScriptFailsTyped DEF RecordAnalysis
  <2> QED BY <1>9, <2>1, <2>2 DEF RecordAnalysis, State, History, TypeOK, BundleOK
<1>10. CASE SaveProgram(c)
  <2>1. program' \in [Processors -> Programs]
    BY <1>10, <1>3, GhidraIsTyped DEF SaveProgram
  <2>2. ghidra' \in [Calls -> Ghidras]
    BY <1>10, ExitTyped DEF SaveProgram
  <2> QED BY <1>10, <1>2, <1>3, <2>1, <2>2 DEF SaveProgram
<1>11. CASE InspectProgram(c)
  <2>1. [Inside EXCEPT !.answers = @ \cup {c}] \in Insides
    BY InsideIsTyped, InsideEdits, JobIsTyped
  <2>2. final' \in Directories
    BY <1>11, <2>1, WithinTyped DEF InspectProgram, TypeOK, BundleOK
  <2>3. ghidra' \in [Calls -> Ghidras]
    BY <1>11, ExitTyped DEF InspectProgram
  <2> QED BY <1>11, <2>2, <2>3 DEF InspectProgram, Project, State, History, TypeOK, BundleOK
<1>12. CASE Stop(c)
  <2>1. ghidra' \in [Calls -> Ghidras]
    BY <1>12, ExitTyped DEF Stop
  <2> QED BY <1>12, <1>2, <1>3, <2>1 DEF Stop, Project
<1> QED BY <1>4, <1>5, <1>6, <1>7, <1>8, <1>9, <1>10, <1>11, <1>12 DEF GhidraStep

-----------------------------------------------------------------------------
(* What goes wrong keeps the types *)

LEMMA FaultTyped ==
    ASSUME TypeOK, NEW c \in Calls, Fault(c)
    PROVE  faults' \in 0..MaxFaults /\ alone' \in [Calls -> BOOLEAN] /\ orphaned' \in BOOLEAN
<1>1. faults' \in 0..MaxFaults
  BY BoundAssumption DEF Fault, TypeOK, BundleOK
<1>2. alone' \in [Calls -> BOOLEAN]
  BY DEF Fault, Trouble
<1>3. orphaned' \in BOOLEAN
  BY DEF Fault, Importing, TypeOK
<1> QED BY <1>1, <1>2, <1>3

LEMMA TroubleTyped ==
    ASSUME TypeOK, NEW c \in Calls, KillGhidra(c) \/ ExtractionFails(c) \/ OperationFails(c) \/ Crash(c)
    PROVE  TypeOK'
<1>1. CASE KillGhidra(c)
  <2>1. [ghidra[c] EXCEPT !.killed = TRUE] \in Ghidras
    BY GhidraIsTyped DEF Ghidras
  <2>2. ghidra' \in [Calls -> Ghidras]
    BY <1>1, <2>1 DEF KillGhidra, Become, TypeOK
  <2> QED BY <1>1, <2>2, FaultTyped DEF KillGhidra, Project, State, TypeOK, BundleOK
<1>2. CASE ExtractionFails(c)
  <2>1. BundleOK' /\ pc' \in [Calls -> Places]
    BY <1>2, FileFailsTyped DEF ExtractionFails
  <2>2. alone' \in [Calls -> BOOLEAN]
    BY <1>2 DEF ExtractionFails, Trouble
  <2> QED BY <1>2, <2>1, <2>2 DEF ExtractionFails, Project, State, TypeOK
<1>3. CASE OperationFails(c)
  <2>1. pc' \in [Calls -> Places]
    BY <1>3 DEF OperationFails, Goto, TypeOK, Places, Ended, Started, Requesting
  <2>2. [Inside EXCEPT !.unfinished = IF pc[c] \in Bootstrapping THEN @ \ {c} ELSE @] \in Insides
    BY InsideIsTyped DEF Insides
  <2>3. final' \in Directories
    BY <1>3, <2>2, WithinTyped DEF OperationFails
  <2>4. [job[c] EXCEPT !.seen = NoProgram] \in Jobs
    BY JobIsTyped, NoneAreTyped DEF Jobs
  <2>5. job' \in [Calls -> Jobs]
    BY <1>3, <2>4 DEF OperationFails, TypeOK
  <2> QED BY <1>3, <2>1, <2>3, <2>5, FaultTyped DEF OperationFails, Project, State, TypeOK, BundleOK
<1>4. CASE Crash(c)
  <2>1. pc' \in [Calls -> Places] /\ had' \in [Calls -> BOOLEAN]
    BY <1>4 DEF Crash, Goto, TypeOK, BundleOK, Places, Ended
  <2> QED BY <1>4, <2>1, FaultTyped DEF Crash, Project, State, TypeOK, BundleOK
<1> QED BY <1>1, <1>2, <1>3, <1>4

LEMMA RomTyped == TypeOK /\ (ReplaceRom \/ PutRomBack) => TypeOK'
<1>1. ASSUME TypeOK, ReplaceRom PROVE TypeOK'
  <2>1. faults' \in 0..MaxFaults
    BY <1>1, BoundAssumption DEF ReplaceRom, TypeOK, BundleOK
  <2>2. alone' \in [Calls -> BOOLEAN]
    BY <1>1 DEF ReplaceRom, Trouble
  <2> QED BY <1>1, <2>1, <2>2 DEF ReplaceRom, Project, State, TypeOK, BundleOK
<1>2. ASSUME TypeOK, PutRomBack PROVE TypeOK'
  BY <1>2 DEF PutRomBack, Project, State, History, TypeOK, BundleOK
<1> QED BY <1>1, <1>2

LEMMA TypesKept == TypeOK /\ CopiesAreThere /\ [Next]_vars => TypeOK'
<1> SUFFICES ASSUME TypeOK, CopiesAreThere, [Next]_vars PROVE TypeOK' OBVIOUS
<1>1. ASSUME NEW c \in Calls, Extract(c) PROVE TypeOK'
  <2>1. BundleOK' /\ pc' \in [Calls -> Places]
    BY <1>1, ExtractStepTyped DEF Extract
  <2> QED BY <1>1, <2>1 DEF Extract, Project, State, History, TypeOK
<1>2. ASSUME NEW c \in Calls, BootstrapStep(c) PROVE TypeOK'
  BY <1>2, BridgeTyped, RunningTyped DEF BootstrapStep
<1>3. CASE UNCHANGED vars
  BY <1>3 DEF vars, TypeOK, BundleOK
<1>4. CASE Next
  BY <1>1, <1>2, <1>4, ComingTyped, InspectionTyped, GhidraStepTyped, TroubleTyped, RomTyped DEF Next
<1> QED BY <1>3, <1>4

-----------------------------------------------------------------------------
(* No state names a program the project does not hold *)

Right == CopiesAreThere /\ RunsAreApt /\ JobsAreRight /\ ExistingIsSaved

\* A step that leaves Ghidra and the programs alone, and after which its call
\* neither waits for a bootstrap's run nor checks its result.
LEMMA ApartFromGhidra ==
    ASSUME IInv, NEW c \in Calls, NEW there \in Places \ {"running", "checking"}, Goto(c, there),
           UNCHANGED <<program, ghidra>>,
           \A d \in Calls \ {c} : job'[d] = job[d],
           job'[c].existing \subseteq Saved,
           run'.existing \subseteq Saved, success'.existing \subseteq Saved
    PROVE  Right'
<1>1. Saved' = Saved
  BY DEF Saved
<1>2. pc'[c] = there /\ \A d \in Calls \ {c} : pc'[d] = pc[d]
  BY DEF Goto, IInv, TypeOK
<1>3. CopiesAreThere'
  BY DEF IInv, CopiesAreThere
<1>4. RunsAreApt'
  BY <1>1, <1>2 DEF IInv, RunsAreApt
<1>5. JobsAreRight'
  BY <1>1, <1>2 DEF IInv, JobsAreRight
<1>6. ExistingIsSaved'
  BY <1>1 DEF IInv, TypeOK, RunStates, ExistingIsSaved, Saved
<1> QED BY <1>3, <1>4, <1>5, <1>6 DEF Right

\* A step of the Ghidra of one call, which stays about its processor, keeps its
\* mode and loses no program.
LEMMA OneGhidra ==
    ASSUME IInv, TypeOK', NEW c \in Calls, UNCHANGED <<pc, job, run, success>>,
           \A d \in Calls \ {c} : ghidra'[d] = ghidra[d],
           ghidra'[c].processor = ghidra[c].processor, ghidra'[c].mode = ghidra[c].mode,
           Saved \subseteq Saved',
           ghidra'[c].at \in {"preparing", "evidence", "recording", "saving"} => ghidra'[c].copy.there,
           ghidra'[c].at \in {"evidence", "recording", "saving"} => ghidra'[c].copy.manifest # None,
           ghidra'[c].at = "off" /\ ghidra'[c].ok /\ ghidra[c].mode = "import" => ghidra[c].processor \in Saved',
           ghidra'[c].at = "inspecting" => ghidra[c].mode = "inspect"
    PROVE  Right'
<1>1. CopiesAreThere'
  BY DEF IInv, CopiesAreThere
<1>2. RunsAreApt'
  BY DEF IInv, RunsAreApt
<1>3. JobsAreRight'
  BY DEF IInv, JobsAreRight
<1>4. ExistingIsSaved'
  BY DEF IInv, TypeOK, RunStates, ExistingIsSaved, Saved
<1> QED BY <1>1, <1>2, <1>3, <1>4 DEF Right

\* What a run saves is a program.
LEMMA SavingAdds ==
    ASSUME IInv, NEW p \in Processors, NEW s \in Programs, s.there, program' = [program EXCEPT ![p] = s]
    PROVE  Saved \subseteq Saved' /\ p \in Saved'
BY DEF IInv, TypeOK, Saved

LEMMA ScriptFailsRight ==
    ASSUME IInv, TypeOK', NEW c \in Calls, ScriptFails(c), UNCHANGED <<pc, job, run, success>>,
           ghidra[c].at \in {"preparing", "evidence", "recording"}
    PROVE  Right'
<1>1. ghidra' = [ghidra EXCEPT ![c] = [ghidra[c] EXCEPT !.at = "off", !.ok = FALSE]]
  BY DEF ScriptFails, Exit, Become
<1>2. ghidra[c] \in Ghidras /\ ghidra[c].processor \in Processors /\ ghidra[c].copy \in Programs /\ ghidra[c].copy.there
  BY GhidraIsTyped DEF IInv, CopiesAreThere
<1>3. PICK saved \in BOOLEAN :
        program' = IF saved THEN [program EXCEPT ![ghidra[c].processor] = ghidra[c].copy] ELSE program
  BY DEF ScriptFails
<1>4. Saved \subseteq Saved'
  BY <1>2, <1>3, SavingAdds DEF Saved
<1>5. /\ ghidra'[c].at = "off" /\ ~ghidra'[c].ok
      /\ ghidra'[c].processor = ghidra[c].processor /\ ghidra'[c].mode = ghidra[c].mode
      /\ \A d \in Calls \ {c} : ghidra'[d] = ghidra[d]
  BY <1>1, <1>2 DEF Ghidras, IInv, TypeOK
<1> QED BY <1>4, <1>5, OneGhidra

LEMMA GhidraStepRight ==
    ASSUME IInv, TypeOK', NEW c \in Calls, GhidraStep(c)
    PROVE  Right'
<1> DEFINE Others == \A d \in Calls \ {c} : ghidra'[d] = ghidra[d]
           Same == ghidra'[c].processor = ghidra[c].processor /\ ghidra'[c].mode = ghidra[c].mode
<1>1. ghidra[c] \in Ghidras /\ ghidra \in [Calls -> Ghidras]
  BY DEF IInv, TypeOK
<1>2. UNCHANGED <<pc, job, run, success>>
  BY DEF GhidraStep, OpenProject, CreateMarker, LoadProgram, PrepareProgram, ImportEvidence, RecordAnalysis, SaveProgram,
         InspectProgram, Stop, Quiet, State
<1>3. ASSUME NEW ok \in BOOLEAN, Exit(c, ok) PROVE Others /\ Same /\ ghidra'[c].at = "off" /\ ghidra'[c].ok = ok
  BY <1>1, <1>3 DEF Exit, Become, Ghidras
<1>4. ASSUME NEW there, Onward(c, there)
      PROVE  Others /\ Same /\ ghidra'[c].at = there /\ ghidra'[c].copy = ghidra[c].copy
  BY <1>1, <1>4 DEF Onward, Become, Ghidras
<1>5. ASSUME NEW there, NEW s, Carry(c, there, s)
      PROVE  Others /\ Same /\ ghidra'[c].at = there /\ ghidra'[c].copy = s
  BY <1>1, <1>5 DEF Carry, Become, Ghidras
<1>6. ASSUME UNCHANGED program PROVE Saved' = Saved
  BY <1>6 DEF Saved
<1>7. CASE OpenProject(c)
  <2>1. \/ Exit(c, FALSE)
        \/ \E there \in {"loading", "creating"} : Onward(c, there)
    BY <1>7 DEF OpenProject
  <2>2. Saved' = Saved
    BY <1>6, <1>7 DEF OpenProject, Project
  <2>3. Others /\ Same /\ ((ghidra'[c].at = "off" /\ ~ghidra'[c].ok) \/ ghidra'[c].at \in {"loading", "creating"})
    BY <1>3, <1>4, <2>1
  <2> QED BY <1>2, <2>2, <2>3, OneGhidra
<1>8. CASE CreateMarker(c)
  <2>1. \E there \in {"loading", "creating"} : ghidra' = [ghidra EXCEPT ![c] = [ghidra[c] EXCEPT !.at = there]]
    BY <1>8 DEF CreateMarker, Onward, Become
  <2>2. Others /\ Same /\ ghidra'[c].at \in {"loading", "creating"}
    BY <1>1, <2>1 DEF Ghidras
  <2>3. Saved' = Saved
    BY <1>6, <1>8 DEF CreateMarker
  <2> QED BY <1>2, <2>2, <2>3, OneGhidra
<1>9. CASE LoadProgram(c)
  <2> DEFINE saved == program[ghidra[c].processor]
  <2>1. Saved' = Saved
    BY <1>6, <1>9 DEF LoadProgram, Project
  <2>2. saved \in Programs
    BY GhidraIsTyped DEF IInv
  <2>3. CASE saved.there = (ghidra[c].mode = "import")
    <3>1. Exit(c, ghidra[c].mode # "import")
      BY <1>9, <2>3 DEF LoadProgram
    <3>2. Others /\ Same /\ ghidra'[c].at = "off" /\ (ghidra'[c].ok => ghidra[c].mode # "import")
      BY <1>3, <3>1
    <3> QED BY <1>2, <2>1, <3>2, OneGhidra
  <2>4. CASE saved.there # (ghidra[c].mode = "import")
    <3>1. Carry(c, IF ghidra[c].mode = "inspect" THEN "inspecting" ELSE "preparing", [saved EXCEPT !.there = TRUE])
      BY <1>9, <2>4 DEF LoadProgram
    <3>2. [saved EXCEPT !.there = TRUE].there
      BY <2>2 DEF Programs
    <3>3. /\ Others /\ Same /\ ghidra'[c].copy.there
          /\ ghidra'[c].at = IF ghidra[c].mode = "inspect" THEN "inspecting" ELSE "preparing"
      BY <1>5, <3>1, <3>2
    <3> QED BY <1>2, <2>1, <3>3, OneGhidra
  <2> QED BY <2>3, <2>4
<1>10. CASE PrepareProgram(c)
  <2>1. CASE Inside.bridge # None
    <3>1. Carry(c, "evidence", [ghidra[c].copy EXCEPT !.manifest = Inside.bridge]) /\ UNCHANGED program
      BY <1>10, <2>1 DEF PrepareProgram
    <3>2. ghidra[c].copy \in Programs /\ ghidra[c].copy.there
      BY <1>10, GhidraIsTyped DEF PrepareProgram, Runs, IInv, CopiesAreThere
    <3>3. [ghidra[c].copy EXCEPT !.manifest = Inside.bridge].there
          /\ [ghidra[c].copy EXCEPT !.manifest = Inside.bridge].manifest # None
      BY <2>1, <3>2 DEF Programs
    <3>4. /\ Others /\ Same /\ ghidra'[c].at = "evidence"
          /\ ghidra'[c].copy.there /\ ghidra'[c].copy.manifest # None
      BY <1>5, <3>1, <3>3
    <3> QED BY <1>2, <1>6, <3>1, <3>4, OneGhidra
  <2>2. CASE ~(Inside.bridge # None)
    BY <1>2, <1>10, <2>2, ScriptFailsRight DEF PrepareProgram, Runs
  <2> QED BY <2>1, <2>2
<1>11. CASE ImportEvidence(c)
  <2>1. CASE Owned(c)
    <3> DEFINE s == [ghidra[c].copy EXCEPT !.evidence = @ \cup {Inside.bridge}]
    <3>1. Carry(c, "recording", s) /\ UNCHANGED program
      BY <1>11, <2>1 DEF ImportEvidence
    <3>2. ghidra[c].copy \in Programs /\ ghidra[c].copy.there /\ ghidra[c].copy.manifest # None
      BY <1>11, GhidraIsTyped DEF ImportEvidence, Runs, IInv, CopiesAreThere
    <3>3. s.there /\ s.manifest # None
      BY <3>2 DEF Programs
    <3> HIDE DEF s
    <3>4. Others /\ Same /\ ghidra'[c].at = "recording" /\ ghidra'[c].copy = s
      BY <1>5, <3>1
    <3> QED BY <1>2, <1>6, <3>1, <3>3, <3>4, OneGhidra
  <2>2. CASE ~Owned(c)
    BY <1>2, <1>11, <2>2, ScriptFailsRight DEF ImportEvidence, Runs
  <2> QED BY <2>1, <2>2
<1>12. CASE RecordAnalysis(c)
  <2>1. CASE Owned(c)
    <3>1. Onward(c, "saving") /\ UNCHANGED program
      BY <1>12, <2>1 DEF RecordAnalysis
    <3>2. ghidra[c].copy.there /\ ghidra[c].copy.manifest # None
      BY <1>12 DEF RecordAnalysis, Runs, IInv, CopiesAreThere
    <3>3. Others /\ Same /\ ghidra'[c].at = "saving" /\ ghidra'[c].copy = ghidra[c].copy
      BY <1>4, <3>1
    <3> QED BY <1>2, <1>6, <3>1, <3>2, <3>3, OneGhidra
  <2>2. CASE ~Owned(c)
    BY <1>2, <1>12, <2>2, ScriptFailsRight DEF RecordAnalysis, Runs
  <2> QED BY <2>1, <2>2
<1>13. CASE SaveProgram(c)
  <2>1. ghidra[c].copy \in Programs /\ ghidra[c].copy.there /\ ghidra[c].processor \in Processors
    BY <1>13, GhidraIsTyped DEF SaveProgram, Runs, IInv, CopiesAreThere
  <2>2. Saved \subseteq Saved' /\ ghidra[c].processor \in Saved'
    BY <1>13, <2>1, SavingAdds DEF SaveProgram
  <2>3. Others /\ Same /\ ghidra'[c].at = "off"
    BY <1>3, <1>13 DEF SaveProgram
  <2> QED BY <1>2, <2>2, <2>3, OneGhidra
<1>14. CASE InspectProgram(c)
  <2>1. ghidra[c].mode = "inspect"
    BY <1>14 DEF InspectProgram, Runs, IInv, RunsAreApt
  <2>2. Others /\ Same /\ ghidra'[c].at = "off"
    BY <1>3, <1>14 DEF InspectProgram
  <2>3. Saved' = Saved
    BY <1>6, <1>14 DEF InspectProgram, Project
  <2> QED BY <1>2, <2>1, <2>2, <2>3, OneGhidra
<1>15. CASE Stop(c)
  <2>1. Others /\ Same /\ ghidra'[c].at = "off" /\ ~ghidra'[c].ok
    BY <1>3, <1>15 DEF Stop
  <2>2. Saved' = Saved
    BY <1>6, <1>15 DEF Stop, Project
  <2> QED BY <1>2, <2>1, <2>2, OneGhidra
<1> QED BY <1>7, <1>8, <1>9, <1>10, <1>11, <1>12, <1>13, <1>14, <1>15 DEF GhidraStep

LEMMA KillGhidraRight ==
    ASSUME IInv, TypeOK', NEW c \in Calls, KillGhidra(c)
    PROVE  Right'
<1>1. ghidra' = [ghidra EXCEPT ![c] = [ghidra[c] EXCEPT !.killed = TRUE]] /\ ghidra[c].at # "off"
  BY DEF KillGhidra, Become
<1>2. ghidra[c] \in Ghidras /\ ghidra \in [Calls -> Ghidras]
  BY DEF IInv, TypeOK
<1>3. /\ \A d \in Calls \ {c} : ghidra'[d] = ghidra[d]
      /\ ghidra'[c].processor = ghidra[c].processor /\ ghidra'[c].mode = ghidra[c].mode
      /\ ghidra'[c].at = ghidra[c].at /\ ghidra'[c].copy = ghidra[c].copy
  BY <1>1, <1>2 DEF Ghidras
<1>4. UNCHANGED <<pc, job, run, success>> /\ Saved' = Saved
  BY DEF KillGhidra, Project, State, Saved
<1>5. /\ ghidra[c].at \in {"preparing", "evidence", "recording", "saving"} => ghidra[c].copy.there
      /\ ghidra[c].at \in {"evidence", "recording", "saving"} => ghidra[c].copy.manifest # None
      /\ ghidra[c].at = "inspecting" => ghidra[c].mode = "inspect"
  BY DEF IInv, CopiesAreThere, RunsAreApt
<1> QED BY <1>1, <1>3, <1>4, <1>5, OneGhidra

\* What the state and the jobs name now is saved.
LEMMA NamedIsSaved ==
    ASSUME IInv, NEW c \in Calls
    PROVE  /\ run.existing \subseteq Saved /\ success.existing \subseteq Saved /\ Prior.existing \subseteq Saved
           /\ job[c].existing \subseteq Saved
BY DEF IInv, TypeOK, RunStates, ExistingIsSaved, JobsAreRight, Saved, Prior

LEMMA ComingRight ==
    ASSUME IInv, NEW c \in Calls, BeginExtraction(c) \/ BeginBootstrap(c) \/ BeginInspection(c) \/ Return(c)
    PROVE  Right'
<1>1. UNCHANGED <<program, ghidra, run, success>>
  BY DEF BeginExtraction, BeginBootstrap, BeginInspection, Begin, Return, Project, State
<1>2. \E there \in {"asked", "consulting", "refused", "trusting", "idle"} : Goto(c, there)
  BY DEF BeginExtraction, BeginExtract, Enter, BeginBootstrap, BeginInspection, Only, Move, Return
<1>3. {"asked", "consulting", "refused", "trusting", "idle"} \subseteq Places \ {"running", "checking"}
  BY DEF Places, Extracting, Ended, Trusting
<1>4. job \in [Calls -> Jobs] /\ job[c].existing \subseteq Saved
  BY NamedIsSaved DEF IInv, TypeOK
<1>5. \E j : job' = [job EXCEPT ![c] = j] /\ j.existing \subseteq Saved
  <2>1. CASE BeginExtraction(c)
    <3>1. job' = [job EXCEPT ![c] = job[c]]
      BY <2>1, <1>4 DEF BeginExtraction
    <3> QED BY <3>1, <1>4
  <2>2. CASE BeginBootstrap(c)
    <3>1. PICK m \in Manifests :
            job' = [job EXCEPT ![c] = [NoJob EXCEPT !.kind = "bootstrap", !.manifest = m, !.found = Found]]
      BY <2>2 DEF BeginBootstrap
    <3>2. [NoJob EXCEPT !.kind = "bootstrap", !.manifest = m, !.found = Found].existing = {}
      BY DEF NoJob
    <3> QED BY <3>1, <3>2
  <2>3. CASE BeginInspection(c)
    <3>1. PICK p \in Processors : job' = [job EXCEPT ![c] = [NoJob EXCEPT !.kind = "inspect", !.processor = p]]
      BY <2>3 DEF BeginInspection
    <3>2. [NoJob EXCEPT !.kind = "inspect", !.processor = p].existing = {}
      BY DEF NoJob
    <3> QED BY <3>1, <3>2
  <2>4. CASE Return(c)
    <3>1. job' = [job EXCEPT ![c] = NoJob] /\ NoJob.existing = {}
      BY <2>4 DEF Return, NoJob
    <3> QED BY <3>1
  <2> QED BY <2>1, <2>2, <2>3, <2>4
<1>6. job'[c].existing \subseteq Saved /\ \A d \in Calls \ {c} : job'[d] = job[d]
  BY <1>4, <1>5
<1> QED BY <1>1, <1>2, <1>3, <1>6, NamedIsSaved, ApartFromGhidra

LEMMA ExtractRight ==
    ASSUME IInv, NEW c \in Calls, Extract(c) \/ ExtractionFails(c)
    PROVE  Right'
<1>1. UNCHANGED <<program, ghidra, run, success, job>>
  BY DEF Extract, ExtractionFails, Project, State
<1>2. \E there \in Extracting \cup {"failed", "extracted"} : Goto(c, there)
  BY ExtractStepTyped, FileFailsTyped DEF IInv, Extract, ExtractionFails, Extracting
<1>3. Extracting \cup {"failed", "extracted"} \subseteq Places \ {"running", "checking"}
  BY DEF Places, Extracting, Ended
<1> QED BY <1>1, <1>2, <1>3, NamedIsSaved, ApartFromGhidra

\* The steps of a bootstrap but those that start a run and end it.
LEMMA BootstrapRight ==
    ASSUME IInv, NEW c \in Calls, BootstrapStep(c), ~Launch(c), ~EndRun(c)
    PROVE  Right'
<1> DEFINE Free == {"asked", "refused", "discovering", "failed", "rehashing", "clearing", "placing", "rechecking",
                    "starting", "launching", "recording", "reporting", "finishing", "succeeding", "settling",
                    "bootstrapped"}
<1>1. Free \subseteq Places \ {"running", "checking"}
  BY DEF Places, Extracting, Bootstrapping, Started, Ended
<1>2. job \in [Calls -> Jobs] /\ job[c] \in Jobs /\ run \in RunStates /\ success \in RunStates
  BY DEF IInv, TypeOK
<1>3. run.existing \subseteq Saved /\ success.existing \subseteq Saved /\ Prior.existing \subseteq Saved
      /\ job[c].existing \subseteq Saved
  BY NamedIsSaved
<1>4. ASSUME NEW there \in Free, Goto(c, there), UNCHANGED <<program, ghidra>>,
             job' = job \/ \E j : job' = [job EXCEPT ![c] = j] /\ j.existing \subseteq Saved,
             run'.existing \subseteq Saved, success'.existing \subseteq Saved
      PROVE  Right'
  <2>1. job'[c].existing \subseteq Saved /\ \A d \in Calls \ {c} : job'[d] = job[d]
    BY <1>2, <1>3, <1>4
  <2> QED BY <1>1, <1>4, <2>1, ApartFromGhidra
<1>5. RunState(c, "starting").existing \subseteq Saved /\ RunState(c, "arm9-complete").existing \subseteq Saved
      /\ RunState(c, "arm7-complete").existing \subseteq Saved /\ RunState(c, "complete").existing \subseteq Saved
  BY <1>3 DEF RunState
<1> HIDE DEF Free
<1>6. CASE Consult(c)
  <2>1. [job[c] EXCEPT !.existing = Prior.existing].existing \subseteq Saved
    BY <1>2, <1>3 DEF Jobs
  <2>2. job' = [job EXCEPT ![c] = [job[c] EXCEPT !.existing = Prior.existing]]
    BY <1>6 DEF Consult
  <2>3. \E there \in Free : Goto(c, there)
    BY <1>6 DEF Consult, Enter, Only, Move, Free
  <2> QED BY <1>3, <1>4, <1>6, <2>1, <2>2, <2>3 DEF Consult, State, Stay, Project
<1>7. CASE \/ ValidateBundle(c) \/ BuildBridge(c) \/ RehashSource(c) \/ ClearBridge(c) \/ PlaceBridge(c)
           \/ CheckBridge(c)
  <2>1. \E there \in Free : Goto(c, there)
    BY <1>7 DEF ValidateBundle, BuildBridge, RehashSource, ClearBridge, PlaceBridge, CheckBridge, Pass, Unbuild, Put,
                Adjust, Only, Move, Free
  <2>2. UNCHANGED <<program, ghidra, run, success, job>>
    BY <1>7 DEF ValidateBundle, BuildBridge, RehashSource, ClearBridge, PlaceBridge, CheckBridge, Pass, State, Stay,
                Project
  <2> QED BY <1>3, <1>4, <2>1, <2>2
<1>8. CASE WriteStarting(c) \/ Finish(c) \/ WriteSuccess(c)
  <2>1. \E there \in Free : Goto(c, there)
    BY <1>8 DEF WriteStarting, Finish, WriteSuccess, WriteRun, Pass, Only, Move, Free
  <2>2. UNCHANGED <<program, ghidra, job>>
    BY <1>8 DEF WriteStarting, Finish, WriteSuccess, WriteRun, Pass, Stay, Project
  <2>3. run'.existing \subseteq Saved /\ success'.existing \subseteq Saved
    BY <1>3, <1>5, <1>8 DEF WriteStarting, Finish, WriteSuccess, WriteRun, Pass, State
  <2> QED BY <1>4, <2>1, <2>2, <2>3
<1>9. CASE CheckResult(c)
  <2> DEFINE p == job[c].processor
             j == [job[c] EXCEPT !.existing = @ \cup {p}, !.completed = @ \cup {p}]
  <2>1. p \in Saved
    BY <1>9 DEF CheckResult, At, IInv, JobsAreRight
  <2>2. j.existing \subseteq Saved
    BY <1>2, <1>3, <2>1 DEF Jobs
  <2> HIDE DEF j
  <2>3. job' = job \/ job' = [job EXCEPT ![c] = j]
    BY <1>9 DEF CheckResult, Learn, Pass, j
  <2>4. \E there \in Free : Goto(c, there)
    BY <1>9 DEF CheckResult, Learn, Pass, Only, Move, Free
  <2>5. UNCHANGED <<program, ghidra, run, success>>
    BY <1>9 DEF CheckResult, Learn, Pass, State, Stay, Project
  <2> QED BY <1>3, <1>4, <2>2, <2>3, <2>4, <2>5
<1>10. CASE RecordProcessor(c)
  <2>1. [job[c] EXCEPT !.processor = "arm7"].existing \subseteq Saved
    BY <1>2, <1>3 DEF Jobs
  <2>2. job' = [job EXCEPT ![c] = [job[c] EXCEPT !.processor = "arm7"]]
    BY <1>10 DEF RecordProcessor
  <2>3. \E there \in Free : Goto(c, there)
    BY <1>10 DEF RecordProcessor, Only, Move, Free
  <2>4. run'.existing \subseteq Saved /\ success' = success
    BY <1>5, <1>10 DEF RecordProcessor
  <2> QED BY <1>3, <1>4, <1>10, <2>1, <2>2, <2>3, <2>4 DEF RecordProcessor, Stay, Project
<1>11. CASE ForgetFailure(c) \/ ReportFailure(c)
  <2>1. \E there \in Free : Goto(c, there)
    BY <1>11 DEF ForgetFailure, ReportFailure, WriteFailure, Only, Move, Free
  <2>2. UNCHANGED <<program, ghidra, run, success, job>>
    BY <1>11 DEF ForgetFailure, ReportFailure, WriteFailure, Stay, Project
  <2> QED BY <1>3, <1>4, <2>1, <2>2
<1> QED BY <1>6, <1>7, <1>8, <1>9, <1>10, <1>11 DEF BootstrapStep

\* A bootstrap starts Ghidra about its processor, to process it only if it exists.
LEMMA LaunchRight ==
    ASSUME IInv, NEW c \in Calls, Launch(c)
    PROVE  Right'
<1>1. UNCHANGED <<run, success, job, program>> /\ Saved' = Saved
  BY DEF Launch, State, Project, Saved
<1>2. CASE ~rom
  <2>1. Goto(c, "reporting") /\ UNCHANGED ghidra
    BY <1>2 DEF Launch, Only, Move
  <2>2. "reporting" \in Places \ {"running", "checking"}
    BY DEF Places, Started
  <2> QED BY <1>1, <2>1, <2>2, NamedIsSaved, ApartFromGhidra
<1>3. CASE rom
  <2> DEFINE p == job[c].processor
             g == [NoGhidra EXCEPT !.at = "opening", !.processor = p,
                                   !.mode = IF p \in job[c].existing THEN "process" ELSE "import"]
  <2>1. ghidra' = [ghidra EXCEPT ![c] = g] /\ Goto(c, "running")
    BY <1>3 DEF Launch, Adjust, Move
  <2>2. g.at = "opening" /\ g.processor = p /\ g.mode = IF p \in job[c].existing THEN "process" ELSE "import"
    BY DEF NoGhidra
  <2> HIDE DEF g
  <2>3. /\ ghidra'[c] = g /\ pc'[c] = "running"
        /\ \A d \in Calls \ {c} : ghidra'[d] = ghidra[d] /\ pc'[d] = pc[d]
    BY <2>1 DEF Goto, IInv, TypeOK
  <2>4. CopiesAreThere'
    BY <2>2, <2>3 DEF IInv, CopiesAreThere
  <2>5. RunsAreApt'
    BY <1>1, <2>2, <2>3 DEF IInv, RunsAreApt
  <2>6. JobsAreRight'
    BY <1>1, <2>3 DEF IInv, JobsAreRight
  <2>7. ExistingIsSaved'
    BY <1>1 DEF IInv, ExistingIsSaved
  <2> QED BY <2>4, <2>5, <2>6, <2>7 DEF Right
<1> QED BY <1>2, <1>3

\* A run that ended well has left its program in the project.
LEMMA EndRunRight ==
    ASSUME IInv, NEW c \in Calls, EndRun(c)
    PROVE  Right'
<1>1. UNCHANGED <<run, success, job, program, ghidra>> /\ Saved' = Saved
  BY DEF EndRun, GhidraEnded, Pass, State, Stay, Project, Saved
<1>2. CASE ~(ghidra[c].ok /\ ~ghidra[c].killed)
  <2>1. Goto(c, "reporting")
    BY <1>2 DEF EndRun, GhidraEnded, Pass, Only, Move
  <2>2. "reporting" \in Places \ {"running", "checking"}
    BY DEF Places, Started
  <2> QED BY <1>1, <2>1, <2>2, NamedIsSaved, ApartFromGhidra
<1>3. CASE ghidra[c].ok /\ ~ghidra[c].killed
  <2>1. Goto(c, "checking")
    BY <1>3 DEF EndRun, GhidraEnded, Pass, Only, Move
  <2>2. pc'[c] = "checking" /\ \A d \in Calls \ {c} : pc'[d] = pc[d]
    BY <2>1 DEF Goto, IInv, TypeOK
  <2>3. job[c].processor \in Saved
    BY <1>3 DEF EndRun, GhidraEnded, At, IInv, RunsAreApt, JobsAreRight
  <2>4. CopiesAreThere' /\ ExistingIsSaved'
    BY <1>1 DEF IInv, CopiesAreThere, ExistingIsSaved
  <2>5. RunsAreApt'
    BY <1>1, <2>2 DEF IInv, RunsAreApt
  <2>6. JobsAreRight'
    BY <1>1, <2>2, <2>3 DEF IInv, JobsAreRight
  <2> QED BY <2>4, <2>5, <2>6 DEF Right
<1> QED BY <1>2, <1>3

LEMMA InspectionRight ==
    ASSUME IInv, NEW c \in Calls, InspectionStep(c), ~WriteRequest(c)
    PROVE  Right'
<1> DEFINE Free == {"matching", "refused", "hashing", "requesting", "reading", "removing", "confirming", "failed",
                    "answered"}
<1>1. Free \subseteq Places \ {"running", "checking"}
  BY DEF Places, Trusting, Requesting, Ended
<1>2. UNCHANGED <<program, ghidra, run, success>>
  BY DEF InspectionStep, ReadTrustedState, MatchBridge, VerifySource, EndInspection, GhidraEnded, ReadAnswer,
         ConfirmSource, RemoveTransport, Pass, Learn, State, Stay, Project
<1>3. \E there \in Free : Goto(c, there)
  BY DEF InspectionStep, ReadTrustedState, MatchBridge, VerifySource, EndInspection, GhidraEnded, ReadAnswer,
         ConfirmSource, RemoveTransport, Pass, Learn, Only, Adjust, Move
<1>4. job \in [Calls -> Jobs] /\ job[c] \in Jobs /\ job[c].existing \subseteq Saved
  BY NamedIsSaved DEF IInv, TypeOK
<1>5. \/ job' = job
      \/ \E m : job' = [job EXCEPT ![c] = [job[c] EXCEPT !.manifest = m]]
      \/ \E s : job' = [job EXCEPT ![c] = [job[c] EXCEPT !.seen = s]]
  BY DEF InspectionStep, ReadTrustedState, MatchBridge, VerifySource, EndInspection, GhidraEnded, ReadAnswer,
         ConfirmSource, RemoveTransport, Pass, Learn
<1>6. job'[c].existing \subseteq Saved /\ \A d \in Calls \ {c} : job'[d] = job[d]
  BY <1>4, <1>5 DEF Jobs
<1> HIDE DEF Free
<1> QED BY <1>1, <1>2, <1>3, <1>6, NamedIsSaved, ApartFromGhidra

\* An inspection starts Ghidra too, and waits for it elsewhere.
LEMMA WriteRequestRight ==
    ASSUME IInv, NEW c \in Calls, WriteRequest(c)
    PROVE  Right'
<1> DEFINE g == [NoGhidra EXCEPT !.at = "opening", !.processor = job[c].processor]
<1>1. UNCHANGED <<run, success, job, program>> /\ Saved' = Saved
  BY DEF WriteRequest, State, Project, Saved
<1>2. ghidra' = [ghidra EXCEPT ![c] = g] /\ Goto(c, "waiting")
  BY DEF WriteRequest, Put
<1>3. g.at = "opening"
  BY DEF NoGhidra
<1> HIDE DEF g
<1>4. /\ ghidra'[c] = g /\ pc'[c] = "waiting"
      /\ \A d \in Calls \ {c} : ghidra'[d] = ghidra[d] /\ pc'[d] = pc[d]
  BY <1>2 DEF Goto, IInv, TypeOK
<1>5. CopiesAreThere' /\ RunsAreApt'
  BY <1>1, <1>3, <1>4 DEF IInv, CopiesAreThere, RunsAreApt
<1>6. JobsAreRight' /\ ExistingIsSaved'
  BY <1>1, <1>4 DEF IInv, JobsAreRight, ExistingIsSaved
<1> QED BY <1>5, <1>6 DEF Right

LEMMA FailingRight ==
    ASSUME IInv, NEW c \in Calls, OperationFails(c) \/ Crash(c)
    PROVE  Right'
<1>1. UNCHANGED <<program, ghidra, run, success>>
  BY DEF OperationFails, Crash, Project, State
<1>2. \E there \in {"failed", "reporting", "removing", "crashed"} : Goto(c, there)
  BY DEF OperationFails, Crash
<1>3. {"failed", "reporting", "removing", "crashed"} \subseteq Places \ {"running", "checking"}
  BY DEF Places, Ended, Started, Requesting
<1>4. job \in [Calls -> Jobs] /\ job[c] \in Jobs /\ job[c].existing \subseteq Saved
  BY NamedIsSaved DEF IInv, TypeOK
<1>5. job' = job \/ job' = [job EXCEPT ![c] = [job[c] EXCEPT !.seen = NoProgram]]
  BY DEF OperationFails, Crash
<1>6. job'[c].existing \subseteq Saved /\ \A d \in Calls \ {c} : job'[d] = job[d]
  BY <1>4, <1>5 DEF Jobs
<1> QED BY <1>1, <1>2, <1>3, <1>6, NamedIsSaved, ApartFromGhidra

\* IInv holds of the initial states and every step keeps it: the strengthening
\* behind the promise that a run told to process a program finds one.
THEOREM Invariance == Spec => []IInv
<1>1. Init => IInv
  <2> SUFFICES ASSUME Init PROVE IInv OBVIOUS
  <2>1. CopiesAreThere /\ RunsAreApt
    BY DEF Init, BundleInit, CopiesAreThere, RunsAreApt, NoGhidra
  <2>2. JobsAreRight /\ ExistingIsSaved
    BY DEF Init, BundleInit, JobsAreRight, ExistingIsSaved, NoJob, NoRun
  <2> QED BY <2>1, <2>2, InitTyped DEF IInv
<1>2. IInv /\ [Next]_vars => IInv'
  <2> SUFFICES ASSUME IInv, [Next]_vars PROVE IInv' OBVIOUS
  <2>1. TypeOK'
    BY TypesKept DEF IInv
  <2>2. ASSUME UNCHANGED vars PROVE Right'
    <3>1. CopiesAreThere' /\ RunsAreApt'
      BY <2>2 DEF vars, IInv, CopiesAreThere, RunsAreApt, Saved
    <3>2. JobsAreRight' /\ ExistingIsSaved'
      BY <2>2 DEF vars, IInv, JobsAreRight, ExistingIsSaved, Saved
    <3> QED BY <3>1, <3>2 DEF Right
  <2>3. ASSUME NEW c \in Calls, BeginExtraction(c) \/ BeginBootstrap(c) \/ BeginInspection(c) \/ Return(c)
        PROVE  Right'
    BY <2>3, ComingRight
  <2>4. ASSUME NEW c \in Calls, Extract(c) \/ ExtractionFails(c) PROVE Right'
    BY <2>4, ExtractRight
  <2>5. ASSUME NEW c \in Calls, BootstrapStep(c) PROVE Right'
    BY <2>5, BootstrapRight, LaunchRight, EndRunRight
  <2>6. ASSUME NEW c \in Calls, InspectionStep(c) PROVE Right'
    BY <2>6, InspectionRight, WriteRequestRight
  <2>7. ASSUME NEW c \in Calls, GhidraStep(c) \/ KillGhidra(c) PROVE Right'
    BY <2>1, <2>7, GhidraStepRight, KillGhidraRight
  <2>8. ASSUME NEW c \in Calls, OperationFails(c) \/ Crash(c) PROVE Right'
    BY <2>8, FailingRight
  <2>9. ASSUME ReplaceRom \/ PutRomBack PROVE Right'
    <3>1. UNCHANGED <<pc, program, run, success, job, ghidra>>
      BY <2>9 DEF ReplaceRom, PutRomBack, Project, State
    <3>2. CopiesAreThere' /\ RunsAreApt'
      BY <3>1 DEF IInv, CopiesAreThere, RunsAreApt, Saved
    <3>3. JobsAreRight' /\ ExistingIsSaved'
      BY <3>1 DEF IInv, JobsAreRight, ExistingIsSaved, Saved
    <3> QED BY <3>2, <3>3 DEF Right
  <2>10. Right'
    BY <2>2, <2>3, <2>4, <2>5, <2>6, <2>7, <2>8, <2>9 DEF Next
  <2> QED BY <2>1, <2>10 DEF IInv, Right
<1> QED BY <1>1, <1>2, PTL DEF Spec

-----------------------------------------------------------------------------
(* A call that replaces the bundle leaves the one it found *)

\* Only what is there is whole.
WholeAreThere ==
    /\ final.whole => final.there
    /\ \A c \in Calls : (temp[c].whole => temp[c].there) /\ (back[c].whole => back[c].there)
\* What a call promotes is a whole bundle, unless the ROM has changed under it.
BuildsAreWhole ==
    \A c \in Calls :
        /\ pc[c] = "filling" => temp[c].there
        /\ pc[c] = "comparing" => temp[c].whole \/ ~rom
        /\ pc[c] \in {"looking", "moving", "promoting"} => temp[c].whole
\* A call that counts on the bundle is the only one that extracts, and the
\* bundle is at its place or in the backup of that call.
BackupIsKept ==
    \A c \in Calls : had[c] =>
        /\ \A e \in Calls \ {c} : pc[e] \notin Extracting
        /\ IF pc[c] \in {"promoting", "undoing", "restoring"} THEN back[c].whole ELSE final.whole
        /\ pc[c] \in {"promoting", "restoring"} => ~final.there
BundleInv == WholeAreThere /\ BuildsAreWhole /\ BackupIsKept

LEMMA EnterSurvives ==
    ASSUME TypeOK, BundleInv, NEW c \in Calls, Enter(c)
    PROVE  BundleInv'
<1>1. /\ pc'[c] = "asked" /\ \A d \in Calls \ {c} : pc'[d] = pc[d]
      /\ temp'[c] = Absent /\ back'[c] = Absent /\ UNCHANGED <<final, rom>>
      /\ \A d \in Calls \ {c} : temp'[d] = temp[d] /\ back'[d] = back[d] /\ ~had'[d]
      /\ had'[c] => final.whole /\ \A e \in Calls \ {c} : pc[e] \notin Extracting
  BY DEF Enter, Goto, TypeOK, BundleOK
<1>2. ~Absent.whole
  BY DEF Absent
<1>3. WholeAreThere'
  BY <1>1, <1>2 DEF BundleInv, WholeAreThere
<1>4. BuildsAreWhole'
  BY <1>1 DEF BundleInv, BuildsAreWhole
<1>5. BackupIsKept'
  BY <1>1 DEF BackupIsKept
<1> QED BY <1>3, <1>4, <1>5 DEF BundleInv

\* The steps of an extraction, one directory of the call at a time.
LEMMA ExtractSurvives ==
    ASSUME TypeOK, BundleInv, NEW c \in Calls, ExtractStep(c)
    PROVE  BundleInv'
<1> DEFINE Apart == \A d \in Calls \ {c} : temp'[d] = temp[d] /\ back'[d] = back[d]
           Whole == /\ final'.whole => final'.there
                    /\ temp'[c].whole => temp'[c].there
                    /\ back'[c].whole => back'[c].there
           Built == /\ pc'[c] = "filling" => temp'[c].there
                    /\ pc'[c] = "comparing" => temp'[c].whole \/ ~rom
                    /\ pc'[c] \in {"looking", "moving", "promoting"} => temp'[c].whole
           Kept == /\ IF pc'[c] \in {"promoting", "undoing", "restoring"} THEN back'[c].whole ELSE final'.whole
                   /\ pc'[c] \in {"promoting", "restoring"} => ~final'.there
<1>1. pc[c] \in Extracting /\ UNCHANGED <<rom, had>> /\ \A d \in Calls \ {c} : pc'[d] = pc[d]
  BY ExtractStepTyped DEF Goto, TypeOK
<1>2. \A d \in Calls \ {c} : ~had[d]
  BY <1>1 DEF BundleInv, BackupIsKept
<1>3. ASSUME Apart, Whole, Built, had[c] => Kept PROVE BundleInv'
  <2>1. WholeAreThere'
    BY <1>3 DEF BundleInv, WholeAreThere
  <2>2. BuildsAreWhole'
    BY <1>1, <1>3 DEF BundleInv, BuildsAreWhole
  <2>3. BackupIsKept'
    BY <1>1, <1>2, <1>3 DEF BundleInv, BackupIsKept
  <2> QED BY <2>1, <2>2, <2>3 DEF BundleInv
<1>4. /\ final.whole => final.there
      /\ temp[c].whole => temp[c].there
      /\ back[c].whole => back[c].there
      /\ pc[c] = "filling" => temp[c].there
      /\ pc[c] = "comparing" => temp[c].whole \/ ~rom
      /\ pc[c] \in {"looking", "moving", "promoting"} => temp[c].whole
      /\ had[c] => /\ IF pc[c] \in {"promoting", "undoing", "restoring"} THEN back[c].whole ELSE final.whole
                   /\ pc[c] \in {"promoting", "restoring"} => ~final.there
  BY DEF BundleInv, WholeAreThere, BuildsAreWhole, BackupIsKept
<1>5. /\ pc \in [Calls -> Places] /\ temp \in [Calls -> Directories] /\ back \in [Calls -> Directories]
      /\ final \in Directories /\ temp[c] \in Directories /\ rom \in BOOLEAN
  BY DEF TypeOK, BundleOK
<1>6. ~Absent.whole /\ ~Absent.there /\ ~Bare.whole /\ Bare.there
  BY DEF Absent, Bare
<1>7. CASE AssertSourceIdentity(c)
  <2>1. Apart /\ UNCHANGED <<final, temp, back>> /\ pc[c] = "asked" /\ pc'[c] \in {"making", "failed"}
    BY <1>5, <1>7 DEF AssertSourceIdentity, At, Only, Move, Goto
  <2> QED BY <1>3, <1>4, <2>1
<1>8. CASE MakeTemporary(c)
  <2>1. Apart /\ UNCHANGED <<final, back>> /\ temp'[c] = Bare /\ pc[c] = "making" /\ pc'[c] = "filling"
    BY <1>5, <1>8 DEF MakeTemporary, At, Move, Goto
  <2> QED BY <1>3, <1>4, <1>6, <2>1
<1>9. CASE Generate(c)
  <2>1. /\ Apart /\ UNCHANGED <<final, back>> /\ pc[c] = "filling" /\ pc'[c] = "comparing"
        /\ temp'[c] = [temp[c] EXCEPT !.whole = rom]
    BY <1>5, <1>9 DEF Generate, At, Move, Goto
  <2>2. temp'[c].whole = rom /\ temp'[c].there = temp[c].there
    BY <1>5, <2>1 DEF Directories
  <2> QED BY <1>3, <1>4, <2>1, <2>2
<1>10. CASE CompareSource(c)
  <2>1. /\ Apart /\ UNCHANGED <<final, temp, back>> /\ pc[c] = "comparing"
        /\ pc'[c] = IF rom THEN "looking" ELSE "dropping"
    BY <1>5, <1>10 DEF CompareSource, At, Only, Move, Goto
  <2> QED BY <1>3, <1>4, <2>1
<1>11. CASE DropTemporary(c)
  <2>1. Apart /\ UNCHANGED <<final, back>> /\ temp'[c] = Absent /\ pc[c] = "dropping" /\ pc'[c] = "failed"
    BY <1>5, <1>11 DEF DropTemporary, At, Move, Goto
  <2> QED BY <1>3, <1>4, <1>6, <2>1
<1>12. CASE LookForFinal(c)
  <2>1. /\ Apart /\ UNCHANGED <<final, temp, back>> /\ pc[c] = "looking"
        /\ pc'[c] = IF final.there THEN "moving" ELSE "promoting"
    BY <1>5, <1>12 DEF LookForFinal, At, Only, Move, Goto
  <2> QED BY <1>3, <1>4, <2>1
<1>13. CASE MoveAside(c)
  <2>1. CASE final.there
    <3>1. /\ Apart /\ UNCHANGED temp /\ back'[c] = final /\ final' = Absent
          /\ pc[c] = "moving" /\ pc'[c] = "promoting"
      BY <1>5, <1>13, <2>1 DEF MoveAside, At, Move, Goto
    <3> QED BY <1>3, <1>4, <1>6, <3>1
  <2>2. CASE ~final.there
    <3>1. Apart /\ UNCHANGED <<final, temp, back>> /\ pc[c] = "moving" /\ pc'[c] = "undoing"
      BY <1>5, <1>13, <2>2 DEF MoveAside, At, Only, Move, Goto
    <3> QED BY <1>3, <1>4, <2>2, <3>1
  <2> QED BY <2>1, <2>2
<1>14. CASE Promote(c)
  <2>1. CASE final.there
    <3>1. Apart /\ UNCHANGED <<final, temp, back>> /\ pc[c] = "promoting" /\ pc'[c] = "undoing"
      BY <1>5, <1>14, <2>1 DEF Promote, At, Only, Move, Goto
    <3> QED BY <1>3, <1>4, <3>1
  <2>2. CASE ~final.there
    <3>1. /\ Apart /\ UNCHANGED back /\ final' = temp[c] /\ temp'[c] = Absent
          /\ pc[c] = "promoting" /\ pc'[c] \in {"discarding", "extracted"}
      BY <1>5, <1>14, <2>2 DEF Promote, At, Move, Goto
    <3> QED BY <1>3, <1>4, <1>6, <3>1
  <2> QED BY <2>1, <2>2
<1>15. CASE DiscardBackup(c)
  <2>1. Apart /\ UNCHANGED <<final, temp>> /\ back'[c] = Absent /\ pc[c] = "discarding" /\ pc'[c] = "extracted"
    BY <1>5, <1>15 DEF DiscardBackup, At, Move, Goto
  <2> QED BY <1>3, <1>4, <1>6, <2>1
<1>16. CASE RemoveFinal(c)
  <2>1. /\ Apart /\ UNCHANGED <<temp, back>> /\ final' = Absent /\ pc[c] = "undoing"
        /\ pc'[c] = IF back[c].there THEN "restoring" ELSE "dropping"
    BY <1>5, <1>16 DEF RemoveFinal, At, Move, Goto
  <2> QED BY <1>3, <1>4, <1>6, <2>1
<1>17. CASE RestoreBackup(c)
  <2>1. CASE final.there
    <3>1. Apart /\ UNCHANGED <<final, temp, back>> /\ pc[c] = "restoring" /\ pc'[c] = "dropping"
      BY <1>5, <1>17, <2>1 DEF RestoreBackup, At, Only, Move, Goto
    <3> QED BY <1>3, <1>4, <2>1, <3>1
  <2>2. CASE ~final.there
    <3>1. /\ Apart /\ UNCHANGED temp /\ final' = back[c] /\ back'[c] = Absent
          /\ pc[c] = "restoring" /\ pc'[c] = "dropping"
      BY <1>5, <1>17, <2>2 DEF RestoreBackup, At, Move, Goto
    <3> QED BY <1>3, <1>4, <1>6, <3>1
  <2> QED BY <2>1, <2>2
<1> QED BY <1>7, <1>8, <1>9, <1>10, <1>11, <1>12, <1>13, <1>14, <1>15, <1>16, <1>17 DEF ExtractStep

LEMMA FileFailsSurvives ==
    ASSUME TypeOK, BundleInv, NEW c \in Calls, FileFails(c)
    PROVE  BundleInv'
<1>1. PICK torn \in BOOLEAN :
        /\ torn => pc[c] \in {"discarding", "undoing"}
        /\ back' = [back EXCEPT ![c] = Torn(@, torn /\ At(c, "discarding"))]
        /\ final' = Torn(final, torn /\ At(c, "undoing"))
        /\ had' = [had EXCEPT ![c] = @ /\ pc[c] \notin {"moving", "discarding", "undoing", "restoring"}]
  BY DEF FileFails
<1>2. \A d \in Directories, t \in BOOLEAN :
        Torn(d, t).there = d.there /\ Torn(d, t).whole = (d.whole /\ ~t)
  BY DEF Torn, Directories
<1>3. /\ pc \in [Calls -> Places] /\ temp \in [Calls -> Directories] /\ back \in [Calls -> Directories]
      /\ final \in Directories /\ back[c] \in Directories /\ had \in [Calls -> BOOLEAN]
  BY DEF TypeOK, BundleOK
<1>4. /\ final'.there = final.there /\ final'.whole = (final.whole /\ ~(torn /\ pc[c] = "undoing"))
      /\ back'[c].there = back[c].there /\ back'[c].whole = (back[c].whole /\ ~(torn /\ pc[c] = "discarding"))
      /\ \A d \in Calls \ {c} : back'[d] = back[d] /\ had'[d] = had[d] /\ pc'[d] = pc[d]
      /\ had'[c] => had[c] /\ pc[c] \notin {"moving", "discarding", "undoing", "restoring"}
  <2>1. (torn /\ At(c, "undoing")) \in BOOLEAN /\ (torn /\ At(c, "discarding")) \in BOOLEAN
    OBVIOUS
  <2>2. final'.there = final.there /\ final'.whole = (final.whole /\ ~(torn /\ pc[c] = "undoing"))
    BY <1>1, <1>2, <1>3, <2>1 DEF At
  <2>3. back'[c] = Torn(back[c], torn /\ At(c, "discarding"))
    BY <1>1, <1>3
  <2>4. back'[c].there = back[c].there /\ back'[c].whole = (back[c].whole /\ ~(torn /\ pc[c] = "discarding"))
    BY <1>2, <1>3, <2>1, <2>3 DEF At
  <2>5. \A d \in Calls \ {c} : back'[d] = back[d] /\ had'[d] = had[d] /\ pc'[d] = pc[d]
    BY <1>1, <1>3 DEF FileFails, Goto
  <2>6. had'[c] => had[c] /\ pc[c] \notin {"moving", "discarding", "undoing", "restoring"}
    BY <1>1, <1>3
  <2> QED BY <2>2, <2>4, <2>5, <2>6
<1>5. /\ pc[c] \in Extracting /\ pc[c] # "looking" /\ UNCHANGED <<temp, rom>>
      /\ pc[c] \in {"asked", "making", "dropping"} => pc'[c] = "failed"
      /\ pc[c] \in {"filling", "comparing", "undoing", "restoring"} => pc'[c] = "dropping"
      /\ pc[c] \in {"moving", "promoting", "discarding"} => pc'[c] = "undoing"
  BY <1>3 DEF FileFails, AfterFault, Goto
<1>6. pc[c] \in {"asked", "making", "dropping", "filling", "comparing", "undoing", "restoring", "moving", "promoting",
                 "discarding"}
  BY <1>5 DEF Extracting
<1>7. WholeAreThere'
  BY <1>4, <1>5 DEF BundleInv, WholeAreThere
<1>8. BuildsAreWhole'
  BY <1>4, <1>5, <1>6 DEF BundleInv, BuildsAreWhole
<1>9. \A d \in Calls \ {c} : ~had'[d]
  BY <1>4, <1>5 DEF BundleInv, BackupIsKept
<1>10. ASSUME had'[c]
       PROVE  /\ \A e \in Calls \ {c} : pc'[e] \notin Extracting
              /\ IF pc'[c] \in {"promoting", "undoing", "restoring"} THEN back'[c].whole ELSE final'.whole
              /\ pc'[c] \in {"promoting", "restoring"} => ~final'.there
  <2>1. had[c] /\ pc[c] \in {"asked", "making", "dropping", "filling", "comparing", "promoting"}
    BY <1>4, <1>6, <1>10
  <2>2. /\ \A e \in Calls \ {c} : pc[e] \notin Extracting
        /\ IF pc[c] = "promoting" THEN back[c].whole ELSE final.whole
    BY <2>1 DEF BundleInv, BackupIsKept
  <2> QED BY <1>4, <1>5, <2>1, <2>2
<1> QED BY <1>7, <1>8, <1>9, <1>10 DEF BundleInv, BackupIsKept

\* The steps that extract nothing: they change at most what lies beside the
\* bundle, and a directory they make anew ends what others could count on.
LEMMA BesideSurvives ==
    ASSUME TypeOK, BundleInv, UNCHANGED <<temp, back>>,
           final'.whole = final.whole, final.there => final'.there,
           \A d \in Calls : had'[d] => had[d] /\ final'.there = final.there,
           \A d \in Calls : \/ pc'[d] = pc[d]
                            \/ pc'[d] \notin Extracting /\ (pc[d] \in Extracting => ~had'[d]),
           rom' => rom \/ \A d \in Calls : pc[d] # "comparing"
    PROVE  BundleInv'
<1>1. \A d \in Calls : pc'[d] \in Extracting => pc'[d] = pc[d]
  OBVIOUS
<1>2. WholeAreThere'
  BY DEF BundleInv, WholeAreThere
<1>3. BuildsAreWhole'
  <2> SUFFICES ASSUME NEW d \in Calls, pc'[d] \in {"filling", "comparing", "looking", "moving", "promoting"}
               PROVE  /\ pc'[d] = "filling" => temp'[d].there
                      /\ pc'[d] = "comparing" => temp'[d].whole \/ ~rom'
                      /\ pc'[d] \in {"looking", "moving", "promoting"} => temp'[d].whole
    BY DEF BuildsAreWhole
  <2>1. pc'[d] = pc[d]
    BY <1>1 DEF Extracting
  <2> QED BY <2>1 DEF BundleInv, BuildsAreWhole
<1>4. BackupIsKept'
  <2> SUFFICES ASSUME NEW d \in Calls, had'[d]
               PROVE  /\ \A e \in Calls \ {d} : pc'[e] \notin Extracting
                      /\ IF pc'[d] \in {"promoting", "undoing", "restoring"} THEN back'[d].whole ELSE final'.whole
                      /\ pc'[d] \in {"promoting", "restoring"} => ~final'.there
    BY DEF BackupIsKept
  <2>1. /\ had[d] /\ final'.there = final.there
        /\ \A e \in Calls \ {d} : pc[e] \notin Extracting
        /\ IF pc[d] \in {"promoting", "undoing", "restoring"} THEN back[d].whole ELSE final.whole
        /\ pc[d] \in {"promoting", "restoring"} => ~final.there
    BY DEF BundleInv, BackupIsKept
  <2>2. CASE pc'[d] = pc[d]
    BY <1>1, <2>1, <2>2
  <2>3. CASE pc'[d] # pc[d]
    <3>1. pc'[d] \notin Extracting /\ pc[d] \notin Extracting
      BY <2>3
    <3> QED BY <1>1, <2>1, <3>1 DEF Extracting
  <2> QED BY <2>2, <2>3
<1> QED BY <1>2, <1>3, <1>4 DEF BundleInv

LEMMA OnlySurvives ==
    ASSUME TypeOK, BundleInv, NEW c \in Calls, NEW there \in Places \ Extracting, pc[c] \notin Extracting,
           Only(c, there)
    PROVE  BundleInv'
<1>1. \A d \in Calls : pc'[d] = pc[d] \/ (pc'[d] \notin Extracting /\ pc[d] \notin Extracting)
  BY DEF Only, Move, Goto, TypeOK
<1>2. UNCHANGED <<final, temp, back, rom, had>>
  BY DEF Only, Move
<1> QED BY <1>1, <1>2, BesideSurvives

LEMMA AdjustSurvives ==
    ASSUME TypeOK, BundleInv, NEW c \in Calls, NEW there \in Places \ Extracting, pc[c] \notin Extracting,
           NEW in, Adjust(c, there, in)
    PROVE  BundleInv'
<1>1. \A d \in Calls : pc'[d] = pc[d] \/ (pc'[d] \notin Extracting /\ pc[d] \notin Extracting)
  BY DEF Adjust, Move, Goto, TypeOK
<1>2. UNCHANGED <<temp, back, rom, had>>
  BY DEF Adjust, Move
<1>3. final'.whole = final.whole /\ final'.there = final.there
  BY DEF Adjust, TypeOK, BundleOK, Directories
<1> QED BY <1>1, <1>2, <1>3, BesideSurvives

LEMMA PutSurvives ==
    ASSUME TypeOK, BundleInv, NEW c \in Calls, NEW there \in Places \ Extracting, pc[c] \notin Extracting,
           NEW in, Put(c, there, in)
    PROVE  BundleInv'
<1>1. \A d \in Calls : pc'[d] = pc[d] \/ (pc'[d] \notin Extracting /\ pc[d] \notin Extracting)
  BY DEF Put, Goto, TypeOK
<1>2. UNCHANGED <<temp, back, rom>> /\ \A d \in Calls : had'[d] => had[d] /\ final.there
  BY DEF Put
<1>3. final'.whole = final.whole /\ final'.there
  BY DEF Put, TypeOK, BundleOK, Directories
<1>4. \A d \in Calls : had'[d] => had[d] /\ final'.there = final.there
  BY <1>2, <1>3 DEF TypeOK, BundleOK, Directories
<1> QED BY <1>1, <1>2, <1>3, <1>4, BesideSurvives

LEMMA ComingSurvives ==
    ASSUME TypeOK, BundleInv, NEW c \in Calls,
           BeginExtraction(c) \/ BeginBootstrap(c) \/ BeginInspection(c) \/ Return(c)
    PROVE  BundleInv'
<1>1. CASE BeginExtraction(c)
  BY <1>1, EnterSurvives DEF BeginExtraction, BeginExtract
<1>2. CASE BeginBootstrap(c) \/ BeginInspection(c)
  <2>1. \E there \in {"consulting", "refused", "trusting"} : Only(c, there)
    BY <1>2 DEF BeginBootstrap, BeginInspection
  <2>2. {"consulting", "refused", "trusting"} \subseteq Places \ Extracting /\ "idle" \notin Extracting
    BY DEF Places, Ended, Trusting, Extracting
  <2>3. pc[c] \notin Extracting
    BY <1>2, <2>2 DEF BeginBootstrap, BeginInspection, At
  <2> QED BY <2>1, <2>2, <2>3, OnlySurvives
<1>3. CASE Return(c)
  <2>1. \A d \in Calls : pc'[d] = pc[d] \/ (pc'[d] \notin Extracting /\ pc[d] \notin Extracting)
    BY <1>3 DEF Return, Goto, Ended, Extracting, TypeOK
  <2>2. UNCHANGED <<final, temp, back, rom, had>>
    BY <1>3 DEF Return, Bundle
  <2> QED BY <2>1, <2>2, BesideSurvives
<1> QED BY <1>1, <1>2, <1>3

LEMMA BootstrapSurvives ==
    ASSUME TypeOK, BundleInv, NEW c \in Calls, BootstrapStep(c)
    PROVE  BundleInv'
<1> DEFINE Free == Bootstrapping \cup Started \cup {"refused", "failed", "bootstrapped"}
<1>1. Free \subseteq Places \ Extracting
  BY DEF Places, Bootstrapping, Started, Ended, Extracting
<1>2. pc[c] \notin Extracting
  BY DEF BootstrapStep, Consult, ValidateBundle, BuildBridge, RehashSource, ClearBridge, PlaceBridge, CheckBridge,
         WriteStarting, Launch, EndRun, CheckResult, RecordProcessor, Finish, WriteSuccess, ForgetFailure, ReportFailure,
         At, Extracting
<1>3. CASE Consult(c)
  <2>1. Enter(c) \/ Only(c, "refused")
    BY <1>3 DEF Consult
  <2>2. "refused" \in Free
    OBVIOUS
  <2> QED BY <1>1, <1>2, <2>1, <2>2, EnterSurvives, OnlySurvives
<1>4. CASE BuildBridge(c)
  <2>1. \E in : Put(c, "rehashing", in)
    BY <1>4 DEF BuildBridge
  <2>2. "rehashing" \in Free
    BY DEF Bootstrapping
  <2> QED BY <1>1, <1>2, <2>1, <2>2, PutSurvives
<1>5. CASE RehashSource(c) \/ ClearBridge(c) \/ PlaceBridge(c)
  <2>1. \/ Only(c, "clearing")
        \/ \E there \in {"placing", "rechecking", "failed"} : \E in : Adjust(c, there, in)
    BY <1>5 DEF RehashSource, ClearBridge, PlaceBridge, Unbuild
  <2>2. {"clearing", "placing", "rechecking", "failed"} \subseteq Free
    BY DEF Bootstrapping
  <2> QED BY <1>1, <1>2, <2>1, <2>2, OnlySurvives, AdjustSurvives
<1>6. CASE Launch(c)
  <2>1. Only(c, "reporting") \/ \E in : Adjust(c, "running", in)
    BY <1>6 DEF Launch
  <2>2. {"reporting", "running"} \subseteq Free
    BY DEF Started
  <2> QED BY <1>1, <1>2, <2>1, <2>2, OnlySurvives, AdjustSurvives
<1>7. CASE \/ ValidateBundle(c) \/ CheckBridge(c) \/ WriteStarting(c) \/ EndRun(c) \/ CheckResult(c)
           \/ RecordProcessor(c) \/ Finish(c) \/ WriteSuccess(c) \/ ForgetFailure(c) \/ ReportFailure(c)
  <2>1. \E there \in {"discovering", "failed", "starting", "launching", "checking", "reporting", "recording",
                      "finishing", "succeeding", "settling", "bootstrapped"} : Only(c, there)
    BY <1>7 DEF ValidateBundle, CheckBridge, WriteStarting, EndRun, GhidraEnded, CheckResult, RecordProcessor, Finish,
                WriteSuccess, ForgetFailure, ReportFailure, WriteRun, WriteFailure, Pass, Learn
  <2>2. {"discovering", "failed", "starting", "launching", "checking", "reporting", "recording",
         "finishing", "succeeding", "settling", "bootstrapped"} \subseteq Free
    BY DEF Bootstrapping, Started
  <2> QED BY <1>1, <1>2, <2>1, <2>2, OnlySurvives
<1> QED BY <1>3, <1>4, <1>5, <1>6, <1>7 DEF BootstrapStep

LEMMA InspectionSurvives ==
    ASSUME TypeOK, BundleInv, NEW c \in Calls, InspectionStep(c)
    PROVE  BundleInv'
<1> DEFINE Free == Trusting \cup Requesting \cup {"refused", "failed", "answered"}
<1>1. Free \subseteq Places \ Extracting
  BY DEF Places, Trusting, Requesting, Ended, Extracting
<1>2. pc[c] \notin Extracting
  BY DEF InspectionStep, ReadTrustedState, MatchBridge, VerifySource, WriteRequest, EndInspection, ReadAnswer,
         ConfirmSource, RemoveTransport, At, Extracting
<1>3. CASE WriteRequest(c)
  <2>1. \E in : Put(c, "waiting", in)
    BY <1>3 DEF WriteRequest
  <2>2. "waiting" \in Free
    BY DEF Requesting
  <2> QED BY <1>1, <1>2, <2>1, <2>2, PutSurvives
<1>4. CASE RemoveTransport(c)
  <2>1. \E there \in {"answered", "failed"} : \E in : Adjust(c, there, in)
    BY <1>4 DEF RemoveTransport
  <2> QED BY <1>1, <1>2, <2>1, AdjustSurvives
<1>5. CASE \/ ReadTrustedState(c) \/ MatchBridge(c) \/ VerifySource(c) \/ EndInspection(c) \/ ReadAnswer(c)
           \/ ConfirmSource(c)
  <2>1. \E there \in {"matching", "refused", "hashing", "requesting", "failed", "reading", "removing", "confirming"} :
            Only(c, there)
    BY <1>5 DEF ReadTrustedState, MatchBridge, VerifySource, EndInspection, GhidraEnded, ReadAnswer, ConfirmSource,
                Pass, Learn
  <2>2. {"matching", "refused", "hashing", "requesting", "failed", "reading", "removing", "confirming"} \subseteq Free
    BY DEF Trusting, Requesting
  <2> QED BY <1>1, <1>2, <2>1, <2>2, OnlySurvives
<1> QED BY <1>3, <1>4, <1>5 DEF InspectionStep

\* A run of Ghidra, and what goes wrong outside an extraction.
LEMMA GhidraSurvives ==
    ASSUME TypeOK, BundleInv, NEW c \in Calls, GhidraStep(c) \/ KillGhidra(c)
    PROVE  BundleInv'
<1>1. UNCHANGED <<pc, temp, back, rom, had>>
  BY DEF GhidraStep, OpenProject, CreateMarker, LoadProgram, PrepareProgram, ImportEvidence, RecordAnalysis, SaveProgram,
         InspectProgram, Stop, Quiet, Bundle, KillGhidra
<1>2. final' = final \/ \E in : Within(in)
  BY DEF GhidraStep, OpenProject, CreateMarker, LoadProgram, PrepareProgram, ImportEvidence, RecordAnalysis, SaveProgram,
         InspectProgram, Stop, Quiet, Bundle, KillGhidra
<1>3. final'.whole = final.whole /\ final'.there = final.there
  BY <1>2 DEF Within, TypeOK, BundleOK, Directories
<1> QED BY <1>1, <1>3, BesideSurvives

LEMMA FailingSurvives ==
    ASSUME TypeOK, BundleInv, NEW c \in Calls, OperationFails(c) \/ Crash(c)
    PROVE  BundleInv'
<1>1. CASE OperationFails(c)
  <2>1. /\ \E there \in {"failed", "reporting", "removing"} : Goto(c, there)
        /\ pc[c] \in Bootstrapping \cup Started \cup {"consulting"} \cup Trusting \cup Requesting
    BY <1>1 DEF OperationFails, Started, Requesting
  <2>2. \A d \in Calls : pc'[d] = pc[d] \/ (pc'[d] \notin Extracting /\ pc[d] \notin Extracting)
    BY <2>1 DEF Goto, TypeOK, Bootstrapping, Started, Trusting, Requesting, Extracting
  <2>3. UNCHANGED <<temp, back, rom, had>> /\ \E in : Within(in)
    BY <1>1 DEF OperationFails
  <2>4. final'.whole = final.whole /\ final'.there = final.there
    BY <2>3 DEF Within, TypeOK, BundleOK, Directories
  <2> QED BY <2>2, <2>3, <2>4, BesideSurvives
<1>2. CASE Crash(c)
  <2>1. UNCHANGED <<final, temp, back, rom>> /\ Goto(c, "crashed") /\ had' = [had EXCEPT ![c] = FALSE]
    BY <1>2 DEF Crash
  <2>2. \A d \in Calls : had'[d] => had[d]
    BY <2>1 DEF TypeOK, BundleOK
  <2>3. \A d \in Calls : pc'[d] = pc[d] \/ (pc'[d] \notin Extracting /\ (pc[d] \in Extracting => ~had'[d]))
    BY <2>1 DEF Goto, TypeOK, BundleOK, Extracting
  <2> QED BY <2>1, <2>2, <2>3, BesideSurvives
<1> QED BY <1>1, <1>2

LEMMA RomSurvives ==
    ASSUME TypeOK, BundleInv, ReplaceRom \/ PutRomBack
    PROVE  BundleInv'
<1>1. UNCHANGED <<final, temp, back, pc, had>>
  BY DEF ReplaceRom, PutRomBack
<1>2. rom' => \A d \in Calls : pc[d] # "comparing"
  BY DEF ReplaceRom, PutRomBack, Active, Ended
<1> QED BY <1>1, <1>2, BesideSurvives

\* A call that replaces the bundle, alone or beside calls that do not, and that
\* fails or succeeds, leaves a whole bundle where it found one, for every
\* number of calls and faults (extraction.ts 498 to 523): what was moved aside
\* stays whole until it is restored or what took its place is whole.
THEOREM BundleAlwaysSurvives == Spec => []BundleSurvives
<1>1. Init => BundleInv
  BY DEF Init, BundleInit, BundleInv, WholeAreThere, BuildsAreWhole, BackupIsKept, Absent
<1>2. IInv /\ BundleInv /\ [Next]_vars => BundleInv'
  <2> SUFFICES ASSUME TypeOK, BundleInv, [Next]_vars PROVE BundleInv'
    BY DEF IInv
  <2>1. CASE UNCHANGED vars
    BY <2>1, BesideSurvives DEF vars
  <2>2. ASSUME NEW c \in Calls, ExtractionFails(c) \/ Extract(c) PROVE BundleInv'
    BY <2>2, ExtractSurvives, FileFailsSurvives DEF Extract, ExtractionFails
  <2>3. CASE Next
    BY <2>2, <2>3, ComingSurvives, BootstrapSurvives, InspectionSurvives, GhidraSurvives, FailingSurvives, RomSurvives
       DEF Next
  <2> QED BY <2>1, <2>3
<1>3. BundleInv => BundleSurvives
  BY DEF BundleInv, BackupIsKept, BundleSurvives
<1> QED BY <1>1, <1>2, <1>3, Invariance, PTL DEF Spec

-----------------------------------------------------------------------------
(* What the gate of inspections trusts was analysed under some bridge *)

\* The programs a bridge has been applied to.
Signed == {p \in Processors : program[p].there /\ program[p].manifest # None}
IsSigned(s) == s.there /\ s.manifest # None
\* An inspection past the gate.
Trusted == {"matching", "hashing"} \cup Requesting

\* The project lock: at most one Ghidra has the project open.
OneHolder ==
    \A c, d \in Calls :
        ghidra[c].at \notin {"off", "opening"} /\ ghidra[d].at \notin {"off", "opening"} => c = d
\* The state names only programs that were completed.
StatesAreSigned ==
    /\ run.completed \subseteq Signed /\ success.completed \subseteq Signed
    /\ success.there => success.manifest # None
\* A run of Ghidra does not lose the signature of its program, and what a call
\* is told of as a success is signed.
GhidraSigns(c) ==
    LET g == ghidra[c] IN
    /\ g.at = "preparing" /\ g.processor \in Signed => g.copy.manifest # None
    /\ pc[c] = "running" /\ g.at = "off" /\ g.ok => g.processor \in Signed
    /\ pc[c] = "waiting" => g.mode = "inspect" /\ g.at \in {"off", "opening", "loading", "inspecting"}
    /\ pc[c] = "waiting" /\ (g.at = "inspecting" \/ (g.at = "off" /\ g.ok)) => IsSigned(g.copy)
    /\ pc[c] = "reading" => g.at = "off" /\ IsSigned(g.copy)
\* What a call knows.
CallSigns(c) ==
    /\ job[c].completed \subseteq Signed
    /\ job[c].kind = "bootstrap" => job[c].manifest # None
    /\ pc[c] \in {"consulting"} \cup Bootstrapping \cup Started => job[c].kind = "bootstrap"
    /\ pc[c] = "checking" => job[c].processor \in Signed
    /\ pc[c] \in Trusted => Signed = Processors
    /\ pc[c] \in Trusted \cup {"answered"} => job[c].manifest # None
    /\ job[c].seen.there => job[c].seen.manifest # None
    /\ pc[c] = "answered" => job[c].seen.there
SignedInv == OneHolder /\ StatesAreSigned /\ \A c \in Calls : GhidraSigns(c) /\ CallSigns(c)

\* What holds of a call while it does nothing and the programs stay, or another
\* Ghidra has the project and signs.
LEMMA BystanderSigns ==
    ASSUME TypeOK, NEW d \in Calls, GhidraSigns(d), CallSigns(d), Signed \subseteq Signed',
           ghidra[d].at = "preparing" => Signed' = Signed,
           pc'[d] = pc[d], job'[d] = job[d], ghidra'[d] = ghidra[d]
    PROVE  GhidraSigns(d)' /\ CallSigns(d)'
<1>1. Signed \subseteq Processors /\ Signed' \subseteq Processors
  BY DEF Signed
<1>2. GhidraSigns(d)'
  BY DEF GhidraSigns, IsSigned
<1>3. CallSigns(d)'
  BY <1>1 DEF CallSigns
<1> QED BY <1>2, <1>3

\* A step of a call that leaves the programs and Ghidra alone.
LEMMA CallStepSigns ==
    ASSUME IInv, SignedInv, NEW c \in Calls, NEW there \in Places \ {"running", "waiting", "reading"}, Goto(c, there),
           UNCHANGED <<program, ghidra>>, \A d \in Calls \ {c} : job'[d] = job[d],
           CallSigns(c)', StatesAreSigned'
    PROVE  SignedInv'
<1>1. pc'[c] = there /\ \A d \in Calls \ {c} : pc'[d] = pc[d]
  BY DEF Goto, IInv, TypeOK
<1>2. Signed' = Signed
  BY DEF Signed
<1>3. GhidraSigns(c)'
  BY <1>1, <1>2 DEF SignedInv, GhidraSigns
<1>4. \A d \in Calls \ {c} : GhidraSigns(d)' /\ CallSigns(d)'
  BY <1>1, <1>2, BystanderSigns DEF SignedInv, IInv
<1>5. OneHolder'
  BY DEF SignedInv, OneHolder
<1> QED BY <1>3, <1>4, <1>5 DEF SignedInv

\* The same, with a job and a state that name as much as before.
LEMMA PassSigns ==
    ASSUME IInv, SignedInv, NEW c \in Calls,
           NEW there \in Places \ ({"running", "waiting", "reading", "checking", "answered"} \cup Trusted),
           Goto(c, there), UNCHANGED <<program, ghidra, job, run, success>>,
           there \in {"consulting"} \cup Bootstrapping \cup Started => job[c].kind = "bootstrap"
    PROVE  SignedInv'
<1>1. pc'[c] = there /\ Signed' = Signed
  BY DEF Goto, IInv, TypeOK, Signed
<1>2. CallSigns(c)'
  BY <1>1 DEF SignedInv, CallSigns
<1>3. StatesAreSigned'
  BY <1>1 DEF SignedInv, StatesAreSigned
<1> QED BY <1>2, <1>3, CallStepSigns

LEMMA ComingSigns ==
    ASSUME IInv, SignedInv, NEW c \in Calls,
           BeginExtraction(c) \/ BeginBootstrap(c) \/ BeginInspection(c) \/ Return(c)
    PROVE  SignedInv'
<1>1. UNCHANGED <<program, ghidra, run, success>> /\ Signed' = Signed
  BY DEF BeginExtraction, BeginBootstrap, BeginInspection, Begin, Return, Project, State, Signed
<1>2. StatesAreSigned'
  BY <1>1 DEF SignedInv, StatesAreSigned
<1>3. /\ {"asked", "consulting", "refused", "trusting", "idle"} \subseteq Places \ {"running", "waiting", "reading"}
      /\ {"asked", "refused", "trusting", "idle"}
            \cap (Trusted \cup {"consulting", "checking", "answered"} \cup Bootstrapping \cup Started) = {}
      /\ "consulting" \notin Trusted
  BY DEF Places, Extracting, Ended, Trusting, Trusted, Requesting, Bootstrapping, Started
<1>4. job \in [Calls -> Jobs] /\ pc \in [Calls -> Places]
  BY DEF IInv, TypeOK
<1>5. NoJob.completed = {} /\ NoJob.kind = "extract" /\ ~NoJob.seen.there
  BY DEF NoJob, NoProgram
<1>6. ASSUME NEW there \in {"asked", "consulting", "refused", "trusting", "idle"}, Goto(c, there),
             NEW j, job' = [job EXCEPT ![c] = j], j.completed \subseteq Signed,
             j.kind = "bootstrap" => j.manifest # None, j.seen.there => j.seen.manifest # None,
             there = "consulting" => j.kind = "bootstrap"
      PROVE  SignedInv'
  <2>1. pc'[c] = there /\ job'[c] = j /\ \A d \in Calls \ {c} : job'[d] = job[d]
    BY <1>4, <1>6 DEF Goto
  <2>2. CallSigns(c)'
    BY <1>1, <1>3, <1>6, <2>1 DEF CallSigns
  <2> QED BY <1>1, <1>2, <1>3, <1>6, <2>1, <2>2, CallStepSigns
<1>7. CASE BeginExtraction(c)
  <2>1. Goto(c, "asked") /\ job' = [job EXCEPT ![c] = job[c]]
    BY <1>4, <1>7 DEF BeginExtraction, BeginExtract, Enter
  <2> QED BY <1>6, <2>1 DEF SignedInv, CallSigns
<1>8. CASE BeginBootstrap(c)
  <2>1. PICK m \in Manifests :
            job' = [job EXCEPT ![c] = [NoJob EXCEPT !.kind = "bootstrap", !.manifest = m, !.found = Found]]
    BY <1>8 DEF BeginBootstrap
  <2> DEFINE j == [NoJob EXCEPT !.kind = "bootstrap", !.manifest = m, !.found = Found]
  <2>2. j.kind = "bootstrap" /\ j.manifest = m /\ j.completed = {} /\ ~j.seen.there
    BY <1>5 DEF NoJob
  <2>3. Goto(c, "consulting") \/ Goto(c, "refused")
    BY <1>8 DEF BeginBootstrap, Only, Move
  <2> HIDE DEF j
  <2>4. job' = [job EXCEPT ![c] = j]
    BY <2>1 DEF j
  <2> QED BY <1>6, <2>2, <2>3, <2>4, ManifestsAssumption
<1>9. CASE BeginInspection(c)
  <2>1. PICK p \in Processors : job' = [job EXCEPT ![c] = [NoJob EXCEPT !.kind = "inspect", !.processor = p]]
    BY <1>9 DEF BeginInspection
  <2> DEFINE j == [NoJob EXCEPT !.kind = "inspect", !.processor = p]
  <2>2. j.kind = "inspect" /\ j.completed = {} /\ ~j.seen.there
    BY <1>5 DEF NoJob
  <2>3. Goto(c, "trusting") \/ Goto(c, "refused")
    BY <1>9 DEF BeginInspection, Only, Move
  <2> HIDE DEF j
  <2>4. job' = [job EXCEPT ![c] = j]
    BY <2>1 DEF j
  <2> QED BY <1>6, <2>2, <2>3, <2>4
<1>10. CASE Return(c)
  BY <1>5, <1>6, <1>10 DEF Return
<1> QED BY <1>7, <1>8, <1>9, <1>10

LEMMA ExtractSigns ==
    ASSUME IInv, SignedInv, NEW c \in Calls, Extract(c) \/ ExtractionFails(c)
    PROVE  SignedInv'
<1>1. UNCHANGED <<program, ghidra, run, success, job>>
  BY DEF Extract, ExtractionFails, Project, State
<1>2. \E there \in Extracting \cup {"failed", "extracted"} : Goto(c, there)
  BY ExtractStepTyped, FileFailsTyped DEF IInv, Extract, ExtractionFails, Extracting
<1>3. /\ Extracting \cup {"failed", "extracted"}
           \subseteq Places \ ({"running", "waiting", "reading", "checking", "answered"} \cup Trusted)
      /\ (Extracting \cup {"failed", "extracted"}) \cap ({"consulting"} \cup Bootstrapping \cup Started) = {}
  BY DEF Places, Extracting, Ended, Trusted, Requesting, Bootstrapping, Started
<1> QED BY <1>1, <1>2, <1>3, PassSigns


LEMMA BootstrapSigns ==
    ASSUME IInv, SignedInv, NEW c \in Calls, BootstrapStep(c), ~Launch(c)
    PROVE  SignedInv'
<1> DEFINE Booting == {"discovering", "rehashing", "clearing", "placing", "rechecking", "starting", "launching",
                       "recording", "reporting", "finishing", "succeeding", "settling"}
           Free == {"asked", "refused", "failed", "bootstrapped", "checking"} \cup Booting
<1>1. /\ Free \subseteq Places \ {"running", "waiting", "reading"}
      /\ Free \cap (Trusted \cup {"answered", "consulting"}) = {}
      /\ Booting \cup {"checking"} \subseteq Bootstrapping \cup Started
      /\ {"asked", "refused", "failed", "bootstrapped"} \cap (Bootstrapping \cup Started) = {}
  BY DEF Places, Extracting, Bootstrapping, Started, Ended, Trusted, Requesting
<1>2. /\ job \in [Calls -> Jobs] /\ pc \in [Calls -> Places] /\ job[c] \in Jobs
      /\ job[c].kind = "bootstrap" => job[c].manifest # None
      /\ job[c].completed \subseteq Signed
      /\ job[c].seen.there => job[c].seen.manifest # None
      /\ pc[c] = "checking" => job[c].processor \in Signed
      /\ run.completed \subseteq Signed /\ success.completed \subseteq Signed
      /\ success.there => success.manifest # None
  BY DEF IInv, TypeOK, SignedInv, CallSigns, StatesAreSigned
<1>3. job[c].kind = "bootstrap"
  <2>1. pc[c] \in {"consulting"} \cup Bootstrapping \cup Started \/ (pc[c] = "extracted" /\ Active(c))
    BY DEF BootstrapStep, Consult, ValidateBundle, BuildBridge, RehashSource, ClearBridge, PlaceBridge, CheckBridge,
           WriteStarting, Launch, EndRun, CheckResult, RecordProcessor, Finish, WriteSuccess, ForgetFailure, ReportFailure,
           At, Bootstrapping, Started
  <2> QED BY <2>1 DEF SignedInv, CallSigns, Active, Ended, At
<1>4. UNCHANGED <<program, ghidra>>
  BY DEF BootstrapStep, Consult, ValidateBundle, BuildBridge, RehashSource, ClearBridge, PlaceBridge, CheckBridge,
         WriteStarting, EndRun, GhidraEnded, CheckResult, RecordProcessor, Finish, WriteSuccess, ForgetFailure,
         ReportFailure, WriteRun, WriteFailure, Pass, Learn, Stay, Project
<1>5. ASSUME NEW there \in Free, Goto(c, there), NEW j, job' = [job EXCEPT ![c] = j],
             j.kind = "bootstrap", j.manifest = job[c].manifest, j.completed \subseteq Signed, j.seen = job[c].seen,
             there = "checking" => j.processor \in Signed,
             run'.completed \subseteq Signed, success'.completed \subseteq Signed,
             success'.there => success'.manifest # None
      PROVE  SignedInv'
  <2>1. /\ pc'[c] = there /\ job'[c] = j /\ Signed' = Signed
        /\ \A d \in Calls \ {c} : job'[d] = job[d]
    BY <1>2, <1>4, <1>5 DEF Goto, Signed
  <2>2. CallSigns(c)'
    BY <1>1, <1>2, <1>3, <1>5, <2>1 DEF CallSigns
  <2>3. StatesAreSigned'
    BY <1>5, <2>1 DEF StatesAreSigned
  <2> QED BY <1>1, <1>4, <1>5, <2>1, <2>2, <2>3, CallStepSigns
<1>6. job = [job EXCEPT ![c] = job[c]]
  BY <1>2
<1>7. \A stage \in Stages : /\ RunState(c, stage).completed \subseteq Signed
                            /\ RunState(c, stage).there /\ RunState(c, stage).manifest # None
  BY <1>2, <1>3 DEF RunState
<1> HIDE DEF Free
<1>8. CASE Consult(c)
  <2> DEFINE j == [job[c] EXCEPT !.existing = Prior.existing]
  <2>1. j.kind = job[c].kind /\ j.manifest = job[c].manifest /\ j.completed = job[c].completed /\ j.seen = job[c].seen
    BY <1>2 DEF Jobs
  <2>2. job' = [job EXCEPT ![c] = j] /\ UNCHANGED <<run, success>>
    BY <1>8 DEF Consult, State
  <2>3. Goto(c, "asked") \/ Goto(c, "refused")
    BY <1>8 DEF Consult, Enter, Only, Move
  <2> HIDE DEF j
  <2>4. "asked" \in Free /\ "refused" \in Free
    BY DEF Free
  <2> QED BY <1>2, <1>3, <1>5, <2>1, <2>2, <2>3, <2>4
<1>9. CASE \/ ValidateBundle(c) \/ BuildBridge(c) \/ RehashSource(c) \/ ClearBridge(c) \/ PlaceBridge(c)
           \/ CheckBridge(c) \/ ForgetFailure(c) \/ ReportFailure(c)
  <2>1. \E there \in Free \ {"checking"} : Goto(c, there)
    BY <1>9 DEF ValidateBundle, BuildBridge, RehashSource, ClearBridge, PlaceBridge, CheckBridge, ForgetFailure,
                ReportFailure, WriteFailure, Pass, Unbuild, Put, Adjust, Only, Move, Free
  <2>2. UNCHANGED <<run, success, job>>
    BY <1>9 DEF ValidateBundle, BuildBridge, RehashSource, ClearBridge, PlaceBridge, CheckBridge, ForgetFailure,
                ReportFailure, WriteFailure, Pass, State
  <2> QED BY <1>2, <1>3, <1>5, <1>6, <2>1, <2>2
<1>10. CASE WriteStarting(c) \/ Finish(c) \/ WriteSuccess(c)
  <2>1. \E there \in Free \ {"checking"} : Goto(c, there)
    BY <1>10 DEF WriteStarting, Finish, WriteSuccess, WriteRun, Pass, Only, Move, Free
  <2>2. job' = job
    BY <1>10 DEF WriteStarting, Finish, WriteSuccess, WriteRun, Pass
  <2>3. /\ run' = run \/ \E stage \in Stages : run' = RunState(c, stage)
        /\ success' = success \/ success' = RunState(c, "complete")
    BY <1>10 DEF WriteStarting, Finish, WriteSuccess, WriteRun, Pass, State, Stages
  <2>4. "complete" \in Stages
    BY DEF Stages
  <2> QED BY <1>2, <1>3, <1>5, <1>6, <1>7, <2>1, <2>2, <2>3, <2>4
<1>11. CASE EndRun(c)
  <2>1. UNCHANGED <<run, success, job>>
    BY <1>11 DEF EndRun, GhidraEnded, Pass, State
  <2>2. Goto(c, "reporting") \/ (Goto(c, "checking") /\ ghidra[c].ok)
    BY <1>11 DEF EndRun, GhidraEnded, Pass, Only, Move
  <2>3. ghidra[c].ok => job[c].processor \in Signed
    BY <1>11 DEF EndRun, GhidraEnded, At, SignedInv, GhidraSigns, IInv, RunsAreApt
  <2>4. "checking" \in Free /\ "reporting" \in Free
    BY DEF Free
  <2> QED BY <1>2, <1>3, <1>5, <1>6, <2>1, <2>2, <2>3, <2>4
<1>12. CASE CheckResult(c)
  <2> DEFINE p == job[c].processor
             j == [job[c] EXCEPT !.existing = @ \cup {p}, !.completed = @ \cup {p}]
  <2>1. p \in Signed
    BY <1>2, <1>12 DEF CheckResult, At
  <2>2. /\ j.kind = job[c].kind /\ j.manifest = job[c].manifest /\ j.seen = job[c].seen
        /\ j.completed \subseteq Signed
    BY <1>2, <2>1 DEF Jobs
  <2> HIDE DEF j
  <2>3. job' = [job EXCEPT ![c] = job[c]] \/ job' = [job EXCEPT ![c] = j]
    BY <1>6, <1>12 DEF CheckResult, Learn, Pass, j
  <2>4. Goto(c, "recording") \/ Goto(c, "reporting")
    BY <1>12 DEF CheckResult, Learn, Pass, Only, Move
  <2>5. UNCHANGED <<run, success>>
    BY <1>12 DEF CheckResult, Learn, Pass, State
  <2>6. "recording" \in Free /\ "reporting" \in Free
    BY DEF Free
  <2> QED BY <1>2, <1>3, <1>5, <2>2, <2>3, <2>4, <2>5, <2>6
<1>13. CASE RecordProcessor(c)
  <2> DEFINE j == [job[c] EXCEPT !.processor = "arm7"]
  <2>1. j.kind = job[c].kind /\ j.manifest = job[c].manifest /\ j.completed = job[c].completed /\ j.seen = job[c].seen
    BY <1>2 DEF Jobs
  <2> HIDE DEF j
  <2>2. job' = [job EXCEPT ![c] = j]
    BY <1>13 DEF RecordProcessor, j
  <2>3. Goto(c, "launching") \/ Goto(c, "finishing")
    BY <1>13 DEF RecordProcessor, Only, Move
  <2>4. (\E stage \in Stages : run' = RunState(c, stage)) /\ success' = success
    BY <1>13 DEF RecordProcessor, Stages
  <2>5. "launching" \in Free /\ "finishing" \in Free
    BY DEF Free
  <2> QED BY <1>2, <1>3, <1>5, <1>7, <2>1, <2>2, <2>3, <2>4, <2>5
<1> QED BY <1>8, <1>9, <1>10, <1>11, <1>12, <1>13 DEF BootstrapStep

\* A call that starts Ghidra leaves its programs alone, and holds nothing.
LEMMA StartSigns ==
    ASSUME IInv, SignedInv, NEW c \in Calls, NEW there \in {"running", "waiting"}, Goto(c, there),
           NEW g, ghidra' = [ghidra EXCEPT ![c] = g], g.at = "opening", there = "waiting" => g.mode = "inspect",
           UNCHANGED <<program, job, run, success>>,
           there = "running" => job[c].kind = "bootstrap",
           there = "waiting" => pc[c] \in Trusted
    PROVE  SignedInv'
<1>1. /\ pc'[c] = there /\ \A d \in Calls \ {c} : pc'[d] = pc[d]
      /\ ghidra'[c] = g /\ \A d \in Calls \ {c} : ghidra'[d] = ghidra[d]
  BY DEF Goto, IInv, TypeOK
<1>2. Signed' = Signed
  BY DEF Signed
<1>3. "running" \notin Trusted /\ "waiting" \in Trusted /\ "waiting" \notin {"consulting"} \cup Bootstrapping \cup Started
  BY DEF Trusted, Requesting, Bootstrapping, Started
<1>4. GhidraSigns(c)'
  BY <1>1 DEF GhidraSigns
<1>5. CallSigns(c)'
  BY <1>1, <1>2, <1>3 DEF SignedInv, CallSigns
<1>6. \A d \in Calls \ {c} : GhidraSigns(d)' /\ CallSigns(d)'
  BY <1>1, <1>2, BystanderSigns DEF SignedInv, IInv
<1>7. OneHolder'
  BY <1>1 DEF SignedInv, OneHolder
<1>8. StatesAreSigned'
  BY <1>2 DEF SignedInv, StatesAreSigned
<1> QED BY <1>4, <1>5, <1>6, <1>7, <1>8 DEF SignedInv

LEMMA LaunchSigns ==
    ASSUME IInv, SignedInv, NEW c \in Calls, Launch(c)
    PROVE  SignedInv'
<1>1. UNCHANGED <<run, success, job, program>>
  BY DEF Launch, State, Project
<1>2. job[c].kind = "bootstrap"
  BY DEF Launch, At, SignedInv, CallSigns, Started
<1>3. CASE ~rom
  <2>1. Goto(c, "reporting") /\ UNCHANGED ghidra
    BY <1>3 DEF Launch, Only, Move
  <2>2. "reporting" \in Places \ ({"running", "waiting", "reading", "checking", "answered"} \cup Trusted)
    BY DEF Places, Started, Trusted, Requesting
  <2> QED BY <1>1, <1>2, <2>1, <2>2, PassSigns
<1>4. CASE rom
  <2> DEFINE g == [NoGhidra EXCEPT !.at = "opening", !.processor = job[c].processor,
                                   !.mode = IF job[c].processor \in job[c].existing THEN "process" ELSE "import"]
  <2>1. ghidra' = [ghidra EXCEPT ![c] = g] /\ Goto(c, "running")
    BY <1>4 DEF Launch, Adjust, Move
  <2>2. g.at = "opening"
    BY DEF NoGhidra
  <2> HIDE DEF g
  <2> QED BY <1>1, <1>2, <2>1, <2>2, StartSigns
<1> QED BY <1>3, <1>4

LEMMA WriteRequestSigns ==
    ASSUME IInv, SignedInv, NEW c \in Calls, WriteRequest(c)
    PROVE  SignedInv'
<1> DEFINE g == [NoGhidra EXCEPT !.at = "opening", !.processor = job[c].processor]
<1>1. UNCHANGED <<run, success, job, program>>
  BY DEF WriteRequest, State, Project
<1>2. ghidra' = [ghidra EXCEPT ![c] = g] /\ Goto(c, "waiting")
  BY DEF WriteRequest, Put
<1>3. g.at = "opening" /\ g.mode = "inspect"
  BY DEF NoGhidra
<1>4. pc[c] \in Trusted
  BY DEF WriteRequest, At, Trusted, Requesting
<1> HIDE DEF g
<1> QED BY <1>1, <1>2, <1>3, <1>4, StartSigns

\* The gate admits a project both of whose programs the last success completed.
LEMMA GateSigns ==
    ASSUME IInv, SignedInv, NEW c \in Calls, ReadTrustedState(c)
    PROVE  SignedInv'
<1>1. UNCHANGED <<program, ghidra, run, success>> /\ Signed' = Signed
  BY DEF ReadTrustedState, Learn, Pass, State, Stay, Project, Signed
<1>2. job \in [Calls -> Jobs] /\ job[c] \in Jobs
  BY DEF IInv, TypeOK
<1>3. CASE ~failure /\ Complete(run) /\ Complete(success) /\ run.manifest = success.manifest
  <2> DEFINE j == [job[c] EXCEPT !.manifest = success.manifest]
  <2>1. /\ j.manifest = success.manifest /\ j.completed = job[c].completed /\ j.kind = job[c].kind
        /\ j.seen = job[c].seen
    BY <1>2 DEF Jobs
  <2> HIDE DEF j
  <2>2. job' = [job EXCEPT ![c] = j] /\ Goto(c, "matching")
    BY <1>3 DEF ReadTrustedState, Learn, Only, Move, j
  <2>3. pc'[c] = "matching" /\ job'[c] = j /\ \A d \in Calls \ {c} : job'[d] = job[d]
    BY <1>2, <2>2 DEF Goto, IInv, TypeOK
  <2>4. success.manifest # None /\ Signed = Processors
    BY <1>3 DEF Complete, SignedInv, StatesAreSigned, Signed
  <2>5. "matching" \in Places \ {"running", "waiting", "reading"}
        /\ "matching" \notin {"consulting", "checking", "answered"} \cup Bootstrapping \cup Started
    BY DEF Places, Trusting, Bootstrapping, Started
  <2>6. CallSigns(c)'
    BY <1>1, <2>1, <2>3, <2>4, <2>5 DEF SignedInv, CallSigns
  <2>7. StatesAreSigned'
    BY <1>1 DEF SignedInv, StatesAreSigned
  <2> QED BY <1>1, <2>2, <2>3, <2>5, <2>6, <2>7, CallStepSigns
<1>4. CASE ~(~failure /\ Complete(run) /\ Complete(success) /\ run.manifest = success.manifest)
  <2>1. Goto(c, "refused") /\ UNCHANGED job
    BY <1>4 DEF ReadTrustedState, Pass, Only, Move
  <2>2. /\ "refused" \in Places \ ({"running", "waiting", "reading", "checking", "answered"} \cup Trusted)
        /\ "refused" \notin {"consulting"} \cup Bootstrapping \cup Started
    BY DEF Places, Ended, Trusted, Requesting, Bootstrapping, Started
  <2> QED BY <1>1, <2>1, <2>2, PassSigns
<1> QED BY <1>3, <1>4

LEMMA InspectionSigns ==
    ASSUME IInv, SignedInv, NEW c \in Calls, InspectionStep(c), ~WriteRequest(c), ~ReadTrustedState(c)
    PROVE  SignedInv'
<1>1. UNCHANGED <<program, ghidra, run, success>> /\ Signed' = Signed
  BY DEF InspectionStep, MatchBridge, VerifySource, EndInspection, GhidraEnded, ReadAnswer, ConfirmSource,
         RemoveTransport, Pass, Learn, State, Stay, Project, Signed
<1>2. /\ job \in [Calls -> Jobs] /\ job[c] \in Jobs /\ pc \in [Calls -> Places] /\ ghidra[c] \in Ghidras
      /\ ~NoProgram.there
  BY DEF IInv, TypeOK, NoProgram
<1>3. pc[c] \in Trusted
  BY DEF InspectionStep, MatchBridge, VerifySource, EndInspection, ReadAnswer, ConfirmSource, RemoveTransport, At,
         ReadTrustedState, WriteRequest, Trusted, Requesting
<1>4. StatesAreSigned'
  BY <1>1 DEF SignedInv, StatesAreSigned
<1>5. /\ {"hashing", "requesting", "removing", "confirming"} \subseteq Trusted \ ({"waiting", "reading"})
      /\ "reading" \in Trusted
      /\ Trusted \cap ({"consulting", "checking", "answered"} \cup Bootstrapping \cup Started) = {}
      /\ {"refused", "failed", "answered"}
           \cap (Trusted \cup {"consulting", "checking"} \cup Bootstrapping \cup Started) = {}
      /\ Trusted \cup {"refused", "failed", "answered"} \subseteq Places \ {"running"}
  BY DEF Places, Ended, Trusting, Trusted, Requesting, Bootstrapping, Started
<1>6. ASSUME NEW there \in (Trusted \ {"waiting"}) \cup {"refused", "failed", "answered"}, Goto(c, there),
             NEW j, job' = [job EXCEPT ![c] = j],
             j.kind = job[c].kind, j.manifest = job[c].manifest, j.completed = job[c].completed,
             j.seen.there => j.seen.manifest # None, there = "answered" => j.seen.there
      PROVE  CallSigns(c)' /\ pc'[c] = there /\ \A d \in Calls \ {c} : job'[d] = job[d] /\ pc'[d] = pc[d]
  <2>1. pc'[c] = there /\ job'[c] = j /\ \A d \in Calls \ {c} : job'[d] = job[d] /\ pc'[d] = pc[d]
    BY <1>2, <1>6 DEF Goto
  <2>2. CallSigns(c)'
    BY <1>1, <1>3, <1>5, <1>6, <2>1 DEF SignedInv, CallSigns
  <2> QED BY <2>1, <2>2
<1>7. job = [job EXCEPT ![c] = job[c]] /\ (job[c].seen.there => job[c].seen.manifest # None)
  BY <1>2 DEF SignedInv, CallSigns
<1>8. CASE MatchBridge(c) \/ VerifySource(c)
  <2>1. job' = job /\ \E there \in {"hashing", "refused", "requesting", "failed"} : Goto(c, there)
    BY <1>8 DEF MatchBridge, VerifySource, Pass, Only, Move
  <2>2. {"hashing", "refused", "requesting", "failed"} \subseteq Places \ {"running", "waiting", "reading"}
    BY <1>5
  <2> QED BY <1>1, <1>4, <1>5, <1>6, <1>7, <2>1, <2>2, CallStepSigns
<1>9. CASE EndInspection(c)
  <2>1. job' = job /\ (Goto(c, "removing") \/ (Goto(c, "reading") /\ ghidra[c].ok /\ ghidra[c].at = "off"))
        /\ pc[c] = "waiting"
    BY <1>9 DEF EndInspection, GhidraEnded, Pass, Only, Move, At
  <2>2. CASE Goto(c, "removing")
    BY <1>1, <1>4, <1>5, <1>6, <1>7, <2>1, <2>2, CallStepSigns
  <2>3. CASE Goto(c, "reading") /\ ghidra[c].ok /\ ghidra[c].at = "off"
    <3>1. CallSigns(c)' /\ pc'[c] = "reading" /\ \A d \in Calls \ {c} : job'[d] = job[d] /\ pc'[d] = pc[d]
      BY <1>5, <1>6, <1>7, <2>1, <2>3
    <3>2. GhidraSigns(c)'
      BY <1>1, <2>1, <2>3, <3>1 DEF SignedInv, GhidraSigns, IsSigned
    <3>3. \A d \in Calls \ {c} : GhidraSigns(d)' /\ CallSigns(d)'
      BY <1>1, <3>1, BystanderSigns DEF SignedInv, IInv
    <3>4. OneHolder'
      BY <1>1 DEF SignedInv, OneHolder
    <3> QED BY <1>4, <3>1, <3>2, <3>3, <3>4 DEF SignedInv
  <2> QED BY <2>1, <2>2, <2>3
<1>10. CASE ReadAnswer(c)
  <2> DEFINE j == [job[c] EXCEPT !.seen = ghidra[c].copy]
  <2>1. /\ j.kind = job[c].kind /\ j.manifest = job[c].manifest /\ j.completed = job[c].completed
        /\ j.seen = ghidra[c].copy
    BY <1>2 DEF Jobs
  <2>2. IsSigned(ghidra[c].copy)
    BY <1>10 DEF ReadAnswer, At, SignedInv, GhidraSigns
  <2> HIDE DEF j
  <2>3. \/ job' = [job EXCEPT ![c] = j] /\ Goto(c, "confirming")
        \/ job' = job /\ Goto(c, "removing")
    BY <1>10 DEF ReadAnswer, Learn, Pass, Only, Move, j
  <2> QED BY <1>1, <1>4, <1>5, <1>6, <1>7, <2>1, <2>2, <2>3, CallStepSigns DEF IsSigned
<1>11. CASE ConfirmSource(c)
  <2> DEFINE j == [job[c] EXCEPT !.seen = NoProgram]
  <2>1. /\ j.kind = job[c].kind /\ j.manifest = job[c].manifest /\ j.completed = job[c].completed
        /\ j.seen = NoProgram
    BY <1>2 DEF Jobs
  <2> HIDE DEF j
  <2>2. Goto(c, "removing") /\ (job' = job \/ job' = [job EXCEPT ![c] = j])
    BY <1>11 DEF ConfirmSource, Learn, Pass, Only, Move, j
  <2> QED BY <1>1, <1>2, <1>4, <1>5, <1>6, <1>7, <2>1, <2>2, CallStepSigns
<1>12. CASE RemoveTransport(c)
  <2>1. job' = job /\ (Goto(c, "failed") \/ (Goto(c, "answered") /\ job[c].seen.there))
    BY <1>12 DEF RemoveTransport, Adjust, Move
  <2> QED BY <1>1, <1>4, <1>5, <1>6, <1>7, <2>1, CallStepSigns
<1> QED BY <1>8, <1>9, <1>10, <1>11, <1>12 DEF InspectionStep

\* A step of the Ghidra of a call that keeps every signature and gives one to
\* what it saves.
LEMMA OneGhidraSigns ==
    ASSUME IInv, SignedInv, NEW c \in Calls, UNCHANGED <<pc, job, run, success>>,
           \A d \in Calls \ {c} : ghidra'[d] = ghidra[d],
           Signed \subseteq Signed',
           Signed' # Signed => ghidra[c].at \notin {"off", "opening"},
           ghidra'[c].at \in {"off", "opening"} \/ ghidra[c].at \notin {"off", "opening"}
             \/ \A d \in Calls : ghidra[d].at \in {"off", "opening"},
           pc[c] # "reading",
           GhidraSigns(c)'
    PROVE  SignedInv'
<1>1. OneHolder'
  BY DEF SignedInv, OneHolder
<1>2. ASSUME NEW d \in Calls \ {c} PROVE GhidraSigns(d)' /\ CallSigns(d)'
  <2>1. ghidra[d].at = "preparing" => Signed' = Signed
    BY <1>2 DEF SignedInv, OneHolder
  <2> QED BY <1>2, <2>1, BystanderSigns DEF SignedInv, IInv
<1>3. CallSigns(c)'
  BY DEF SignedInv, CallSigns, Signed
<1>4. StatesAreSigned'
  BY DEF SignedInv, StatesAreSigned
<1> QED BY <1>1, <1>2, <1>3, <1>4 DEF SignedInv

\* A program that is saved is signed if what is saved is, and stays so.
LEMMA SavingSigns ==
    ASSUME IInv, NEW p \in Processors, NEW s \in Programs, s.there, program' = [program EXCEPT ![p] = s],
           p \in Signed => s.manifest # None
    PROVE  Signed \subseteq Signed' /\ (s.manifest # None => p \in Signed')
BY DEF IInv, TypeOK, Signed

LEMMA ScriptFailsSigns ==
    ASSUME IInv, SignedInv, NEW c \in Calls, ScriptFails(c), UNCHANGED <<pc, job, run, success>>,
           ghidra[c].at \in {"preparing", "evidence", "recording"}
    PROVE  SignedInv'
<1>1. ghidra[c] \in Ghidras /\ ghidra[c].processor \in Processors /\ ghidra[c].copy \in Programs /\ ghidra[c].copy.there
  BY GhidraIsTyped DEF IInv, CopiesAreThere
<1>2. ghidra' = [ghidra EXCEPT ![c] = [ghidra[c] EXCEPT !.at = "off", !.ok = FALSE]]
  BY DEF ScriptFails, Exit, Become
<1>3. /\ ghidra'[c].at = "off" /\ ~ghidra'[c].ok /\ ghidra'[c].mode = ghidra[c].mode
      /\ \A d \in Calls \ {c} : ghidra'[d] = ghidra[d]
  BY <1>1, <1>2 DEF Ghidras, IInv, TypeOK
<1>4. PICK saved \in BOOLEAN :
        program' = IF saved THEN [program EXCEPT ![ghidra[c].processor] = ghidra[c].copy] ELSE program
  BY DEF ScriptFails
<1>5. ghidra[c].processor \in Signed => ghidra[c].copy.manifest # None
  BY DEF SignedInv, GhidraSigns, IInv, CopiesAreThere
<1>6. Signed \subseteq Signed'
  BY <1>1, <1>4, <1>5, SavingSigns DEF Signed
<1>7. pc[c] \notin {"waiting", "reading"}
  BY DEF SignedInv, GhidraSigns
<1>8. GhidraSigns(c)'
  BY <1>3, <1>7 DEF GhidraSigns
<1> QED BY <1>3, <1>6, <1>7, <1>8, OneGhidraSigns

LEMMA GhidraStepSigns ==
    ASSUME IInv, SignedInv, NEW c \in Calls, GhidraStep(c)
    PROVE  SignedInv'
<1> DEFINE Others == \A d \in Calls \ {c} : ghidra'[d] = ghidra[d]
           Same == ghidra'[c].processor = ghidra[c].processor /\ ghidra'[c].mode = ghidra[c].mode
           Held == /\ ghidra'[c].at \in {"off", "opening"} \/ ghidra[c].at \notin {"off", "opening"}
                         \/ \A d \in Calls : ghidra[d].at \in {"off", "opening"}
<1>1. ghidra[c] \in Ghidras /\ ghidra \in [Calls -> Ghidras]
  BY DEF IInv, TypeOK
<1>2. UNCHANGED <<pc, job, run, success>>
  BY DEF GhidraStep, OpenProject, CreateMarker, LoadProgram, PrepareProgram, ImportEvidence, RecordAnalysis, SaveProgram,
         InspectProgram, Stop, Quiet, State
<1>3. ASSUME NEW ok \in BOOLEAN, Exit(c, ok)
      PROVE  Others /\ Same /\ ghidra'[c].at = "off" /\ ghidra'[c].ok = ok /\ ghidra'[c].copy = ghidra[c].copy
  BY <1>1, <1>3 DEF Exit, Become, Ghidras
<1>4. ASSUME NEW there, Onward(c, there)
      PROVE  Others /\ Same /\ ghidra'[c].at = there /\ ghidra'[c].copy = ghidra[c].copy
  BY <1>1, <1>4 DEF Onward, Become, Ghidras
<1>5. ASSUME NEW there, NEW s, Carry(c, there, s)
      PROVE  Others /\ Same /\ ghidra'[c].at = there /\ ghidra'[c].copy = s
  BY <1>1, <1>5 DEF Carry, Become, Ghidras
<1>6. ASSUME UNCHANGED program PROVE Signed' = Signed
  BY <1>6 DEF Signed
<1>7. ghidra[c].at # "off"
  BY DEF GhidraStep, OpenProject, CreateMarker, LoadProgram, PrepareProgram, ImportEvidence, RecordAnalysis, SaveProgram,
         InspectProgram, Stop, Runs
<1>8. /\ pc[c] # "reading"
      /\ pc[c] = "waiting" => /\ ghidra[c].mode = "inspect" /\ Signed = Processors
                              /\ ghidra[c].at \in {"opening", "loading", "inspecting"}
                              /\ ghidra[c].at = "inspecting" => IsSigned(ghidra[c].copy)
      /\ pc[c] = "running" => ghidra[c].mode \in {"import", "process"}
      /\ ghidra[c].at = "preparing" /\ ghidra[c].processor \in Signed => ghidra[c].copy.manifest # None
  <2>1. pc[c] = "waiting" => pc[c] \in Trusted
    BY DEF Trusted, Requesting
  <2> QED BY <1>7, <2>1 DEF SignedInv, GhidraSigns, CallSigns, IInv, RunsAreApt
<1>9. CASE OpenProject(c)
  <2>1. \/ Exit(c, FALSE)
        \/ /\ \A d \in Calls : ghidra[d].at \in {"off", "opening"}
           /\ \/ Onward(c, "loading")
              \/ Onward(c, "creating") /\ ~Found
           /\ ghidra[c].mode = "import" \/ Found
    BY <1>9 DEF OpenProject
  <2>2. Signed' = Signed
    BY <1>6, <1>9 DEF OpenProject, Project
  <2>3. /\ Others /\ Same /\ Held
        /\ \/ ghidra'[c].at = "off" /\ ~ghidra'[c].ok
           \/ ghidra'[c].at = "loading"
           \/ ghidra'[c].at = "creating" /\ ghidra[c].mode = "import"
    BY <1>3, <1>4, <2>1
  <2>4. GhidraSigns(c)'
    BY <1>2, <1>8, <2>2, <2>3 DEF GhidraSigns
  <2> QED BY <1>2, <1>8, <2>2, <2>3, <2>4, OneGhidraSigns
<1>10. CASE CreateMarker(c)
  <2>1. \E there \in {"loading", "creating"} : ghidra' = [ghidra EXCEPT ![c] = [ghidra[c] EXCEPT !.at = there]]
    BY <1>10 DEF CreateMarker, Onward, Become
  <2>2. Others /\ Same /\ ghidra'[c].at \in {"loading", "creating"} /\ ghidra[c].at = "creating"
    BY <1>1, <1>10, <2>1 DEF Ghidras, CreateMarker, Runs
  <2>3. Signed' = Signed
    BY <1>6, <1>10 DEF CreateMarker
  <2>4. GhidraSigns(c)'
    BY <1>2, <1>8, <2>2, <2>3 DEF GhidraSigns
  <2> QED BY <1>2, <1>8, <2>2, <2>3, <2>4, OneGhidraSigns
<1>11. CASE LoadProgram(c)
  <2> DEFINE saved == program[ghidra[c].processor]
             s == [saved EXCEPT !.there = TRUE]
  <2>1. Signed' = Signed /\ ghidra[c].at = "loading"
    BY <1>6, <1>11 DEF LoadProgram, Project, Runs
  <2>2. saved \in Programs /\ ghidra[c].processor \in Processors
    BY GhidraIsTyped DEF IInv
  <2>3. CASE saved.there = (ghidra[c].mode = "import")
    <3>1. Exit(c, ghidra[c].mode # "import")
      BY <1>11, <2>3 DEF LoadProgram
    <3>2. Others /\ Same /\ ghidra'[c].at = "off" /\ (ghidra'[c].ok => ~saved.there)
      BY <1>3, <2>3, <3>1
    <3>3. pc[c] \in {"running", "waiting"} => ghidra[c].mode = "import" \/ saved.there
      <4>1. pc[c] = "running" /\ ghidra[c].mode = "process" => ghidra[c].processor \in Saved
        BY DEF IInv, RunsAreApt, JobsAreRight
      <4> QED BY <1>8, <2>2, <4>1 DEF Saved, Signed
    <3>4. pc[c] \in {"running", "waiting"} => ~ghidra'[c].ok
      BY <2>3, <3>2, <3>3
    <3>5. GhidraSigns(c)'
      BY <1>2, <1>8, <3>2, <3>4 DEF GhidraSigns
    <3> QED BY <1>2, <1>8, <2>1, <3>2, <3>5, OneGhidraSigns
  <2>4. CASE saved.there # (ghidra[c].mode = "import")
    <3>1. Carry(c, IF ghidra[c].mode = "inspect" THEN "inspecting" ELSE "preparing", s)
      BY <1>11, <2>4 DEF LoadProgram
    <3>2. s.there /\ s.manifest = saved.manifest
      BY <2>2 DEF Programs
    <3>3. ghidra[c].processor \in Signed => saved.manifest # None
      BY DEF Signed
    <3> HIDE DEF s
    <3>4. /\ Others /\ Same /\ ghidra'[c].copy = s
          /\ ghidra'[c].at = IF ghidra[c].mode = "inspect" THEN "inspecting" ELSE "preparing"
      BY <1>5, <3>1
    <3>5. GhidraSigns(c)'
      BY <1>2, <1>8, <2>1, <2>2, <3>2, <3>3, <3>4 DEF GhidraSigns, IsSigned
    <3> QED BY <1>2, <1>8, <2>1, <3>4, <3>5, OneGhidraSigns
  <2> QED BY <2>3, <2>4
<1>12. CASE PrepareProgram(c)
  <2>1. CASE Inside.bridge # None
    <3>1. Carry(c, "evidence", [ghidra[c].copy EXCEPT !.manifest = Inside.bridge]) /\ UNCHANGED program
          /\ ghidra[c].at = "preparing"
      BY <1>12, <2>1 DEF PrepareProgram, Runs
    <3>2. Others /\ Same /\ ghidra'[c].at = "evidence"
      BY <1>5, <3>1
    <3>3. GhidraSigns(c)'
      BY <1>2, <1>8, <3>1, <3>2 DEF GhidraSigns
    <3> QED BY <1>2, <1>6, <1>8, <3>1, <3>2, <3>3, OneGhidraSigns
  <2>2. CASE ~(Inside.bridge # None)
    BY <1>2, <1>12, <2>2, ScriptFailsSigns DEF PrepareProgram, Runs
  <2> QED BY <2>1, <2>2
<1>13. CASE ImportEvidence(c)
  <2>1. CASE Owned(c)
    <3>1. (\E s : Carry(c, "recording", s)) /\ UNCHANGED program /\ ghidra[c].at = "evidence"
      BY <1>13, <2>1 DEF ImportEvidence, Runs
    <3>2. Others /\ Same /\ ghidra'[c].at = "recording"
      BY <1>5, <3>1
    <3>3. GhidraSigns(c)'
      BY <1>2, <1>8, <3>1, <3>2 DEF GhidraSigns
    <3> QED BY <1>2, <1>6, <1>8, <3>1, <3>2, <3>3, OneGhidraSigns
  <2>2. CASE ~Owned(c)
    BY <1>2, <1>13, <2>2, ScriptFailsSigns DEF ImportEvidence, Runs
  <2> QED BY <2>1, <2>2
<1>14. CASE RecordAnalysis(c)
  <2>1. CASE Owned(c)
    <3>1. Onward(c, "saving") /\ UNCHANGED program /\ ghidra[c].at = "recording"
      BY <1>14, <2>1 DEF RecordAnalysis, Runs
    <3>2. Others /\ Same /\ ghidra'[c].at = "saving"
      BY <1>4, <3>1
    <3>3. GhidraSigns(c)'
      BY <1>2, <1>8, <3>1, <3>2 DEF GhidraSigns
    <3> QED BY <1>2, <1>6, <1>8, <3>1, <3>2, <3>3, OneGhidraSigns
  <2>2. CASE ~Owned(c)
    BY <1>2, <1>14, <2>2, ScriptFailsSigns DEF RecordAnalysis, Runs
  <2> QED BY <2>1, <2>2
<1>15. CASE SaveProgram(c)
  <2>1. /\ ghidra[c].copy \in Programs /\ ghidra[c].copy.there /\ ghidra[c].copy.manifest # None
        /\ ghidra[c].processor \in Processors /\ ghidra[c].at = "saving"
    BY <1>15, GhidraIsTyped DEF SaveProgram, Runs, IInv, CopiesAreThere
  <2>2. Signed \subseteq Signed' /\ ghidra[c].processor \in Signed'
    BY <1>15, <2>1, SavingSigns DEF SaveProgram
  <2>3. Others /\ Same /\ ghidra'[c].at = "off"
    BY <1>3, <1>15 DEF SaveProgram
  <2>4. GhidraSigns(c)'
    BY <1>2, <1>8, <2>1, <2>2, <2>3 DEF GhidraSigns
  <2> QED BY <1>2, <1>8, <2>1, <2>2, <2>3, <2>4, OneGhidraSigns
<1>16. CASE InspectProgram(c)
  <2>1. ghidra[c].mode = "inspect" /\ ghidra[c].at = "inspecting"
    BY <1>16 DEF InspectProgram, Runs, IInv, RunsAreApt
  <2>2. Others /\ Same /\ ghidra'[c].at = "off" /\ ghidra'[c].copy = ghidra[c].copy
    BY <1>3, <1>16 DEF InspectProgram
  <2>3. Signed' = Signed
    BY <1>6, <1>16 DEF InspectProgram, Project
  <2>4. GhidraSigns(c)'
    BY <1>2, <1>8, <2>1, <2>2 DEF GhidraSigns, IsSigned
  <2> QED BY <1>2, <1>8, <2>2, <2>3, <2>4, OneGhidraSigns
<1>17. CASE Stop(c)
  <2>1. Others /\ Same /\ ghidra'[c].at = "off" /\ ~ghidra'[c].ok
    BY <1>3, <1>17 DEF Stop
  <2>2. Signed' = Signed
    BY <1>6, <1>17 DEF Stop, Project
  <2>3. GhidraSigns(c)'
    BY <1>2, <1>8, <2>1 DEF GhidraSigns
  <2> QED BY <1>2, <1>8, <2>1, <2>2, <2>3, OneGhidraSigns
<1> QED BY <1>9, <1>10, <1>11, <1>12, <1>13, <1>14, <1>15, <1>16, <1>17 DEF GhidraStep

LEMMA KillGhidraSigns ==
    ASSUME IInv, SignedInv, NEW c \in Calls, KillGhidra(c)
    PROVE  SignedInv'
<1>1. ghidra' = [ghidra EXCEPT ![c] = [ghidra[c] EXCEPT !.killed = TRUE]] /\ pc[c] \in {"running", "waiting"}
  BY DEF KillGhidra, Become
<1>2. ghidra[c] \in Ghidras /\ ghidra \in [Calls -> Ghidras]
  BY DEF IInv, TypeOK
<1>3. /\ \A d \in Calls \ {c} : ghidra'[d] = ghidra[d]
      /\ ghidra'[c].processor = ghidra[c].processor /\ ghidra'[c].mode = ghidra[c].mode
      /\ ghidra'[c].at = ghidra[c].at /\ ghidra'[c].copy = ghidra[c].copy /\ ghidra'[c].ok = ghidra[c].ok
  BY <1>1, <1>2 DEF Ghidras
<1>4. UNCHANGED <<pc, job, run, success>> /\ Signed' = Signed
  BY DEF KillGhidra, Project, State, Signed
<1>5. GhidraSigns(c)'
  BY <1>3, <1>4 DEF SignedInv, GhidraSigns, IsSigned
<1> QED BY <1>1, <1>3, <1>4, <1>5, OneGhidraSigns

LEMMA FailingSigns ==
    ASSUME IInv, SignedInv, NEW c \in Calls, OperationFails(c) \/ Crash(c)
    PROVE  SignedInv'
<1>1. UNCHANGED <<program, ghidra, run, success>> /\ Signed' = Signed
  BY DEF OperationFails, Crash, Project, State, Signed
<1>2. /\ job \in [Calls -> Jobs] /\ job[c] \in Jobs /\ ~NoProgram.there /\ pc \in [Calls -> Places]
  BY DEF IInv, TypeOK, NoProgram
<1>3. /\ {"failed", "reporting", "removing", "crashed"} \subseteq Places \ {"running", "waiting", "reading"}
      /\ {"failed", "crashed"} \cap (Trusted \cup {"consulting", "checking", "answered"} \cup Bootstrapping \cup Started) = {}
      /\ "reporting" \notin Trusted \cup {"checking", "answered"}
      /\ "removing" \notin {"consulting", "checking", "answered"} \cup Bootstrapping \cup Started
  BY DEF Places, Ended, Started, Requesting, Trusted, Bootstrapping, Trusting
<1>4. \/ Goto(c, "failed") \/ Goto(c, "crashed")
      \/ Goto(c, "reporting") /\ pc[c] \in Started
      \/ Goto(c, "removing") /\ pc[c] \in Trusted
  BY DEF OperationFails, Crash, Trusted, Requesting
<1>5. \E j : /\ job' = [job EXCEPT ![c] = j] /\ j.kind = job[c].kind /\ j.manifest = job[c].manifest
             /\ j.completed = job[c].completed /\ (j.seen.there => j.seen.manifest # None)
  <2>1. CASE OperationFails(c)
    <3> DEFINE j == [job[c] EXCEPT !.seen = NoProgram]
    <3>1. /\ j.kind = job[c].kind /\ j.manifest = job[c].manifest /\ j.completed = job[c].completed
          /\ j.seen = NoProgram
      BY <1>2 DEF Jobs
    <3>2. job' = [job EXCEPT ![c] = j]
      BY <2>1 DEF OperationFails
    <3> HIDE DEF j
    <3> QED BY <1>2, <3>1, <3>2
  <2>2. CASE Crash(c)
    <3>1. job' = [job EXCEPT ![c] = job[c]]
      BY <1>2, <2>2 DEF Crash
    <3> QED BY <3>1 DEF SignedInv, CallSigns
  <2> QED BY <2>1, <2>2
<1>6. /\ job'[c].kind = job[c].kind /\ job'[c].manifest = job[c].manifest
      /\ job'[c].completed = job[c].completed /\ (job'[c].seen.there => job'[c].seen.manifest # None)
      /\ \A d \in Calls \ {c} : job'[d] = job[d]
  BY <1>2, <1>5
<1>7. StatesAreSigned'
  BY <1>1 DEF SignedInv, StatesAreSigned
<1>8. CallSigns(c)'
  <2>1. CASE Goto(c, "failed") \/ Goto(c, "crashed")
    <3>1. pc'[c] \in {"failed", "crashed"}
      BY <1>2, <2>1 DEF Goto
    <3> QED BY <1>1, <1>3, <1>6, <3>1 DEF SignedInv, CallSigns
  <2>2. CASE Goto(c, "reporting") /\ pc[c] \in Started
    <3>1. pc'[c] = "reporting"
      BY <1>2, <2>2 DEF Goto
    <3> QED BY <1>1, <1>3, <1>6, <2>2, <3>1 DEF SignedInv, CallSigns
  <2>3. CASE Goto(c, "removing") /\ pc[c] \in Trusted
    <3>1. pc'[c] = "removing"
      BY <1>2, <2>3 DEF Goto
    <3> QED BY <1>1, <1>3, <1>6, <2>3, <3>1 DEF SignedInv, CallSigns
  <2> QED BY <1>4, <2>1, <2>2, <2>3
<1> QED BY <1>1, <1>3, <1>4, <1>6, <1>7, <1>8, CallStepSigns

LEMMA SignedInvariance == Spec => []SignedInv
<1>1. Init => SignedInv
  <2> SUFFICES ASSUME Init PROVE SignedInv OBVIOUS
  <2>1. OneHolder /\ StatesAreSigned
    BY DEF Init, OneHolder, StatesAreSigned, NoGhidra, NoRun
  <2>2. ASSUME NEW c \in Calls PROVE GhidraSigns(c)
    BY <2>2 DEF Init, BundleInit, GhidraSigns, NoGhidra
  <2>3. ASSUME NEW c \in Calls PROVE CallSigns(c)
    <3>1. job[c] = NoJob /\ pc[c] = "idle"
      BY <2>3 DEF Init, BundleInit
    <3>2. "idle" \notin Trusted \cup {"consulting", "checking", "answered"} \cup Bootstrapping \cup Started
      BY DEF Trusted, Requesting, Bootstrapping, Started
    <3> QED BY <3>1, <3>2 DEF CallSigns, NoJob, NoProgram
  <2> QED BY <2>1, <2>2, <2>3 DEF SignedInv
<1>2. IInv /\ SignedInv /\ [Next]_vars => SignedInv'
  <2> SUFFICES ASSUME IInv, SignedInv, [Next]_vars PROVE SignedInv' OBVIOUS
  <2>1. ASSUME UNCHANGED <<pc, program, run, success, job, ghidra>> PROVE SignedInv'
    <3>1. Signed' = Signed
      BY <2>1 DEF Signed
    <3>2. OneHolder' /\ StatesAreSigned'
      BY <2>1, <3>1 DEF SignedInv, OneHolder, StatesAreSigned
    <3>3. \A d \in Calls : GhidraSigns(d)' /\ CallSigns(d)'
      BY <2>1, <3>1, BystanderSigns DEF SignedInv, IInv
    <3> QED BY <3>2, <3>3 DEF SignedInv
  <2>2. UNCHANGED vars \/ ReplaceRom \/ PutRomBack => UNCHANGED <<pc, program, run, success, job, ghidra>>
    BY DEF vars, ReplaceRom, PutRomBack, Project, State
  <2>3. ASSUME NEW c \in Calls, BootstrapStep(c) \/ InspectionStep(c) PROVE SignedInv'
    BY <2>3, BootstrapSigns, LaunchSigns, InspectionSigns, WriteRequestSigns, GateSigns
  <2> QED BY <2>1, <2>2, <2>3, ComingSigns, ExtractSigns, GhidraStepSigns, KillGhidraSigns, FailingSigns DEF Next
<1> QED BY <1>1, <1>2, Invariance, PTL DEF Spec

\* Whatever failed, died or overlapped before and meanwhile, an inspection that
\* answers has read a program which some bridge of the ROM was applied to.
THEOREM InspectionReadsSigned ==
    Spec => [](\A c \in Calls : At(c, "answered") => job[c].seen.there /\ job[c].seen.manifest \in Manifests)
<1>1. IInv /\ SignedInv => \A c \in Calls : At(c, "answered") => job[c].seen.there /\ job[c].seen.manifest \in Manifests
  BY JobIsTyped DEF IInv, SignedInv, CallSigns, At, Programs, Versions
<1> QED BY <1>1, Invariance, SignedInvariance, PTL

\* Servers of one version make the same bridge of a ROM.
OneVersion == \A m, n \in Manifests : m = n

\* The markers, the state files and the bridge manifest are enough for an
\* inspection to trust the project (ghidra-inspection-readiness.ts 155 to 226)
\* when all servers are of one version, for any number of calls and faults.
THEOREM InspectionIsTrusted == ASSUME OneVersion PROVE Spec => []InspectionSeesTrusted
<1>1. IInv /\ SignedInv => InspectionSeesTrusted
  <2> SUFFICES ASSUME IInv, SignedInv, NEW c \in Calls, At(c, "answered")
               PROVE  job[c].seen.manifest = job[c].manifest
    BY DEF InspectionSeesTrusted
  <2>1. job[c].seen.manifest \in Manifests /\ job[c].manifest \in Manifests
    BY JobIsTyped DEF IInv, SignedInv, CallSigns, At, Programs, Versions
  <2> QED BY <2>1 DEF OneVersion
<1> QED BY <1>1, Invariance, SignedInvariance, PTL

-----------------------------------------------------------------------------
(* A bootstrap that is alone and reports success is true *)

\* A bootstrap that has placed its bridge, and one that is done with Ghidra.
Finished == {"finishing", "succeeding", "settling", "bootstrapped"}
Placed == {"starting", "launching", "running", "checking", "recording"} \cup Finished
\* ... and one that has not called Ghidra yet.
Early == {"consulting", "extracted"} \cup Extracting \cup Bootstrapping

\* Nobody else does anything, nor does a Ghidra nobody waits for.
Solitary(c) ==
    /\ \A e \in Calls \ {c} : ~Active(e) /\ ghidra[e].at = "off"
    /\ ghidra[c].at # "off" => pc[c] \in {"running", "waiting"}
JobIsApt(c) ==
    /\ job[c].kind = "bootstrap" /\ pc[c] \in Early => job[c].processor = "arm9" /\ job[c].completed = {}
    /\ job[c].completed \subseteq job[c].existing
    /\ pc[c] \in Placed => Inside.bridge = job[c].manifest
\* The program a call is about, the one before it and in the end both are of its bridge.
ProgramsAreApt(c) ==
    LET m == job[c].manifest
        p == job[c].processor
        g == ghidra[c] IN
    /\ pc[c] = "running" =>
        /\ g.at \in {"evidence", "recording", "saving"} => g.copy.manifest = m
        /\ g.at = "off" /\ g.ok => program[p].manifest = m
    /\ pc[c] \in {"checking", "recording"} => program[p].manifest = m
    /\ pc[c] = "recording" => p \in job[c].completed
    /\ pc[c] \in Placed /\ p = "arm7" => program["arm9"].manifest = m /\ "arm9" \in job[c].completed
    /\ pc[c] \in Finished => p = "arm7" /\ program["arm7"].manifest = m /\ "arm7" \in job[c].completed
StateIsApt(c) ==
    /\ pc[c] \in {"succeeding", "settling", "bootstrapped"} => run = RunState(c, "complete")
    /\ pc[c] \in {"settling", "bootstrapped"} => success = run
    /\ pc[c] = "bootstrapped" => ~failure
IsApt(c) == JobIsApt(c) /\ ProgramsAreApt(c) /\ StateIsApt(c)
AloneInv ==
    /\ \A c \in Calls : pc[c] = "idle" => job[c] = NoJob
    /\ \A c \in Calls : alone[c] => Solitary(c) /\ IsApt(c)

LEMMA PlacesApart ==
    /\ Early \cap ({"reporting", "launching", "running", "checking", "recording"} \cup Finished) = {}
    /\ Early \cap Placed = {"starting"}
    /\ (Placed \cup Early) \cap ({"idle", "failed", "refused", "crashed", "answered", "reporting"} \cup Trusting \cup Requesting) = {}
    /\ Early \cup Placed \cup {"reporting"} \subseteq Places
BY DEF Early, Placed, Finished, Extracting, Bootstrapping, Trusting, Requesting, Places, Started, Ended

\* While a call acts, only that call may be alone.
LEMMA ActingAlone ==
    ASSUME IInv, AloneInv, NEW c \in Calls, Active(c) \/ ghidra[c].at # "off", UNCHANGED alone, pc'[c] # "idle",
           \A d \in Calls \ {c} : pc'[d] = pc[d] /\ job'[d] = job[d] /\ ghidra'[d] = ghidra[d],
           alone[c] => /\ ghidra'[c].at # "off" => pc'[c] \in {"running", "waiting"}
                       /\ IsApt(c)'
    PROVE  AloneInv'
<1>1. \A d \in Calls \ {c} : ~alone[d]
  BY DEF AloneInv, Solitary
<1>2. \A d \in Calls \ {c} : Active(d)' = Active(d)
  BY DEF Active, At
<1>3. alone[c] => Solitary(c)'
  BY <1>2 DEF AloneInv, Solitary
<1> QED BY <1>1, <1>3 DEF AloneInv

\* A call outside the part of a bootstrap that the invariant is about.
LEMMA AsideIsApt ==
    ASSUME NEW c \in Calls, IsApt(c), pc'[c] \notin Placed \cup Early,
           job'[c].completed \subseteq job'[c].existing
    PROVE  IsApt(c)'
BY DEF IsApt, JobIsApt, ProgramsAreApt, StateIsApt, Placed, Finished

\* A call that is not active and has no Ghidra does none of these steps.
LEMMA OnlyTheActive ==
    ASSUME NEW c \in Calls, Extract(c) \/ BootstrapStep(c) \/ InspectionStep(c) \/ GhidraStep(c)
    PROVE  Active(c) \/ ghidra[c].at # "off"
<1>1. CASE Extract(c)
  <2>1. pc[c] \in Extracting
    BY <1>1 DEF Extract, ExtractStep, AssertSourceIdentity, MakeTemporary, Generate, CompareSource, DropTemporary,
                LookForFinal, MoveAside, Promote, DiscardBackup, RemoveFinal, RestoreBackup, At, Extracting
  <2> QED BY <2>1 DEF Active, Extracting, Ended
<1>2. CASE BootstrapStep(c)
  <2>1. pc[c] \in {"consulting"} \cup Bootstrapping \cup Started \/ Active(c)
    BY <1>2 DEF BootstrapStep, Consult, ValidateBundle, BuildBridge, RehashSource, ClearBridge, PlaceBridge, CheckBridge,
           WriteStarting, Launch, EndRun, CheckResult, RecordProcessor, Finish, WriteSuccess, ForgetFailure, ReportFailure,
           At, Bootstrapping, Started
  <2> QED BY <2>1 DEF Active, Bootstrapping, Started, Ended
<1>3. CASE InspectionStep(c)
  <2>1. pc[c] \in Trusting \cup Requesting
    BY <1>3 DEF InspectionStep, ReadTrustedState, MatchBridge, VerifySource, WriteRequest, EndInspection, ReadAnswer,
           ConfirmSource, RemoveTransport, At, Trusting, Requesting
  <2> QED BY <2>1 DEF Active, Trusting, Requesting, Ended
<1>4. CASE GhidraStep(c)
  BY <1>4 DEF GhidraStep, OpenProject, CreateMarker, LoadProgram, PrepareProgram, ImportEvidence, RecordAnalysis,
         SaveProgram, InspectProgram, Stop, Runs
<1> QED BY <1>1, <1>2, <1>3, <1>4

\* A call begins alone or not, and ends that of the others.
LEMMA BeginningIsApt ==
    ASSUME IInv, AloneInv, NEW c \in Calls, BeginExtraction(c) \/ BeginBootstrap(c) \/ BeginInspection(c)
    PROVE  AloneInv'
<1>1. /\ alone' = [d \in Calls |-> d = c /\ \A e \in Calls \ {c} : ~Active(e) /\ ghidra[e].at = "off"]
      /\ ghidra[c].at = "off" /\ UNCHANGED <<program, run, success, failure, ghidra>> /\ pc[c] = "idle"
  BY DEF BeginExtraction, BeginExtract, BeginBootstrap, BeginInspection, Begin, Project, State, At
<1>2. job \in [Calls -> Jobs] /\ pc \in [Calls -> Places] /\ job[c] = NoJob
  BY <1>1 DEF IInv, TypeOK, AloneInv
<1>3. /\ pc'[c] \in {"asked", "consulting", "refused", "trusting"}
      /\ \A d \in Calls \ {c} : pc'[d] = pc[d] /\ job'[d] = job[d]
  BY <1>2 DEF BeginExtraction, BeginExtract, Enter, BeginBootstrap, BeginInspection, Only, Move, Goto
<1>4. \/ job' = job
      \/ \E m : job' = [job EXCEPT ![c] = [NoJob EXCEPT !.kind = "bootstrap", !.manifest = m, !.found = Found]]
      \/ \E p : job' = [job EXCEPT ![c] = [NoJob EXCEPT !.kind = "inspect", !.processor = p]]
  BY DEF BeginExtraction, BeginBootstrap, BeginInspection
<1>5. job'[c].completed = {} /\ (job'[c].processor = "arm9" \/ job'[c].kind = "inspect")
  <2>1. NoJob.completed = {} /\ NoJob.processor = "arm9"
    BY DEF NoJob
  <2>2. CASE job' = job
    BY <1>2, <2>1, <2>2
  <2>3. CASE \E m : job' = [job EXCEPT ![c] = [NoJob EXCEPT !.kind = "bootstrap", !.manifest = m, !.found = Found]]
    BY <1>2, <2>3 DEF NoJob
  <2>4. CASE \E p : job' = [job EXCEPT ![c] = [NoJob EXCEPT !.kind = "inspect", !.processor = p]]
    BY <1>2, <2>4 DEF NoJob
  <2> QED BY <1>4, <2>2, <2>3, <2>4
<1>6. \A d \in Calls \ {c} : Active(d)' = Active(d)
  BY <1>3 DEF Active, At
<1>7. "asked" \notin Placed /\ "consulting" \notin Placed /\ "refused" \notin Placed /\ "trusting" \notin Placed
  BY DEF Placed, Finished
<1>8. IsApt(c)'
  BY <1>3, <1>5, <1>7 DEF IsApt, JobIsApt, ProgramsAreApt, StateIsApt, Placed, Finished
<1>9. alone'[c] => Solitary(c)'
  BY <1>1, <1>6 DEF Solitary
<1>10. \A d \in Calls \ {c} : ~alone'[d]
  BY <1>1
<1> QED BY <1>2, <1>3, <1>8, <1>9, <1>10 DEF AloneInv

LEMMA ReturnIsApt ==
    ASSUME IInv, AloneInv, NEW c \in Calls, Return(c)
    PROVE  AloneInv'
<1>1. /\ pc'[c] = "idle" /\ job'[c] = NoJob /\ UNCHANGED <<final, program, run, success, failure, ghidra, alone>>
      /\ \A d \in Calls \ {c} : pc'[d] = pc[d] /\ job'[d] = job[d]
      /\ pc[c] \in Ended
  BY DEF Return, Goto, Bundle, Project, State, History, IInv, TypeOK
<1>2. ~Active(c)' /\ \A d \in Calls \ {c} : Active(d)' = Active(d)
  BY <1>1 DEF Active, At
<1>3. ASSUME alone[c] PROVE Solitary(c)' /\ IsApt(c)'
  <2>1. Solitary(c)'
    BY <1>1, <1>2, <1>3 DEF AloneInv, Solitary, Ended
  <2>2. IsApt(c)'
    BY <1>1, <1>3, PlacesApart, AsideIsApt DEF AloneInv, NoJob
  <2> QED BY <2>1, <2>2
<1>4. ASSUME NEW d \in Calls \ {c}, alone[d] PROVE Solitary(d)' /\ IsApt(d)'
  <2>1. Solitary(d)'
    BY <1>1, <1>2, <1>4 DEF AloneInv, Solitary
  <2>2. IsApt(d)'
    BY <1>1, <1>4 DEF AloneInv, IsApt, JobIsApt, ProgramsAreApt, StateIsApt, Inside, RunState
  <2> QED BY <2>1, <2>2
<1> QED BY <1>1, <1>3, <1>4 DEF AloneInv

LEMMA ExtractIsApt ==
    ASSUME IInv, AloneInv, NEW c \in Calls, Extract(c)
    PROVE  AloneInv'
<1>1. UNCHANGED <<ghidra, job, alone>>
  BY DEF Extract, History
<1>2. pc[c] \in Extracting /\ \E there \in Extracting \cup {"failed", "extracted"} : Goto(c, there)
  BY ExtractStepTyped DEF IInv, Extract
<1>3. /\ pc'[c] \in Extracting \cup {"failed", "extracted"}
      /\ \A d \in Calls \ {c} : pc'[d] = pc[d]
  BY <1>2 DEF Goto, IInv, TypeOK
<1>4. (Extracting \cup {"failed", "extracted"}) \cap (Placed \cup {"idle", "running", "waiting"}) = {}
      /\ Extracting \subseteq Early /\ Extracting \cap {"running", "waiting"} = {}
  BY DEF Placed, Finished, Extracting, Early
<1>5. Active(c)
  BY <1>2 DEF Active, Extracting, Ended
<1>6. ASSUME alone[c] PROVE ghidra'[c].at = "off" /\ IsApt(c)'
  <2>1. ghidra[c].at = "off" /\ IsApt(c)
    BY <1>2, <1>4, <1>6 DEF AloneInv, Solitary
  <2>2. IsApt(c)'
    BY <1>1, <1>2, <1>3, <1>4, <2>1 DEF IsApt, JobIsApt, ProgramsAreApt, StateIsApt, Placed, Finished
  <2> QED BY <1>1, <2>1, <2>2
<1> QED BY <1>1, <1>3, <1>4, <1>5, <1>6, ActingAlone

LEMMA InspectionIsApt ==
    ASSUME IInv, AloneInv, NEW c \in Calls, InspectionStep(c)
    PROVE  AloneInv'
<1> DEFINE Free == {"matching", "refused", "hashing", "requesting", "waiting", "reading", "removing", "confirming",
                    "failed", "answered"}
<1>1. /\ job \in [Calls -> Jobs] /\ job[c] \in Jobs /\ pc \in [Calls -> Places] /\ ghidra \in [Calls -> Ghidras]
  BY DEF IInv, TypeOK
<1>2. \E there \in Free : Goto(c, there) /\ (there = "waiting" \/ UNCHANGED ghidra)
  BY DEF InspectionStep, ReadTrustedState, MatchBridge, VerifySource, WriteRequest, EndInspection, GhidraEnded, ReadAnswer,
         ConfirmSource, RemoveTransport, Pass, Learn, Only, Adjust, Move, Put, Stay
<1>3. pc'[c] \in Free /\ \A d \in Calls \ {c} : pc'[d] = pc[d]
  BY <1>1, <1>2 DEF Goto
<1>4. pc'[c] = "waiting" \/ UNCHANGED ghidra
  BY <1>1, <1>2 DEF Goto
<1>5. \A d \in Calls \ {c} : ghidra'[d] = ghidra[d]
  BY <1>1 DEF InspectionStep, ReadTrustedState, MatchBridge, VerifySource, WriteRequest, EndInspection, GhidraEnded,
         ReadAnswer, ConfirmSource, RemoveTransport, Pass, Learn, Stay
<1>6. \/ job' = job
      \/ \E m : job' = [job EXCEPT ![c] = [job[c] EXCEPT !.manifest = m]]
      \/ \E s : job' = [job EXCEPT ![c] = [job[c] EXCEPT !.seen = s]]
  BY DEF InspectionStep, ReadTrustedState, MatchBridge, VerifySource, WriteRequest, EndInspection, GhidraEnded, ReadAnswer,
         ConfirmSource, RemoveTransport, Pass, Learn
<1>7. /\ job'[c].completed = job[c].completed /\ job'[c].existing = job[c].existing
      /\ \A d \in Calls \ {c} : job'[d] = job[d]
  BY <1>1, <1>6 DEF Jobs
<1>8. UNCHANGED alone
  BY DEF InspectionStep, ReadTrustedState, MatchBridge, VerifySource, WriteRequest, EndInspection, GhidraEnded, ReadAnswer,
         ConfirmSource, RemoveTransport, Pass, Learn, Stay, History
<1>9. Free \cap (Placed \cup Early \cup {"idle"}) = {}
  BY PlacesApart DEF Trusting, Requesting
<1>10. Active(c) \/ ghidra[c].at # "off"
  BY OnlyTheActive
<1>11. \/ pc[c] \in Trusting \cup (Requesting \ {"waiting"})
       \/ pc[c] = "waiting" /\ ghidra[c].at = "off" /\ UNCHANGED ghidra
  BY DEF InspectionStep, ReadTrustedState, MatchBridge, VerifySource, WriteRequest, EndInspection, GhidraEnded, ReadAnswer,
         ConfirmSource, RemoveTransport, At, Trusting, Requesting, Pass, Stay
<1>12. ASSUME alone[c] PROVE (ghidra'[c].at # "off" => pc'[c] \in {"running", "waiting"}) /\ IsApt(c)'
  <2>1. Solitary(c) /\ IsApt(c)
    BY <1>12 DEF AloneInv
  <2>2. ghidra[c].at = "off"
    BY <1>11, <2>1 DEF Solitary, Trusting, Requesting
  <2>3. ghidra'[c].at # "off" => pc'[c] = "waiting"
    BY <1>4, <2>2
  <2>4. IsApt(c)'
    BY <1>3, <1>7, <1>9, <2>1, AsideIsApt DEF IsApt, JobIsApt
  <2> QED BY <2>3, <2>4
<1> HIDE DEF Free
<1> QED BY <1>3, <1>5, <1>7, <1>8, <1>9, <1>10, <1>12, ActingAlone

\* The call of a step of a bootstrap is a bootstrap, and its Ghidra has ended if it is alone.
LEMMA BootstrapsOnly ==
    ASSUME SignedInv, NEW c \in Calls, BootstrapStep(c)
    PROVE  /\ job[c].kind = "bootstrap" /\ Active(c)
           /\ pc[c] \in Early \cup Placed \cup {"reporting"}
           /\ alone[c] /\ AloneInv => ghidra[c].at = "off"
<1>1. pc[c] \in {"consulting"} \cup Bootstrapping \cup Started \/ (pc[c] = "extracted" /\ Active(c))
  BY DEF BootstrapStep, Consult, ValidateBundle, BuildBridge, RehashSource, ClearBridge, PlaceBridge, CheckBridge,
         WriteStarting, Launch, EndRun, CheckResult, RecordProcessor, Finish, WriteSuccess, ForgetFailure, ReportFailure,
         At, Bootstrapping, Started
<1>2. job[c].kind = "bootstrap" /\ Active(c)
  BY <1>1 DEF SignedInv, CallSigns, Active, Bootstrapping, Started, Ended, At
<1>3. pc[c] \in Early \cup Placed \cup {"reporting"}
  BY <1>1 DEF Early, Placed, Finished, Bootstrapping, Started
<1>4. pc[c] # "waiting" /\ (pc[c] = "running" => ghidra[c].at = "off")
  <2>1. pc[c] # "waiting"
    BY <1>3 DEF Early, Placed, Finished, Bootstrapping, Extracting
  <2>2. pc[c] = "running" => EndRun(c)
    BY DEF BootstrapStep, Consult, ValidateBundle, BuildBridge, RehashSource, ClearBridge, PlaceBridge, CheckBridge,
         WriteStarting, Launch, CheckResult, RecordProcessor, Finish, WriteSuccess, ForgetFailure, ReportFailure, At
  <2> QED BY <2>1, <2>2 DEF EndRun, GhidraEnded
<1> QED BY <1>2, <1>3, <1>4 DEF AloneInv, Solitary

\* Up to its bridge a bootstrap has done nothing; the bridge it goes on with is its own.
LEMMA BridgingIsApt ==
    ASSUME IInv, SignedInv, NEW c \in Calls, IsApt(c),
           \/ Consult(c) \/ ValidateBundle(c) \/ BuildBridge(c) \/ RehashSource(c) \/ ClearBridge(c) \/ PlaceBridge(c)
           \/ CheckBridge(c)
    PROVE  IsApt(c)' /\ pc'[c] # "idle"
<1>1. /\ job \in [Calls -> Jobs] /\ job[c] \in Jobs /\ pc \in [Calls -> Places]
      /\ job[c].kind = "bootstrap" /\ pc[c] \in Early
  <2>1. pc[c] \in Early
    BY DEF Consult, ValidateBundle, BuildBridge, RehashSource, ClearBridge, PlaceBridge, CheckBridge, At, Early,
           Bootstrapping
  <2> QED BY <2>1, BootstrapsOnly DEF IInv, TypeOK, BootstrapStep
<1>2. job[c].processor = "arm9" /\ job[c].completed = {}
  BY <1>1 DEF IsApt, JobIsApt
<1>3. \/ job' = job
      \/ job' = [job EXCEPT ![c] = [job[c] EXCEPT !.existing = Prior.existing]]
  BY DEF Consult, ValidateBundle, BuildBridge, RehashSource, ClearBridge, PlaceBridge, CheckBridge, Pass
<1>4. job'[c].processor = "arm9" /\ job'[c].completed = {} /\ job'[c].manifest = job[c].manifest
  BY <1>1, <1>2, <1>3 DEF Jobs
<1>5. \/ pc'[c] \in {"asked", "discovering", "rehashing", "clearing", "placing", "rechecking", "refused", "failed"}
      \/ pc'[c] = "starting" /\ Inside.bridge = job[c].manifest /\ UNCHANGED final
  BY <1>1 DEF Consult, ValidateBundle, BuildBridge, RehashSource, ClearBridge, PlaceBridge, CheckBridge, Pass, Only, Move,
              Goto, Enter, Put, Adjust, Unbuild, IInv, TypeOK
<1>6. {"asked", "discovering", "rehashing", "clearing", "placing", "rechecking", "refused", "failed", "idle"} \cap Placed = {}
      /\ "idle" \notin {"asked", "discovering", "rehashing", "clearing", "placing", "rechecking", "refused", "failed"}
  BY DEF Placed, Finished
<1>7. JobIsApt(c)'
  BY <1>4, <1>5, <1>6 DEF JobIsApt, Inside
<1>8. ProgramsAreApt(c)' /\ StateIsApt(c)'
  BY <1>4, <1>5, <1>6 DEF ProgramsAreApt, StateIsApt, Placed, Finished
<1> QED BY <1>5, <1>6, <1>7, <1>8 DEF IsApt

\* The bridge of a bootstrap that has placed it stays while the call does not touch it.
LEMMA RunIsApt ==
    ASSUME IInv, SignedInv, NEW c \in Calls, IsApt(c),
           \/ WriteStarting(c) \/ Launch(c) \/ EndRun(c) \/ CheckResult(c) \/ RecordProcessor(c) \/ Finish(c)
           \/ WriteSuccess(c) \/ ForgetFailure(c) \/ ReportFailure(c)
    PROVE  IsApt(c)' /\ pc'[c] # "idle"
<1>1. /\ job \in [Calls -> Jobs] /\ job[c] \in Jobs /\ pc \in [Calls -> Places] /\ ghidra \in [Calls -> Ghidras]
      /\ job[c].kind = "bootstrap" /\ Inside \in Insides /\ final \in Directories
  BY BootstrapsOnly, InsideIsTyped DEF IInv, TypeOK, BundleOK, BootstrapStep
<1>2. UNCHANGED program
  BY DEF WriteStarting, Launch, EndRun, GhidraEnded, CheckResult, RecordProcessor, Finish, WriteSuccess, ForgetFailure,
         ReportFailure, WriteRun, WriteFailure, Pass, Learn, Stay, Project
<1>3. Inside'.bridge = Inside.bridge
  <2>1. CASE Launch(c)
    <3>1. final' = final \/ \E r : final' = [final EXCEPT !.inside = [Inside EXCEPT !.results = r]]
      BY <1>1, <2>1 DEF Launch, Adjust, Only, Directories
    <3> QED BY <1>1, <3>1 DEF Inside, Insides, Directories
  <2>2. CASE ~Launch(c)
    <3>1. UNCHANGED final
      BY <2>2 DEF WriteStarting, EndRun, GhidraEnded, CheckResult, RecordProcessor, Finish, WriteSuccess, ForgetFailure,
                  ReportFailure, WriteRun, WriteFailure, Pass, Learn, Only
    <3> QED BY <3>1 DEF Inside
  <2> QED BY <2>1, <2>2
<1>5. ASSUME pc'[c] \in {"reporting", "failed"}, job' = job PROVE IsApt(c)' /\ pc'[c] # "idle"
  <2>1. pc'[c] \notin Placed \cup Early
    BY <1>5, PlacesApart
  <2> QED BY <1>5, <2>1, AsideIsApt DEF IsApt, JobIsApt
<1>6. CASE WriteStarting(c)
  <2>1. pc[c] = "starting" /\ pc'[c] = "launching" /\ job' = job
    BY <1>1, <1>6 DEF WriteStarting, WriteRun, Only, Move, Goto, At
  <2>2. pc[c] \in Early \cap Placed /\ pc'[c] \in Placed /\ pc'[c] \notin Early
    BY <2>1, PlacesApart DEF Placed
  <2>3. job[c].processor = "arm9"
    BY <1>1, <2>2 DEF IsApt, JobIsApt
  <2> QED BY <1>3, <2>1, <2>2, <2>3 DEF IsApt, JobIsApt, ProgramsAreApt, StateIsApt, Finished
<1>7. CASE Launch(c)
  <2>1. pc[c] = "launching" /\ job' = job /\ pc'[c] \in {"running", "reporting"}
    BY <1>1, <1>7 DEF Launch, Adjust, Only, Move, Goto, At
  <2>2. pc'[c] = "running" => ghidra'[c].at = "opening"
    BY <1>1, <1>7, <2>1 DEF Launch, Only, Move, Goto, NoGhidra
  <2>3. CASE pc'[c] = "running"
    <3>1. pc[c] \in Placed /\ pc'[c] \in Placed /\ pc'[c] \notin Early
      BY <2>1, <2>3, PlacesApart DEF Placed
    <3> QED BY <1>2, <1>3, <2>1, <2>2, <2>3, <3>1 DEF IsApt, JobIsApt, ProgramsAreApt, StateIsApt, Finished
  <2> QED BY <1>5, <2>1, <2>3
<1>8. CASE EndRun(c)
  <2>1. /\ pc[c] = "running" /\ job' = job /\ pc'[c] \in {"checking", "reporting"}
        /\ pc'[c] = "checking" => ghidra[c].at = "off" /\ ghidra[c].ok
    BY <1>1, <1>8 DEF EndRun, GhidraEnded, Pass, Only, Move, Goto, At
  <2>2. CASE pc'[c] = "checking"
    <3>1. pc[c] \in Placed /\ pc'[c] \in Placed /\ pc'[c] \notin Early
      BY <2>1, <2>2, PlacesApart DEF Placed
    <3> QED BY <1>2, <1>3, <2>1, <2>2, <3>1 DEF IsApt, JobIsApt, ProgramsAreApt, StateIsApt, Finished
  <2> QED BY <1>5, <2>1, <2>2
<1>9. CASE CheckResult(c)
  <2> DEFINE p == job[c].processor
             j == [job[c] EXCEPT !.existing = @ \cup {p}, !.completed = @ \cup {p}]
  <2>1. pc[c] = "checking"
    BY <1>9 DEF CheckResult, At
  <2>2. \/ pc'[c] = "reporting" /\ job' = job
        \/ pc'[c] = "recording" /\ job' = [job EXCEPT ![c] = j]
    BY <1>1, <1>9 DEF CheckResult, Learn, Pass, Only, Move, Goto
  <2>3. CASE pc'[c] = "recording" /\ job' = [job EXCEPT ![c] = j]
    <3>1. /\ job'[c].processor = p /\ job'[c].manifest = job[c].manifest
          /\ job'[c].completed = job[c].completed \cup {p} /\ job'[c].existing = job[c].existing \cup {p}
      BY <1>1, <2>3 DEF Jobs
    <3>2. pc[c] \in Placed /\ pc'[c] \in Placed /\ pc'[c] \notin Early
      BY <2>1, <2>3, PlacesApart DEF Placed
    <3> HIDE DEF j
    <3> QED BY <1>2, <1>3, <2>1, <2>3, <3>1, <3>2 DEF IsApt, JobIsApt, ProgramsAreApt, StateIsApt, Finished
  <2> QED BY <1>5, <2>2, <2>3
<1>10. CASE RecordProcessor(c)
  <2>1. /\ pc[c] = "recording" /\ pc'[c] = IF job[c].processor = "arm9" THEN "launching" ELSE "finishing"
        /\ job' = [job EXCEPT ![c] = [job[c] EXCEPT !.processor = "arm7"]]
    BY <1>1, <1>10 DEF RecordProcessor, Only, Move, Goto, At
  <2>2. /\ job'[c].processor = "arm7" /\ job'[c].manifest = job[c].manifest
        /\ job'[c].completed = job[c].completed /\ job'[c].existing = job[c].existing
    BY <1>1, <2>1 DEF Jobs
  <2>3. pc[c] \in Placed /\ pc'[c] \in Placed /\ pc'[c] \notin Early
    BY <2>1, PlacesApart DEF Placed, Finished
  <2>4. job[c].processor \in {"arm9", "arm7"}
    BY <1>1 DEF Jobs, Processors
  <2> QED BY <1>2, <1>3, <2>1, <2>2, <2>3, <2>4 DEF IsApt, JobIsApt, ProgramsAreApt, StateIsApt, Finished
<1>11. CASE Finish(c) \/ WriteSuccess(c) \/ ForgetFailure(c)
  <2>1. /\ job' = job
        /\ \/ /\ pc[c] = "finishing" /\ pc'[c] = "succeeding"
              /\ run' = RunState(c, "complete")
           \/ pc[c] = "finishing" /\ pc'[c] = "reporting"
           \/ /\ pc[c] = "succeeding" /\ pc'[c] = "settling"
              /\ run' = run /\ success' = RunState(c, "complete")
           \/ /\ pc[c] = "settling" /\ pc'[c] = "bootstrapped"
              /\ run' = run /\ success' = success /\ ~failure'
    BY <1>1, <1>11 DEF Finish, WriteSuccess, ForgetFailure, WriteRun, WriteFailure, Pass, Only, Move, Goto, At
  <2>2. CASE pc'[c] # "reporting"
    <3>1. pc[c] \in Finished /\ pc'[c] \in Finished /\ pc[c] \in Placed /\ pc'[c] \in Placed /\ pc'[c] \notin Early
      BY <2>1, <2>2, PlacesApart DEF Placed, Finished
    <3>2. JobIsApt(c)'
      BY <1>3, <2>1, <3>1 DEF IsApt, JobIsApt
    <3>3. ProgramsAreApt(c)'
      BY <1>2, <2>1, <2>2, <3>1 DEF IsApt, ProgramsAreApt
    <3>4. StateIsApt(c)'
      BY <2>1, <2>2 DEF IsApt, StateIsApt, RunState
    <3> QED BY <3>1, <3>2, <3>3, <3>4, PlacesApart DEF IsApt, Finished
  <2> QED BY <1>5, <2>1, <2>2
<1>12. CASE ReportFailure(c)
  <2>1. pc'[c] = "failed" /\ job' = job
    BY <1>1, <1>12 DEF ReportFailure, WriteFailure, Only, Move, Goto
  <2> QED BY <1>5, <2>1
<1> QED BY <1>6, <1>7, <1>8, <1>9, <1>10, <1>11, <1>12

LEMMA BootstrapIsApt ==
    ASSUME IInv, SignedInv, AloneInv, NEW c \in Calls, BootstrapStep(c)
    PROVE  AloneInv'
<1>1. job \in [Calls -> Jobs] /\ pc \in [Calls -> Places] /\ ghidra \in [Calls -> Ghidras]
  BY DEF IInv, TypeOK
<1>2. \A d \in Calls \ {c} : pc'[d] = pc[d]
  BY <1>1 DEF BootstrapStep, Consult, ValidateBundle, BuildBridge, RehashSource, ClearBridge, PlaceBridge, CheckBridge,
         WriteStarting, Launch, EndRun, GhidraEnded, CheckResult, RecordProcessor, Finish, WriteSuccess, ForgetFailure,
         ReportFailure, WriteRun, WriteFailure, Pass, Learn, Put, Adjust, Unbuild, Enter, Only, Move, Goto
<1>3. \A d \in Calls \ {c} : job'[d] = job[d]
  BY <1>1 DEF BootstrapStep, Consult, ValidateBundle, BuildBridge, RehashSource, ClearBridge, PlaceBridge, CheckBridge,
         WriteStarting, Launch, EndRun, GhidraEnded, CheckResult, RecordProcessor, Finish, WriteSuccess, ForgetFailure,
         ReportFailure, WriteRun, WriteFailure, Pass, Learn
<1>4. UNCHANGED alone
  BY DEF BootstrapStep, Consult, ValidateBundle, BuildBridge, RehashSource, ClearBridge, PlaceBridge, CheckBridge,
         WriteStarting, Launch, EndRun, GhidraEnded, CheckResult, RecordProcessor, Finish, WriteSuccess, ForgetFailure,
         ReportFailure, WriteRun, WriteFailure, Pass, Learn, Stay, History
<1>5. \/ ghidra' = ghidra
      \/ \E g : ghidra' = [ghidra EXCEPT ![c] = g] /\ Goto(c, "running")
  BY DEF BootstrapStep, Consult, ValidateBundle, BuildBridge, RehashSource, ClearBridge, PlaceBridge, CheckBridge,
         WriteStarting, Launch, EndRun, GhidraEnded, CheckResult, RecordProcessor, Finish, WriteSuccess, ForgetFailure,
         ReportFailure, WriteRun, WriteFailure, Pass, Learn, Stay, Adjust, Move
<1>6. \A d \in Calls \ {c} : ghidra'[d] = ghidra[d]
  BY <1>1, <1>5
<1>7. ghidra' = ghidra \/ pc'[c] = "running"
  BY <1>1, <1>5 DEF Goto
<1>8. Active(c) /\ (alone[c] => ghidra[c].at = "off")
  BY BootstrapsOnly
<1>9. ASSUME alone[c] PROVE IsApt(c)' /\ pc'[c] # "idle"
  BY <1>9, BridgingIsApt, RunIsApt DEF AloneInv, BootstrapStep
<1>10. pc'[c] # "idle"
  BY <1>1 DEF BootstrapStep, Consult, ValidateBundle, BuildBridge, RehashSource, ClearBridge, PlaceBridge, CheckBridge,
         WriteStarting, Launch, EndRun, GhidraEnded, CheckResult, RecordProcessor, Finish, WriteSuccess, ForgetFailure,
         ReportFailure, WriteRun, WriteFailure, Pass, Learn, Put, Adjust, Unbuild, Enter, Only, Move, Goto
<1>11. alone[c] => (ghidra'[c].at # "off" => pc'[c] \in {"running", "waiting"})
  BY <1>7, <1>8
<1> QED BY <1>2, <1>3, <1>4, <1>6, <1>8, <1>9, <1>10, <1>11, ActingAlone

\* What Ghidra does for a call that nobody disturbs: it leaves the bridge, prepares the program
\* of its call under it, and saves that program only.
LEMMA GhidraIsApt ==
    ASSUME IInv, SignedInv, AloneInv, NEW c \in Calls, GhidraStep(c)
    PROVE  AloneInv'
<1> DEFINE g == ghidra[c]
           p == g.processor
           m == job[c].manifest
<1>1. /\ ghidra[c] \in Ghidras /\ ghidra \in [Calls -> Ghidras] /\ Inside \in Insides /\ final \in Directories
      /\ p \in Processors /\ g.copy \in Programs /\ program \in [Processors -> Programs]
  BY GhidraIsTyped, InsideIsTyped DEF IInv, TypeOK, BundleOK
<1>2. UNCHANGED <<pc, job, run, success, failure, alone>>
  BY DEF GhidraStep, OpenProject, CreateMarker, LoadProgram, PrepareProgram, ImportEvidence, RecordAnalysis, SaveProgram,
         InspectProgram, Stop, Quiet, State, History
<1>3. Inside'.bridge = Inside.bridge
  <2>1. \/ final' = final
        \/ \E r : final' = [final EXCEPT !.inside = [Inside EXCEPT !.results = r]]
        \/ \E r : final' = [final EXCEPT !.inside = [Inside EXCEPT !.answers = r]]
    BY DEF GhidraStep, OpenProject, CreateMarker, LoadProgram, PrepareProgram, ImportEvidence, RecordAnalysis, SaveProgram,
           InspectProgram, Stop, Quiet, Bundle, Within
  <2> QED BY <1>1, <2>1 DEF Inside, Insides, Directories
<1>4. /\ g.at # "off" /\ (alone[c] => pc[c] \in {"running", "waiting"})
      /\ pc[c] # "idle" \/ ~alone[c]
  BY DEF AloneInv, Solitary, GhidraStep, OpenProject, CreateMarker, LoadProgram, PrepareProgram, ImportEvidence,
         RecordAnalysis, SaveProgram, InspectProgram, Stop, Runs
<1>5. \E h : ghidra' = [ghidra EXCEPT ![c] = h]
  BY DEF GhidraStep, OpenProject, CreateMarker, LoadProgram, PrepareProgram, ImportEvidence, RecordAnalysis, SaveProgram,
         InspectProgram, Stop, ScriptFails, Exit, Carry, Onward, Become
<1>6. \A d \in Calls \ {c} : ghidra'[d] = ghidra[d]
  BY <1>1, <1>5
<1>7. program' = program \/ program' = [program EXCEPT ![p] = g.copy]
  BY DEF GhidraStep, OpenProject, CreateMarker, LoadProgram, PrepareProgram, ImportEvidence, RecordAnalysis, SaveProgram,
         InspectProgram, Stop, ScriptFails, Project
<1>8. ASSUME alone[c] PROVE IsApt(c)'
  <2>1. IsApt(c)
    BY <1>8 DEF AloneInv
  <2>2. CASE pc[c] = "waiting"
    <3>1. pc'[c] \notin Placed \cup Early /\ pc'[c] \in Requesting
      BY <1>2, <2>2 DEF Placed, Finished, Early, Extracting, Bootstrapping, Requesting
    <3> QED BY <1>2, <2>1, <3>1, AsideIsApt DEF IsApt, JobIsApt
  <2>3. CASE pc[c] = "running"
    <3>1. /\ p = job[c].processor /\ g.mode \in {"import", "process"}
          /\ g.mode = "process" => p \in Saved
      BY <2>3 DEF IInv, RunsAreApt, JobsAreRight
    <3>2. Inside.bridge = m /\ pc[c] \in Placed /\ pc[c] \notin Early \cup Finished
      BY <2>1, <2>3, PlacesApart DEF IsApt, JobIsApt, Placed, Finished
    <3>3. g.at \in {"evidence", "recording", "saving"} => g.copy.manifest = m
      BY <2>1, <2>3 DEF IsApt, ProgramsAreApt
    <3>4. \A q \in Processors \ {p} : program'[q] = program[q]
      BY <1>1, <1>7
    <3>5. /\ ghidra'[c].at \in {"evidence", "recording", "saving"} => ghidra'[c].copy.manifest = m
          /\ ghidra'[c].at = "off" /\ ghidra'[c].ok => program'[p].manifest = m
      <4>1. CASE OpenProject(c) \/ CreateMarker(c) \/ Stop(c)
        <5>1. \/ Exit(c, FALSE)
              \/ \E there \in {"loading", "creating"} : Onward(c, there)
          BY <4>1 DEF OpenProject, CreateMarker, Stop
        <5>2. Exit(c, FALSE) => ghidra'[c].at = "off" /\ ~ghidra'[c].ok
          BY <1>1 DEF Exit, Become, Ghidras
        <5>3. ASSUME NEW there \in {"loading", "creating"}, Onward(c, there) PROVE ghidra'[c].at = there
          BY <1>1, <5>3 DEF Onward, Become, Ghidras
        <5> QED BY <5>1, <5>2, <5>3
      <4>2. CASE LoadProgram(c)
        <5>1. CASE program[p].there = (g.mode = "import")
          <6>1. Exit(c, g.mode # "import")
            BY <4>2, <5>1 DEF LoadProgram
          <6>2. g.mode = "import"
            BY <3>1, <5>1 DEF Saved
          <6> QED BY <1>1, <6>1, <6>2 DEF Exit, Become, Ghidras
        <5>2. CASE program[p].there # (g.mode = "import")
          <6>1. Carry(c, "preparing", [program[p] EXCEPT !.there = TRUE])
            BY <3>1, <4>2, <5>2 DEF LoadProgram
          <6> QED BY <1>1, <6>1 DEF Carry, Become, Ghidras
        <5> QED BY <5>1, <5>2
      <4>3. CASE PrepareProgram(c)
        <5>1. [g.copy EXCEPT !.manifest = Inside.bridge].manifest = m
          BY <1>1, <3>2 DEF Programs
        <5>2. \/ \E s : s.manifest = m /\ Carry(c, "evidence", s)
              \/ Exit(c, FALSE)
          BY <4>3, <5>1 DEF PrepareProgram, ScriptFails
        <5>3. ASSUME NEW s, s.manifest = m, Carry(c, "evidence", s)
              PROVE  ghidra'[c].at = "evidence" /\ ghidra'[c].copy = s
          BY <1>1, <5>3 DEF Carry, Become, Ghidras
        <5>4. Exit(c, FALSE) => ghidra'[c].at = "off" /\ ~ghidra'[c].ok
          BY <1>1 DEF Exit, Become, Ghidras
        <5> QED BY <5>2, <5>3, <5>4
      <4>4. CASE ImportEvidence(c)
        <5>1. g.at = "evidence" => \A e : [g.copy EXCEPT !.evidence = e].manifest = m
          BY <1>1, <3>3 DEF Programs
        <5>2. \/ \E s : s.manifest = m /\ Carry(c, "recording", s)
              \/ Exit(c, FALSE)
          BY <4>4, <5>1 DEF ImportEvidence, ScriptFails, Runs
        <5>3. ASSUME NEW s, s.manifest = m, Carry(c, "recording", s)
              PROVE  ghidra'[c].at = "recording" /\ ghidra'[c].copy = s
          BY <1>1, <5>3 DEF Carry, Become, Ghidras
        <5>4. Exit(c, FALSE) => ghidra'[c].at = "off" /\ ~ghidra'[c].ok
          BY <1>1 DEF Exit, Become, Ghidras
        <5> QED BY <5>2, <5>3, <5>4
      <4>5. CASE RecordAnalysis(c)
        <5>1. g.at = "recording" /\ (Onward(c, "saving") \/ Exit(c, FALSE))
          BY <4>5 DEF RecordAnalysis, ScriptFails, Runs
        <5>2. Exit(c, FALSE) => ghidra'[c].at = "off" /\ ~ghidra'[c].ok
          BY <1>1 DEF Exit, Become, Ghidras
        <5>3. Onward(c, "saving") => ghidra'[c].at = "saving" /\ ghidra'[c].copy = g.copy
          BY <1>1 DEF Onward, Become, Ghidras
        <5> QED BY <3>3, <5>1, <5>2, <5>3
      <4>6. CASE SaveProgram(c)
        <5>1. g.at = "saving" /\ Exit(c, TRUE) /\ program' = [program EXCEPT ![p] = g.copy]
          BY <4>6 DEF SaveProgram, Runs
        <5> QED BY <1>1, <3>3, <5>1 DEF Exit, Become, Ghidras
      <4>7. CASE InspectProgram(c)
        BY <3>1, <4>7 DEF InspectProgram, Runs, IInv, RunsAreApt
      <4> QED BY <4>1, <4>2, <4>3, <4>4, <4>5, <4>6, <4>7 DEF GhidraStep
    <3>6. ghidra'[c].processor = p
      <4>1. \/ \E ok : Exit(c, ok)
            \/ \E there : Onward(c, there)
            \/ \E there, s : Carry(c, there, s)
        BY DEF GhidraStep, OpenProject, CreateMarker, LoadProgram, PrepareProgram, ImportEvidence, RecordAnalysis,
               SaveProgram, InspectProgram, Stop, ScriptFails
      <4> QED BY <1>1, <4>1 DEF Exit, Carry, Onward, Become, Ghidras
    <3>7. JobIsApt(c)'
      BY <1>2, <1>3, <2>1 DEF IsApt, JobIsApt
    <3>8. ProgramsAreApt(c)'
      <4>1. p = "arm7" => program'["arm9"] = program["arm9"]
        BY <3>4 DEF Processors
      <4> HIDE DEF g, p, m
      <4> QED BY <1>2, <2>1, <2>3, <3>1, <3>2, <3>5, <4>1 DEF IsApt, ProgramsAreApt, g, p, m
    <3>9. StateIsApt(c)'
      BY <1>2, <2>3 DEF StateIsApt
    <3> QED BY <3>7, <3>8, <3>9 DEF IsApt
  <2> QED BY <1>4, <1>8, <2>2, <2>3
<1>9. pc[c] = "idle" => ~alone[c]
  BY <1>4
<1>10. \A d \in Calls \ {c} : ~alone[d]
  BY <1>4 DEF AloneInv, Solitary
<1>11. alone[c] => Solitary(c)'
  <2>1. \A d \in Calls \ {c} : Active(d)' = Active(d)
    BY <1>2 DEF Active, At
  <2> QED BY <1>2, <1>4, <1>6, <2>1 DEF AloneInv, Solitary
<1> HIDE DEF g, p, m
<1> QED BY <1>2, <1>8, <1>10, <1>11 DEF AloneInv

\* What goes wrong leaves nobody alone, and the ROM comes back.
LEMMA TroubleIsApt ==
    ASSUME IInv, AloneInv,
           \/ \E c \in Calls : KillGhidra(c) \/ ExtractionFails(c) \/ OperationFails(c) \/ Crash(c)
           \/ ReplaceRom
    PROVE  AloneInv'
<1>1. /\ alone \in [Calls -> BOOLEAN] /\ job \in [Calls -> Jobs] /\ pc \in [Calls -> Places]
  BY DEF IInv, TypeOK
<1>2. alone' = [c \in Calls |-> FALSE]
  BY DEF KillGhidra, ExtractionFails, OperationFails, Crash, ReplaceRom, Fault, Trouble
<1>3. \A d \in Calls : pc'[d] = "idle" => pc[d] = "idle" /\ job'[d] = job[d]
  <2>1. CASE \E c \in Calls : KillGhidra(c) \/ ExtractionFails(c)
    <3>1. PICK c \in Calls : KillGhidra(c) \/ ExtractionFails(c)
      BY <2>1
    <3>2. UNCHANGED job
      BY <3>1 DEF KillGhidra, ExtractionFails
    <3>3. CASE KillGhidra(c)
      BY <3>2, <3>3 DEF KillGhidra
    <3>4. CASE ExtractionFails(c)
      <4>1. \E there \in {"failed", "dropping", "undoing"} : Goto(c, there)
        BY <3>4, FileFailsTyped DEF IInv, ExtractionFails
      <4> QED BY <1>1, <3>2, <4>1 DEF Goto
    <3> QED BY <3>1, <3>3, <3>4
  <2>2. CASE \E c \in Calls : OperationFails(c) \/ Crash(c)
    <3>1. PICK c \in Calls : OperationFails(c) \/ Crash(c)
      BY <2>2
    <3>2. pc'[c] \in {"failed", "reporting", "removing", "crashed"} /\ \A d \in Calls \ {c} : pc'[d] = pc[d] /\ job'[d] = job[d]
      BY <1>1, <3>1 DEF OperationFails, Crash, Goto
    <3> QED BY <3>2
  <2>3. CASE ReplaceRom
    BY <2>3 DEF ReplaceRom
  <2> QED BY <2>1, <2>2, <2>3
<1> QED BY <1>2, <1>3 DEF AloneInv

\* What no step of a call's touches.
LEMMA BesideIsApt ==
    ASSUME AloneInv, UNCHANGED <<final, pc, program, run, success, failure, job, ghidra, alone>>
    PROVE  AloneInv'
BY DEF AloneInv, Solitary, Active, At, IsApt, JobIsApt, ProgramsAreApt, StateIsApt, Inside, RunState

LEMMA AloneInvariance == Spec => []AloneInv
<1>1. Init => AloneInv
  BY DEF Init, BundleInit, AloneInv
<1>2. IInv /\ SignedInv /\ AloneInv /\ [Next]_vars => AloneInv'
  <2> SUFFICES ASSUME IInv, SignedInv, AloneInv, [Next]_vars PROVE AloneInv' OBVIOUS
  <2>1. CASE UNCHANGED vars
    BY <2>1, BesideIsApt DEF vars
  <2>2. CASE PutRomBack
    BY <2>2, BesideIsApt DEF PutRomBack, Project, State, History
  <2>3. CASE Next
    BY <2>2, <2>3, BeginningIsApt, ReturnIsApt, ExtractIsApt, BootstrapIsApt, InspectionIsApt, GhidraIsApt, TroubleIsApt
       DEF Next
  <2> QED BY <2>1, <2>3
<1> QED BY <1>1, <1>2, Invariance, SignedInvariance, PTL DEF Spec

\* A bootstrap that reports success while no other call is active and nothing fails has left both
\* programs, both state files and the bridge at its manifest and no failure, whatever earlier
\* calls and faults left it to start from (ghidra-project.ts 494 to 640).
THEOREM BootstrapAloneIsTrue == Spec => []BootstrapIsTrue
<1>1. IInv /\ AloneInv => BootstrapIsTrue
  <2> SUFFICES ASSUME IInv, AloneInv, NEW c \in Calls, At(c, "bootstrapped"), alone[c]
               PROVE  /\ \A p \in Processors : program[p].manifest = job[c].manifest
                      /\ Complete(run) /\ run = success /\ run.manifest = job[c].manifest
                      /\ Inside.bridge = job[c].manifest /\ ~failure
    BY DEF BootstrapIsTrue
  <2>1. IsApt(c) /\ pc[c] = "bootstrapped" /\ pc[c] \in Finished \cap Placed
    BY DEF AloneInv, At, Finished, Placed
  <2>2. Inside.bridge = job[c].manifest /\ job[c].completed \subseteq job[c].existing
    BY <2>1 DEF IsApt, JobIsApt
  <2>3. /\ program["arm9"].manifest = job[c].manifest /\ program["arm7"].manifest = job[c].manifest
        /\ {"arm9", "arm7"} \subseteq job[c].completed
    BY <2>1 DEF IsApt, ProgramsAreApt
  <2>4. run = RunState(c, "complete") /\ success = run /\ ~failure
    BY <2>1 DEF IsApt, StateIsApt
  <2>5. job[c].existing = Processors /\ job[c].completed = Processors
    BY <2>2, <2>3, JobIsTyped DEF IInv, Processors
  <2> QED BY <2>2, <2>3, <2>4, <2>5 DEF Complete, RunState, Processors
<1> QED BY <1>1, Invariance, AloneInvariance, PTL
-----------------------------------------------------------------------------
(* A bootstrap that is alone succeeds, unless an import was cut short *)

\* The markers and the programs are what the state names.
Settled ==
    /\ Found <=> Prior.existing # {}
    /\ markers = {} <=> Prior.existing = {}
    /\ Saved = Prior.existing
\* Until the state names both programs, only inspections are active beside a bootstrap.
Sole ==
    \A c, d \in Calls :
        c # d /\ Active(c) /\ Active(d) /\ job[c].kind = "bootstrap" /\ job[d].kind # "inspect" =>
            Prior.existing = Processors
\* An import is about a program the state does not name yet: until Ghidra creates
\* the project nothing has changed, and what it saves will be recorded.
HasSaved(c) == pc[c] \in {"checking", "recording"} \/ (ghidra[c].at = "off" /\ ghidra[c].ok)
ImportIsTidy(c) ==
    LET g == ghidra[c]
        p == job[c].processor IN
    /\ g.processor = p /\ p \notin Prior.existing /\ ~g.killed
    /\ IF HasSaved(c) THEN Found /\ Saved = Prior.existing \cup {p}
       ELSE IF g.at \in {"off", "opening"} THEN Settled
       ELSE /\ Saved = Prior.existing
            /\ IF g.at = "creating" THEN Saved = {} ELSE Found
    /\ g.at = "saving" \/ (HasSaved(c) /\ pc[c] # "recording") => Inside.results[p] = job[c].manifest
    /\ g.at \in {"evidence", "recording", "saving"} => g.copy.manifest = job[c].manifest
\* A bootstrap believes of the programs what the state does.
CallIsTidy(c) ==
    LET p == job[c].processor IN
    /\ Active(c) /\ job[c].kind = "bootstrap" /\ pc[c] \notin {"consulting", "recording", "reporting"} =>
        job[c].existing = Prior.existing
    /\ pc[c] = "recording" => job[c].existing = Prior.existing \cup {p}
    /\ pc[c] \in {"running", "checking", "recording"} => ghidra[c].mode = "import" \/ p \in Prior.existing
    /\ pc[c] \in Placed \ Finished /\ Prior.existing # Processors => Inside.bridge = job[c].manifest
    /\ pc[c] \in Extracting => job[c].kind # "inspect"
    /\ pc[c] \in Trusting \cup Requesting => job[c].kind = "inspect"
\* Only a run that a bootstrap waits for imports, and any other finds its program.
GhidraIsTidy(c) ==
    LET g == ghidra[c] IN
    g.at # "off" =>
        /\ g.mode = "import" => pc[c] = "running"
        /\ g.mode = "process" => g.processor \in Prior.existing
        /\ g.at = "creating" => g.mode = "import"
        /\ g.at \in {"preparing", "evidence", "recording", "saving"} => g.mode # "inspect"
Tidy ==
    /\ Sole
    /\ \A c \in Calls : CallIsTidy(c) /\ GhidraIsTidy(c)
    /\ \A c \in Calls : Importing(c) => ImportIsTidy(c)
    /\ (\A c \in Calls : ~Importing(c)) => Settled
\* Where a bootstrap goes while nothing disturbs it.
GoesWell(c) ==
    LET g == ghidra[c]
        p == job[c].processor
        m == job[c].manifest IN
    /\ rom
    /\ pc[c] \notin {"failed", "refused", "reporting", "dropping", "undoing", "restoring"}
    /\ pc[c] = "consulting" => job[c].found = Found
    /\ pc[c] = "filling" => temp[c].there
    /\ pc[c] \in {"comparing", "looking", "moving", "promoting"} => temp[c].there /\ temp[c].whole
    /\ pc[c] = "moving" => final.there
    /\ pc[c] = "promoting" => ~final.there
    /\ pc[c] \in {"discarding", "extracted", "discovering", "rehashing", "clearing", "placing", "rechecking"} =>
        final.there /\ final.whole
    /\ pc[c] \in {"rehashing", "clearing", "placing"} => c \in Inside.unfinished
    /\ pc[c] = "placing" => Inside.bridge = None
    /\ pc[c] = "rechecking" => Inside.bridge = m
    /\ pc[c] = "running" => ~g.killed /\ (g.at = "off" => g.ok)
    /\ pc[c] = "checking" \/ (pc[c] = "running" /\ g.at \in {"saving", "off"}) => Inside.results[p] = m
    /\ pc[c] = "checking" \/ (pc[c] = "running" /\ g.at \notin {"opening", "creating"}) => Found
RetryInv ==
    ~orphaned => Tidy /\ \A c \in Calls : alone[c] /\ job[c].kind = "bootstrap" => GoesWell(c)

\* What the four variables the state is read from leave alone.
LEMMA PriorStays ==
    /\ UNCHANGED <<run, success>> => Prior' = Prior
    /\ UNCHANGED markers => Found' = Found
    /\ UNCHANGED program => Saved' = Saved
    /\ UNCHANGED final => Inside' = Inside
BY DEF Prior, Found, Saved, Inside

LEMMA SoleStays ==
    ASSUME Tidy, NEW c \in Calls, Prior'.existing = Prior.existing,
           \A d \in Calls \ {c} : pc'[d] = pc[d] /\ job'[d] = job[d],
           job'[c].kind = job[c].kind, Active(c)' => Active(c)
    PROVE  Sole'
<1>1. \A d \in Calls : /\ job'[d].kind = job[d].kind
                       /\ Active(d)' => Active(d)
  BY DEF Active, At
<1> QED BY <1>1 DEF Tidy, Sole

\* While a call does what has nothing to do with an import, the others stay tidy.
LEMMA OthersStayTidy ==
    ASSUME IInv, SignedInv, Tidy, NEW c \in Calls, UNCHANGED markers, Saved' = Saved, Prior'.existing = Prior.existing,
           \A d \in Calls \ {c} : pc'[d] = pc[d] /\ job'[d] = job[d] /\ ghidra'[d] = ghidra[d],
           Sole', ~Importing(c), ~Importing(c)', CallIsTidy(c)', GhidraIsTidy(c)',
           Prior.existing # Processors /\ (\E d \in Calls \ {c} : pc[d] \in Placed \ Finished) =>
               /\ Inside'.bridge = Inside.bridge
               /\ \A q \in Processors \ Prior.existing : Inside'.results[q] = Inside.results[q]
    PROVE  Tidy'
<1>1. Found' = Found /\ Settled' = Settled
  BY PriorStays DEF Settled
<1>2. \A d \in Calls \ {c} : Active(d)' = Active(d) /\ Importing(d)' = Importing(d) /\ HasSaved(d)' = HasSaved(d)
  BY DEF Active, At, Importing, HasSaved
<1>3. ASSUME NEW d \in Calls \ {c} PROVE CallIsTidy(d)' /\ GhidraIsTidy(d)'
  <2>1. CallIsTidy(d) /\ GhidraIsTidy(d)
    BY DEF Tidy
  <2>2. CallIsTidy(d)'
    BY <1>2, <2>1 DEF CallIsTidy
  <2>3. GhidraIsTidy(d)'
    BY <2>1 DEF GhidraIsTidy
  <2> QED BY <2>2, <2>3
<1>4. ASSUME NEW d \in Calls \ {c}, Importing(d) PROVE ImportIsTidy(d)'
  <2>1. ImportIsTidy(d) /\ pc[d] \in {"running", "checking", "recording"}
    BY <1>4 DEF Tidy, Importing
  <2>2. job[d].processor \in Processors \ Prior.existing
    BY <2>1, JobIsTyped DEF ImportIsTidy, IInv
  <2>3. pc[d] \in Placed \ Finished
    BY <2>1 DEF Placed, Finished
  <2>4. Inside'.bridge = Inside.bridge /\ Inside'.results[job[d].processor] = Inside.results[job[d].processor]
    BY <2>2, <2>3
  <2> QED BY <1>1, <1>2, <2>1, <2>4 DEF ImportIsTidy
<1>5. (\A d \in Calls : ~Importing(d)') => Settled'
  BY <1>1, <1>2 DEF Tidy
<1> QED BY <1>2, <1>3, <1>4, <1>5 DEF Tidy

\* Until both programs are named a bootstrap decides alone what becomes of the project.
LEMMA ImporterIsTidy ==
    ASSUME IInv, SignedInv, Tidy, NEW c \in Calls, Prior.existing # Processors,
           \A d \in Calls \ {c} : pc'[d] = pc[d] /\ job'[d] = job[d] /\ ghidra'[d] = ghidra[d],
           Active(c), job[c].kind = "bootstrap", Prior.existing \subseteq Prior'.existing,
           CallIsTidy(c)', GhidraIsTidy(c)',
           IF Importing(c)' THEN ImportIsTidy(c)' ELSE Settled'
    PROVE  Tidy' /\ \A d \in Calls \ {c} : ~Importing(d)
<1>1. \A d \in Calls \ {c} : Active(d) => job[d].kind = "inspect"
  BY DEF Tidy, Sole
<1>2. \A d \in Calls \ {c} : Active(d)' = Active(d)
  BY DEF Active, At
<1>3. \A d \in Calls \ {c} : pc[d] \notin Started
  BY <1>1 DEF Active, Started, Ended, SignedInv, CallSigns
<1>4. {"running", "checking", "recording"} \subseteq Started /\ Placed \ Finished \subseteq Started \cup {"starting"}
  BY DEF Started, Placed, Finished
<1>5. \A d \in Calls \ {c} : pc[d] # "starting"
  BY <1>1 DEF Active, Bootstrapping, Ended, SignedInv, CallSigns
<1>6. \A d \in Calls \ {c} : ~Importing(d) /\ ~Importing(d)'
  BY <1>3, <1>4 DEF Importing
<1>7. ASSUME NEW d \in Calls \ {c} PROVE CallIsTidy(d)' /\ GhidraIsTidy(d)'
  <2>1. CallIsTidy(d) /\ GhidraIsTidy(d)
    BY DEF Tidy
  <2>2. CallIsTidy(d)'
    BY <1>1, <1>2, <1>3, <1>4, <1>5, <2>1 DEF CallIsTidy
  <2>3. GhidraIsTidy(d)'
    BY <2>1 DEF GhidraIsTidy
  <2> QED BY <2>2, <2>3
<1>8. Sole'
  BY <1>1, <1>2 DEF Sole
<1> QED BY <1>6, <1>7, <1>8 DEF Tidy

LEMMA InspectionIsTidy ==
    ASSUME IInv, SignedInv, Tidy, NEW c \in Calls, InspectionStep(c)
    PROVE  Tidy'
<1> DEFINE Free == {"matching", "refused", "hashing", "requesting", "waiting", "reading", "removing", "confirming",
                    "failed", "answered"}
<1>1. /\ job \in [Calls -> Jobs] /\ job[c] \in Jobs /\ pc \in [Calls -> Places] /\ ghidra \in [Calls -> Ghidras]
      /\ final \in Directories /\ Inside \in Insides
  BY InsideIsTyped DEF IInv, TypeOK, BundleOK
<1>2. pc[c] \in Trusting \cup Requesting /\ job[c].kind = "inspect" /\ Active(c)
  <2>1. pc[c] \in Trusting \cup Requesting
    BY DEF InspectionStep, ReadTrustedState, MatchBridge, VerifySource, WriteRequest, EndInspection, ReadAnswer,
           ConfirmSource, RemoveTransport, At, Trusting, Requesting
  <2> QED BY <2>1 DEF Tidy, CallIsTidy, Active, Trusting, Requesting, Ended
<1>3. \E there \in Free : Goto(c, there)
  BY DEF InspectionStep, ReadTrustedState, MatchBridge, VerifySource, WriteRequest, EndInspection, GhidraEnded, ReadAnswer,
         ConfirmSource, RemoveTransport, Pass, Learn, Only, Adjust, Move, Put, Stay
<1>4. pc'[c] \in Free /\ \A d \in Calls \ {c} : pc'[d] = pc[d]
  BY <1>1, <1>3 DEF Goto
<1>5. \/ job' = job
      \/ \E m : job' = [job EXCEPT ![c] = [job[c] EXCEPT !.manifest = m]]
      \/ \E s : job' = [job EXCEPT ![c] = [job[c] EXCEPT !.seen = s]]
  BY DEF InspectionStep, ReadTrustedState, MatchBridge, VerifySource, WriteRequest, EndInspection, GhidraEnded, ReadAnswer,
         ConfirmSource, RemoveTransport, Pass, Learn
<1>6. job'[c].kind = job[c].kind /\ \A d \in Calls \ {c} : job'[d] = job[d]
  BY <1>1, <1>5 DEF Jobs
<1>7. \/ ghidra' = ghidra
      \/ ghidra' = [ghidra EXCEPT ![c] = [NoGhidra EXCEPT !.at = "opening", !.processor = job[c].processor]]
  BY DEF InspectionStep, ReadTrustedState, MatchBridge, VerifySource, WriteRequest, EndInspection, GhidraEnded, ReadAnswer,
         ConfirmSource, RemoveTransport, Pass, Learn, Stay
<1>8. /\ \A d \in Calls \ {c} : ghidra'[d] = ghidra[d]
      /\ ghidra'[c] = ghidra[c] \/ (ghidra'[c].at = "opening" /\ ghidra'[c].mode = "inspect")
  BY <1>1, <1>7 DEF NoGhidra
<1>9. UNCHANGED <<markers, program, run, success>>
  BY DEF InspectionStep, ReadTrustedState, MatchBridge, VerifySource, WriteRequest, EndInspection, GhidraEnded, ReadAnswer,
         ConfirmSource, RemoveTransport, Pass, Learn, Stay, Project, State
<1>10. Inside'.bridge = Inside.bridge /\ Inside'.results = Inside.results
  <2>1. \/ final' = final
        \/ \E r, a : final' = [final EXCEPT !.there = TRUE, !.inside = [Inside EXCEPT !.requests = r, !.answers = a]]
        \/ \E r, a : final' = [final EXCEPT !.inside = IF final.there THEN [Inside EXCEPT !.requests = r, !.answers = a]
                                                      ELSE @]
    BY DEF InspectionStep, ReadTrustedState, MatchBridge, VerifySource, WriteRequest, EndInspection, GhidraEnded,
           ReadAnswer, ConfirmSource, RemoveTransport, Pass, Learn, Only, Put, Adjust
  <2>2. final \in Directories /\ Inside \in Insides
    BY <1>1 DEF Inside, Directories
  <2>3. CASE final' = final
    BY <2>3 DEF Inside
  <2>4. ASSUME NEW r, NEW a, final' = [final EXCEPT !.there = TRUE, !.inside = [Inside EXCEPT !.requests = r, !.answers = a]]
        PROVE  Inside'.bridge = Inside.bridge /\ Inside'.results = Inside.results
    <3>1. Inside' = [Inside EXCEPT !.requests = r, !.answers = a]
      BY <2>2, <2>4 DEF Inside, Directories
    <3> QED BY <2>2, <3>1 DEF Insides
  <2>5. ASSUME NEW r, NEW a,
               final' = [final EXCEPT !.inside = IF final.there THEN [Inside EXCEPT !.requests = r, !.answers = a] ELSE @]
        PROVE  Inside'.bridge = Inside.bridge /\ Inside'.results = Inside.results
    <3>1. Inside' = Inside \/ Inside' = [Inside EXCEPT !.requests = r, !.answers = a]
      BY <2>2, <2>5 DEF Inside, Directories
    <3> QED BY <2>2, <3>1 DEF Insides
  <2> QED BY <2>1, <2>3, <2>4, <2>5
<1>11. pc'[c] \notin Extracting \cup Started \cup Placed /\ pc[c] \notin Started
  BY <1>2, <1>4 DEF Extracting, Started, Placed, Finished, Trusting, Requesting
<1>12. CallIsTidy(c)' /\ GhidraIsTidy(c)'
  <2>1. CallIsTidy(c) /\ GhidraIsTidy(c)
    BY DEF Tidy
  <2>2. CallIsTidy(c)'
    BY <1>2, <1>6, <1>11 DEF CallIsTidy, Started
  <2>3. GhidraIsTidy(c)'
    BY <1>8, <1>9, <1>11, <2>1, PriorStays DEF GhidraIsTidy, Started
  <2> QED BY <2>2, <2>3
<1>13. ~Importing(c) /\ ~Importing(c)'
  BY <1>11 DEF Importing, Started
<1>14. Prior'.existing = Prior.existing /\ Saved' = Saved
  BY <1>9, PriorStays
<1>15. Sole'
  BY <1>2, <1>4, <1>6, <1>14, SoleStays
<1> HIDE DEF Free
<1> QED BY <1>4, <1>6, <1>8, <1>9, <1>10, <1>12, <1>13, <1>14, <1>15, OthersStayTidy

\* A call that rebuilds the bundle before both programs are named has no bootstrap beside it.
LEMMA NobodyPlaced ==
    ASSUME SignedInv, Tidy, NEW c \in Calls, Active(c), job[c].kind # "inspect", Prior.existing # Processors
    PROVE  \A d \in Calls \ {c} : pc[d] \notin Placed \ Finished
<1> SUFFICES ASSUME NEW d \in Calls \ {c}, pc[d] \in Placed \ Finished PROVE FALSE
  OBVIOUS
<1>1. pc[d] \in Bootstrapping \cup Started
  BY DEF Placed, Finished, Bootstrapping, Started
<1>2. Active(d) /\ job[d].kind = "bootstrap"
  BY <1>1 DEF SignedInv, CallSigns, Active, Bootstrapping, Started, Ended
<1> QED BY <1>2 DEF Tidy, Sole

LEMMA ExtractIsTidy ==
    ASSUME IInv, SignedInv, Tidy, NEW c \in Calls, Extract(c) \/ ExtractionFails(c)
    PROVE  Tidy'
<1>1. UNCHANGED <<markers, program, run, success, job, ghidra>>
  BY DEF Extract, ExtractionFails, Project, State
<1>2. pc[c] \in Extracting /\ \E there \in Extracting \cup {"failed", "extracted"} : Goto(c, there)
  BY ExtractStepTyped, FileFailsTyped DEF IInv, Extract, ExtractionFails, FileFails, Extracting
<1>3. pc'[c] \in Extracting \cup {"failed", "extracted"} /\ \A d \in Calls \ {c} : pc'[d] = pc[d]
  BY <1>2 DEF Goto, IInv, TypeOK
<1>4. Active(c) /\ job[c].kind # "inspect"
  BY <1>2 DEF Active, Extracting, Ended, Tidy, CallIsTidy
<1>5. Prior'.existing = Prior.existing /\ Saved' = Saved
  BY <1>1, PriorStays
<1>6. (Extracting \cup {"failed", "extracted"}) \cap ({"running", "checking", "recording", "consulting", "reporting"}
                                                       \cup Placed \cup Trusting \cup Requesting) = {}
  BY DEF Extracting, Placed, Finished, Trusting, Requesting
<1>7. CallIsTidy(c)' /\ GhidraIsTidy(c)'
  <2>1. CallIsTidy(c) /\ GhidraIsTidy(c)
    BY DEF Tidy
  <2>2. CallIsTidy(c)'
    BY <1>1, <1>2, <1>3, <1>4, <1>5, <1>6, <2>1 DEF CallIsTidy
  <2>3. GhidraIsTidy(c)'
    BY <1>1, <1>2, <1>5, <1>6, <2>1 DEF GhidraIsTidy
  <2> QED BY <2>2, <2>3
<1>8. ~Importing(c) /\ ~Importing(c)'
  BY <1>2, <1>3, <1>6 DEF Importing
<1>9. Sole'
  BY <1>1, <1>3, <1>4, <1>5, SoleStays
<1> QED BY <1>1, <1>3, <1>4, <1>5, <1>7, <1>8, <1>9, NobodyPlaced, OthersStayTidy

\* What a call is when it begins.
LEMMA BeginsAs ==
    ASSUME IInv, AloneInv, NEW c \in Calls, BeginExtraction(c) \/ BeginBootstrap(c) \/ BeginInspection(c)
    PROVE  /\ pc[c] = "idle" /\ ghidra[c].at = "off" /\ rom /\ UNCHANGED <<markers, program, run, success, ghidra>>
           /\ \A d \in Calls \ {c} : pc'[d] = pc[d] /\ job'[d] = job[d]
           /\ \/ BeginExtraction(c) /\ pc'[c] = "asked" /\ job'[c].kind = "extract"
              \/ /\ BeginBootstrap(c) /\ job'[c].kind = "bootstrap" /\ job'[c].found = Found
                 /\ pc'[c] = IF Found \/ markers = {} THEN "consulting" ELSE "refused"
              \/ BeginInspection(c) /\ pc'[c] \in {"trusting", "refused"} /\ job'[c].kind = "inspect"
           /\ ~orphaned' => ~orphaned /\ ~Collides(job'[c].kind)
           /\ Inside' = Inside
<1>1. pc[c] = "idle" /\ ghidra[c].at = "off" /\ rom /\ UNCHANGED <<markers, program, run, success, ghidra, final>>
  BY DEF BeginExtraction, BeginExtract, BeginBootstrap, BeginInspection, Begin, Enter, Only, Project, State, At
<1>2. job \in [Calls -> Jobs] /\ pc \in [Calls -> Places] /\ job[c] = NoJob
  BY <1>1 DEF IInv, TypeOK, AloneInv
<1>3. \A d \in Calls \ {c} : pc'[d] = pc[d] /\ job'[d] = job[d]
  BY <1>2 DEF BeginExtraction, BeginExtract, Enter, BeginBootstrap, BeginInspection, Only, Move, Goto
<1>4. CASE BeginExtraction(c)
  <2>1. pc'[c] = "asked" /\ job' = job /\ NoJob.kind = "extract"
    BY <1>2, <1>4 DEF BeginExtraction, BeginExtract, Enter, Goto, NoJob
  <2>2. ~orphaned' => ~orphaned /\ ~Collides("extract")
    BY <1>4 DEF BeginExtraction, Begin
  <2> QED BY <1>1, <1>2, <1>3, <1>4, <2>1, <2>2, PriorStays
<1>5. CASE BeginBootstrap(c)
  <2>1. PICK m : job' = [job EXCEPT ![c] = [NoJob EXCEPT !.kind = "bootstrap", !.manifest = m, !.found = Found]]
    BY <1>5 DEF BeginBootstrap
  <2>2. job'[c].kind = "bootstrap" /\ job'[c].found = Found
    BY <1>2, <2>1 DEF NoJob
  <2>3. pc'[c] = IF Found \/ markers = {} THEN "consulting" ELSE "refused"
    BY <1>2, <1>5 DEF BeginBootstrap, Only, Move, Goto
  <2>4. ~orphaned' => ~orphaned /\ ~Collides("bootstrap")
    BY <1>5 DEF BeginBootstrap, Begin
  <2> QED BY <1>1, <1>3, <1>5, <2>2, <2>3, <2>4, PriorStays
<1>6. CASE BeginInspection(c)
  <2>1. PICK p : job' = [job EXCEPT ![c] = [NoJob EXCEPT !.kind = "inspect", !.processor = p]]
    BY <1>6 DEF BeginInspection
  <2>2. job'[c].kind = "inspect"
    BY <1>2, <2>1 DEF NoJob
  <2>3. pc'[c] \in {"trusting", "refused"}
    BY <1>2, <1>6 DEF BeginInspection, Only, Move, Goto
  <2>4. ~orphaned' => ~orphaned /\ ~Collides("inspect")
    BY <1>6 DEF BeginInspection, Begin
  <2> QED BY <1>1, <1>3, <1>6, <2>2, <2>3, <2>4, PriorStays
<1> QED BY <1>4, <1>5, <1>6

LEMMA BeginningIsTidy ==
    ASSUME IInv, SignedInv, AloneInv, Tidy, ~orphaned', NEW c \in Calls,
           BeginExtraction(c) \/ BeginBootstrap(c) \/ BeginInspection(c)
    PROVE  Tidy'
<1>1. /\ pc[c] = "idle" /\ ghidra[c].at = "off" /\ UNCHANGED <<markers, program, run, success, ghidra>>
      /\ \A d \in Calls \ {c} : pc'[d] = pc[d] /\ job'[d] = job[d]
      /\ ~Collides(job'[c].kind) /\ Inside' = Inside
      /\ \/ pc'[c] = "asked" /\ job'[c].kind = "extract"
         \/ pc'[c] \in {"consulting", "refused"}
         \/ pc'[c] = "trusting" /\ job'[c].kind = "inspect"
  BY BeginsAs
<1>2. Prior' = Prior /\ Saved' = Saved
  BY <1>1, PriorStays
<1>3. ~Active(c) /\ \A d \in Calls \ {c} : Active(d)' = Active(d)
  BY <1>1 DEF Active, At
<1>4. Sole'
  <2> SUFFICES ASSUME Prior.existing # Processors, NEW d \in Calls, NEW e \in Calls, d # e, Active(d)', Active(e)',
                      job'[d].kind = "bootstrap", job'[e].kind # "inspect"
               PROVE  FALSE
    BY <1>2 DEF Sole
  <2>1. CASE d # c /\ e # c
    BY <1>1, <1>3, <2>1 DEF Tidy, Sole
  <2>2. CASE d = c
    BY <1>1, <1>3, <2>2 DEF Collides
  <2>3. CASE e = c
    BY <1>1, <1>3, <2>3 DEF Collides
  <2> QED BY <2>1, <2>2, <2>3
<1>5. {"asked", "consulting", "refused", "trusting", "idle"} \cap ({"running", "checking", "recording"} \cup Placed) = {}
      /\ {"consulting", "refused", "asked"} \cap (Trusting \cup Requesting) = {}
      /\ {"consulting", "refused", "trusting"} \cap Extracting = {} /\ "refused" \in Ended
  BY DEF Placed, Finished, Trusting, Requesting, Extracting, Ended
<1>6. ~Importing(c) /\ ~Importing(c)'
  BY <1>1, <1>5 DEF Importing
<1>7. CallIsTidy(c)'
  BY <1>1, <1>5 DEF CallIsTidy, Active, At
<1>8. GhidraIsTidy(c)'
  BY <1>1 DEF GhidraIsTidy
<1> QED BY <1>1, <1>2, <1>4, <1>6, <1>7, <1>8, OthersStayTidy

LEMMA ReturnIsTidy ==
    ASSUME IInv, SignedInv, Tidy, NEW c \in Calls, Return(c)
    PROVE  Tidy'
<1>1. /\ pc'[c] = "idle" /\ job'[c] = NoJob /\ UNCHANGED <<final, markers, program, run, success, ghidra>>
      /\ \A d \in Calls \ {c} : pc'[d] = pc[d] /\ job'[d] = job[d]
      /\ pc[c] \in Ended
  BY DEF Return, Goto, Bundle, Project, State, IInv, TypeOK
<1>2. Prior' = Prior /\ Saved' = Saved /\ Inside' = Inside
  BY <1>1, PriorStays
<1>3. ~Active(c)' /\ \A d \in Calls \ {c} : Active(d)' = Active(d)
  BY <1>1 DEF Active, At
<1>4. Sole'
  BY <1>1, <1>2, <1>3 DEF Tidy, Sole
<1>5. {"idle"} \cap ({"running", "checking", "recording"} \cup Placed \cup Trusting \cup Requesting \cup Extracting) = {}
      /\ {"running", "checking", "recording"} \cap Ended = {}
  BY DEF Placed, Finished, Trusting, Requesting, Extracting, Ended
<1>6. ~Importing(c) /\ ~Importing(c)'
  BY <1>1, <1>5 DEF Importing
<1>7. CallIsTidy(c)'
  BY <1>1, <1>3, <1>5 DEF CallIsTidy
<1>8. GhidraIsTidy(c)'
  BY <1>1, <1>2, <1>5 DEF Tidy, GhidraIsTidy
<1> QED BY <1>1, <1>2, <1>4, <1>6, <1>7, <1>8, OthersStayTidy

LEMMA BridgingIsTidy ==
    ASSUME IInv, SignedInv, Tidy, NEW c \in Calls,
           \/ Consult(c) \/ ValidateBundle(c) \/ BuildBridge(c) \/ RehashSource(c) \/ ClearBridge(c) \/ PlaceBridge(c)
           \/ CheckBridge(c)
    PROVE  Tidy'
<1> DEFINE Free == {"asked", "refused", "discovering", "failed", "rehashing", "clearing", "placing", "rechecking",
                    "starting"}
<1>1. /\ job \in [Calls -> Jobs] /\ job[c] \in Jobs /\ pc \in [Calls -> Places]
  BY DEF IInv, TypeOK
<1>2. BootstrapStep(c)
  BY DEF BootstrapStep
<1>3. pc[c] \in {"consulting", "extracted"} \cup Bootstrapping /\ Active(c) /\ job[c].kind = "bootstrap"
  BY <1>2, BootstrapsOnly DEF Consult, ValidateBundle, BuildBridge, RehashSource, ClearBridge, PlaceBridge, CheckBridge,
     At, Bootstrapping
<1>4. \E there \in Free : Goto(c, there)
  BY DEF Consult, ValidateBundle, BuildBridge, RehashSource, ClearBridge, PlaceBridge, CheckBridge, Enter, Pass, Put,
         Adjust, Unbuild, Only, Move
<1>5. pc'[c] \in Free /\ \A d \in Calls \ {c} : pc'[d] = pc[d]
  BY <1>1, <1>4 DEF Goto
<1>6. UNCHANGED <<markers, program, run, success, ghidra>>
  BY DEF Consult, ValidateBundle, BuildBridge, RehashSource, ClearBridge, PlaceBridge, CheckBridge, Pass, State, Stay,
         Project
<1>7. /\ job' = job /\ pc[c] # "consulting"
      \/ job' = [job EXCEPT ![c] = [job[c] EXCEPT !.existing = Prior.existing]]
  BY DEF Consult, ValidateBundle, BuildBridge, RehashSource, ClearBridge, PlaceBridge, CheckBridge, Pass, At
<1>8. /\ \A d \in Calls \ {c} : job'[d] = job[d]
      /\ job'[c].kind = job[c].kind /\ job'[c].existing = Prior.existing
  <2>1. pc[c] # "consulting" => job[c].existing = Prior.existing
    BY <1>3 DEF Tidy, CallIsTidy, Bootstrapping
  <2> QED BY <1>1, <1>7, <2>1 DEF Jobs
<1>9. Prior' = Prior /\ Saved' = Saved
  BY <1>6, PriorStays
<1>10. pc'[c] = "starting" => Inside'.bridge = job'[c].manifest
  <2> SUFFICES ASSUME pc'[c] = "starting" PROVE Inside'.bridge = job'[c].manifest
    OBVIOUS
  <2>1. CheckBridge(c)
    BY <1>1 DEF Consult, ValidateBundle, BuildBridge, RehashSource, ClearBridge, PlaceBridge, CheckBridge, Enter, Pass,
           Put, Adjust, Unbuild, Only, Move, Goto
  <2>2. UNCHANGED <<final, job>> /\ Inside.bridge = job[c].manifest
    BY <1>1, <2>1 DEF CheckBridge, Pass, Only, Move, Goto
  <2> QED BY <2>2, PriorStays
<1>11. /\ Free \cap ({"running", "checking", "recording"} \cup Trusting \cup Requesting) = {}
       /\ Free \cap Placed = {"starting"} /\ Bootstrapping \cap {"running", "checking", "recording"} = {}
  BY DEF Placed, Finished, Trusting, Requesting, Bootstrapping
<1>12. ~Importing(c) /\ ~Importing(c)'
  BY <1>3, <1>5, <1>11 DEF Importing
<1>13. CallIsTidy(c)'
  BY <1>3, <1>5, <1>8, <1>9, <1>10, <1>11 DEF CallIsTidy
<1>14. GhidraIsTidy(c)'
  BY <1>3, <1>5, <1>6, <1>9, <1>11 DEF Tidy, GhidraIsTidy
<1>15. Sole'
  BY <1>3, <1>5, <1>8, <1>9, SoleStays
<1> HIDE DEF Free
<1> QED BY <1>3, <1>5, <1>6, <1>8, <1>9, <1>12, <1>13, <1>14, <1>15, NobodyPlaced, OthersStayTidy

\* A step of a bootstrap that has its bridge and neither begins, ends nor records an import.
LEMMA PlainRunIsTidy ==
    ASSUME IInv, SignedInv, Tidy, NEW c \in Calls, Active(c), job[c].kind = "bootstrap",
           NEW there \in Started \cup {"bootstrapped", "failed"}, Goto(c, there),
           UNCHANGED <<markers, program>>, Prior'.existing = Prior.existing, Inside'.bridge = Inside.bridge,
           pc[c] \in Started \cup {"starting"},
           \A d \in Calls \ {c} : job'[d] = job[d] /\ ghidra'[d] = ghidra[d],
           job'[c].kind = "bootstrap", job'[c].manifest = job[c].manifest,
           there \notin {"recording", "reporting"} => job'[c].existing = Prior.existing,
           there = "recording" => job'[c].existing = Prior.existing \cup {job'[c].processor},
           there \in {"running", "checking", "recording"} => job'[c].processor \in Prior.existing,
           ghidra'[c].mode = "import" => there \notin {"running", "checking", "recording"},
           ~Importing(c), there \in Placed \ Finished => pc[c] \in Placed \ Finished,
           GhidraIsTidy(c)'
    PROVE  Tidy'
<1>1. pc'[c] = there /\ \A d \in Calls \ {c} : pc'[d] = pc[d]
  BY DEF Goto, IInv, TypeOK
<1>2. Saved' = Saved
  BY PriorStays
<1>3. ~Importing(c)'
  BY <1>1 DEF Importing
<1>4. there \notin Trusting \cup Requesting \cup Extracting \cup {"consulting"}
  BY DEF Started, Trusting, Requesting, Extracting
<1>5. CallIsTidy(c)'
  BY <1>1, <1>4 DEF Tidy, CallIsTidy
<1>6. Sole'
  BY <1>1, SoleStays
<1> QED BY <1>1, <1>2, <1>3, <1>5, <1>6, NobodyPlaced, OthersStayTidy

\* What a step that runs Ghidra and records it begins from.
LEMMA RunsFrom ==
    ASSUME IInv, SignedInv, Tidy, NEW c \in Calls,
           WriteStarting(c) \/ Launch(c) \/ EndRun(c) \/ CheckResult(c) \/ RecordProcessor(c) \/ Finish(c)
           \/ WriteSuccess(c) \/ ForgetFailure(c) \/ ReportFailure(c)
    PROVE  /\ Active(c) /\ job[c].kind = "bootstrap" /\ pc[c] \in Started \cup {"starting"}
           /\ job[c] \in Jobs /\ job[c].processor \in Processors
           /\ pc[c] \notin {"recording", "reporting"} => job[c].existing = Prior.existing
           /\ pc[c] = "recording" => job[c].existing = Prior.existing \cup {job[c].processor}
           /\ pc[c] = "running" => ghidra[c].at = "off"
<1>1. BootstrapStep(c)
  BY DEF BootstrapStep
<1>2. pc[c] \in Started \cup {"starting"}
  BY DEF WriteStarting, Launch, EndRun, CheckResult, RecordProcessor, Finish, WriteSuccess, ForgetFailure, ReportFailure,
         At, Started
<1>3. pc[c] = "running" => EndRun(c)
  BY DEF WriteStarting, Launch, CheckResult, RecordProcessor, Finish, WriteSuccess, ForgetFailure, ReportFailure, At
<1>4. CallIsTidy(c) /\ "consulting" \notin Started \cup {"starting"}
  BY DEF Tidy, Started
<1> QED BY <1>1, <1>2, <1>3, <1>4, BootstrapsOnly, JobIsTyped DEF IInv, CallIsTidy, EndRun, GhidraEnded

LEMMA QuietGhidraIsTidy ==
    ASSUME Tidy, NEW c \in Calls, UNCHANGED ghidra, ghidra[c].at = "off" \/ pc[c] # "running",
           Prior.existing \subseteq Prior'.existing
    PROVE  GhidraIsTidy(c)'
BY DEF Tidy, GhidraIsTidy

\* The steps of a bootstrap that is not importing.
LEMMA RunIsTidy ==
    ASSUME IInv, SignedInv, Tidy, NEW c \in Calls, ~Importing(c),
           \/ WriteStarting(c) \/ EndRun(c) \/ CheckResult(c) \/ RecordProcessor(c) \/ Finish(c)
           \/ WriteSuccess(c) \/ ForgetFailure(c) \/ ReportFailure(c)
           \/ Launch(c) /\ (rom => job[c].processor \in job[c].existing)
    PROVE  Tidy'
<1>1. /\ job \in [Calls -> Jobs] /\ pc \in [Calls -> Places] /\ ghidra \in [Calls -> Ghidras]
      /\ final \in Directories /\ Inside \in Insides
  BY InsideIsTyped DEF IInv, TypeOK, BundleOK
<1>2. /\ Active(c) /\ job[c].kind = "bootstrap" /\ pc[c] \in Started \cup {"starting"}
      /\ job[c] \in Jobs /\ job[c].processor \in Processors
      /\ pc[c] \notin {"recording", "reporting"} => job[c].existing = Prior.existing
      /\ pc[c] = "recording" => job[c].existing = Prior.existing \cup {job[c].processor}
      /\ pc[c] = "running" => ghidra[c].at = "off"
  BY RunsFrom
<1>3. UNCHANGED <<markers, program>>
  BY DEF WriteStarting, Launch, EndRun, GhidraEnded, CheckResult, RecordProcessor, Finish, WriteSuccess, ForgetFailure,
         ReportFailure, WriteRun, WriteFailure, Pass, Learn, Stay, Project
<1>4. pc[c] \in {"running", "checking", "recording"} =>
        ghidra[c].mode # "import" /\ job[c].processor \in Prior.existing
  BY DEF Importing, Tidy, CallIsTidy
<1>5. \A stage : /\ RunState(c, stage).existing = job[c].existing /\ RunState(c, stage).there
  BY DEF RunState
<1>6. ASSUME NEW there \in (Started \cup {"bootstrapped", "failed"}) \ {"running", "checking", "recording"}, Goto(c, there),
             UNCHANGED <<final, ghidra, job>>,
             \/ UNCHANGED <<run, success>>
             \/ pc[c] \notin {"recording", "reporting"} /\ UNCHANGED success
                /\ run'.there /\ run'.existing = job[c].existing
             \/ pc[c] \notin {"recording", "reporting"} /\ UNCHANGED run
                /\ success'.there /\ success'.existing = job[c].existing,
             there # "reporting" => pc[c] \notin {"recording", "reporting"} \/ there = "failed",
             there = "launching" => pc[c] = "starting"
      PROVE  Tidy'
  <2>1. Prior'.existing = Prior.existing
    BY <1>2, <1>6 DEF Prior
  <2>2. Inside' = Inside
    BY <1>6, PriorStays
  <2>3. GhidraIsTidy(c)'
    BY <1>2, <1>6, <2>1, QuietGhidraIsTidy
  <2>4. there \in Placed \ Finished => pc[c] \in Placed \ Finished
    BY <1>6 DEF Placed, Finished, Started
  <2>5. CASE there # "failed"
    BY <1>1, <1>2, <1>3, <1>6, <2>1, <2>2, <2>3, <2>4, <2>5, PlainRunIsTidy
  <2>6. CASE there = "failed"
    <3>1. /\ pc'[c] = "failed" /\ \A d \in Calls \ {c} : pc'[d] = pc[d]
          /\ "failed" \notin {"running", "checking", "recording"} \cup Placed \cup Extracting \cup Trusting \cup Requesting
          /\ "failed" \in Ended
      BY <1>1, <1>6, <2>6 DEF Goto, Placed, Finished, Extracting, Trusting, Requesting, Ended
    <3>2. CallIsTidy(c)' /\ ~Importing(c)'
      BY <3>1 DEF CallIsTidy, Importing, Active, At
    <3>3. Sole' /\ Saved' = Saved
      BY <1>2, <1>3, <1>6, <2>1, <3>1, SoleStays, PriorStays
    <3> QED BY <1>3, <1>6, <2>1, <2>2, <2>3, <3>1, <3>2, <3>3, OthersStayTidy
  <2> QED BY <2>5, <2>6
<1>7. \A x \in {"launching", "reporting", "finishing", "succeeding", "settling", "bootstrapped", "failed"} :
        x \in (Started \cup {"bootstrapped", "failed"}) \ {"running", "checking", "recording"}
  BY DEF Started
<1>8. ASSUME NEW stage, NEW there \in {"launching", "succeeding"}, WriteRun(c, stage, there),
             pc[c] \notin {"recording", "reporting"}, there = "launching" => pc[c] = "starting"
      PROVE  Tidy'
  <2>1. Goto(c, there) /\ UNCHANGED <<final, ghidra, job, success>> /\ run' = RunState(c, stage)
    BY <1>8 DEF WriteRun, Only, Move, Stay
  <2>2. run'.there /\ run'.existing = job[c].existing
    BY <1>5, <2>1
  <2> QED BY <1>6, <1>7, <1>8, <2>1, <2>2
<1>9. CASE WriteStarting(c)
  BY <1>8, <1>9 DEF WriteStarting, At
<1>10. CASE Finish(c)
  <2>1. CASE rom
    BY <1>8, <1>10, <2>1 DEF Finish, At
  <2>2. CASE ~rom
    <3>1. Goto(c, "reporting") /\ UNCHANGED <<final, ghidra, job, run, success>>
      BY <1>10, <2>2 DEF Finish, Pass, Only, Move, State, Stay
    <3> QED BY <1>6, <1>7, <3>1
  <2> QED BY <2>1, <2>2
<1>11. CASE WriteSuccess(c)
  <2>1. Goto(c, "settling") /\ UNCHANGED <<final, ghidra, job, run>> /\ success' = RunState(c, "complete")
        /\ pc[c] = "succeeding"
    BY <1>11 DEF WriteSuccess, Only, Move, Stay, At
  <2>2. success'.there /\ success'.existing = job[c].existing
    BY <1>5, <2>1
  <2> QED BY <1>6, <1>7, <2>1, <2>2
<1>12. CASE ForgetFailure(c) \/ ReportFailure(c)
  <2>1. /\ UNCHANGED <<final, ghidra, job, run, success>>
        /\ \/ Goto(c, "bootstrapped") /\ pc[c] = "settling"
           \/ Goto(c, "failed")
    BY <1>12 DEF ForgetFailure, ReportFailure, WriteFailure, Only, Move, Stay, At
  <2> QED BY <1>6, <1>7, <2>1
<1>13. CASE EndRun(c)
  <2>1. pc[c] = "running" /\ UNCHANGED <<final, ghidra, job, run, success>> /\ (Goto(c, "checking") \/ Goto(c, "reporting"))
    BY <1>13 DEF EndRun, GhidraEnded, Pass, Only, Move, State, Stay, At
  <2>2. CASE Goto(c, "reporting")
    BY <1>6, <1>7, <2>1, <2>2
  <2>3. CASE Goto(c, "checking")
    <3>1. Prior' = Prior /\ Inside' = Inside
      BY <2>1, PriorStays
    <3>2. GhidraIsTidy(c)'
      BY <1>2, <2>1, <3>1, QuietGhidraIsTidy
    <3>3. "checking" \in Started /\ pc[c] \in Placed \ Finished
      BY <2>1 DEF Started, Placed, Finished
    <3> QED BY <1>2, <1>3, <1>4, <2>1, <2>3, <3>1, <3>2, <3>3, PlainRunIsTidy
  <2> QED BY <2>1, <2>2, <2>3
<1>14. CASE CheckResult(c)
  <2> DEFINE p == job[c].processor
             j == [job[c] EXCEPT !.existing = @ \cup {p}, !.completed = @ \cup {p}]
  <2>1. pc[c] = "checking" /\ UNCHANGED <<final, ghidra, run, success>>
    BY <1>14 DEF CheckResult, Learn, Pass, Only, State, Stay, At
  <2>2. \/ Goto(c, "reporting") /\ job' = job
        \/ Goto(c, "recording") /\ job' = [job EXCEPT ![c] = j]
    BY <1>14 DEF CheckResult, Learn, Pass, Only, Move
  <2>3. CASE Goto(c, "reporting") /\ job' = job
    BY <1>6, <1>7, <2>1, <2>3
  <2>4. CASE Goto(c, "recording") /\ job' = [job EXCEPT ![c] = j]
    <3>1. /\ j.kind = job[c].kind /\ j.manifest = job[c].manifest /\ j.processor = p /\ j.existing = job[c].existing \cup {p}
      BY <1>2 DEF Jobs
    <3> HIDE DEF j
    <3>2. /\ job'[c] = j /\ \A d \in Calls \ {c} : job'[d] = job[d]
      BY <1>1, <2>4
    <3>3. Prior' = Prior /\ Inside' = Inside
      BY <2>1, PriorStays
    <3>4. GhidraIsTidy(c)'
      BY <2>1, <3>3, QuietGhidraIsTidy
    <3>5. "recording" \in Started /\ pc[c] \in Placed \ Finished
      BY <2>1 DEF Started, Placed, Finished
    <3> QED BY <1>2, <1>3, <1>4, <2>1, <2>4, <3>1, <3>2, <3>3, <3>4, <3>5, PlainRunIsTidy
  <2> HIDE DEF j
  <2> QED BY <2>2, <2>3, <2>4
<1>15. CASE RecordProcessor(c)
  <2> DEFINE j == [job[c] EXCEPT !.processor = "arm7"]
             there == IF job[c].processor = "arm9" THEN "launching" ELSE "finishing"
             stage == IF job[c].processor = "arm9" THEN "arm9-complete" ELSE "arm7-complete"
  <2>1. /\ pc[c] = "recording" /\ UNCHANGED <<final, ghidra, success>> /\ run' = RunState(c, stage)
        /\ Goto(c, there) /\ job' = [job EXCEPT ![c] = j]
    BY <1>15 DEF RecordProcessor, Only, Move, Stay, At
  <2>2. j.kind = job[c].kind /\ j.manifest = job[c].manifest /\ j.existing = job[c].existing
    BY <1>2 DEF Jobs
  <2> HIDE DEF j, stage
  <2>3. /\ job'[c] = j /\ \A d \in Calls \ {c} : job'[d] = job[d]
    BY <1>1, <2>1
  <2>4. Prior'.existing = Prior.existing /\ job[c].existing = Prior.existing
    <3>1. job[c].existing = Prior.existing
      BY <1>2, <1>4, <2>1
    <3> QED BY <1>5, <2>1, <3>1 DEF Prior
  <2>5. Inside' = Inside
    BY <2>1, PriorStays
  <2>6. GhidraIsTidy(c)'
    BY <2>1, <2>4, QuietGhidraIsTidy
  <2>7. there \in Started /\ pc[c] \in Placed \ Finished /\ there \notin {"running", "checking", "recording", "reporting"}
    BY <2>1 DEF Started, Placed, Finished
  <2> HIDE DEF there
  <2> QED BY <1>2, <1>3, <2>1, <2>2, <2>3, <2>4, <2>5, <2>6, <2>7, PlainRunIsTidy
<1>16. CASE Launch(c) /\ (rom => job[c].processor \in job[c].existing)
  <2>1. pc[c] = "launching" /\ UNCHANGED <<job, run, success>>
    BY <1>16 DEF Launch, State, At
  <2>2. CASE ~rom
    <3>1. Goto(c, "reporting") /\ UNCHANGED <<final, ghidra>>
      BY <1>16, <2>2 DEF Launch, Only, Move
    <3> QED BY <1>6, <1>7, <2>1, <3>1
  <2>3. CASE rom
    <3> DEFINE p == job[c].processor
               g == [NoGhidra EXCEPT !.at = "opening", !.processor = p,
                                     !.mode = IF p \in job[c].existing THEN "process" ELSE "import"]
    <3>1. /\ ghidra' = [ghidra EXCEPT ![c] = g] /\ Goto(c, "running")
          /\ final' = [final EXCEPT !.inside = IF final.there THEN [Inside EXCEPT !.results = [@ EXCEPT ![p] = None]] ELSE @]
      BY <1>16, <2>3 DEF Launch, Adjust, Move
    <3>2. g.at = "opening" /\ g.processor = p /\ g.mode = "process"
      BY <1>16, <2>3 DEF NoGhidra
    <3> HIDE DEF g
    <3>3. ghidra'[c] = g /\ \A d \in Calls \ {c} : ghidra'[d] = ghidra[d]
      BY <1>1, <3>1
    <3>4. Inside'.bridge = Inside.bridge
      BY <1>1, <3>1 DEF Inside, Insides, Directories
    <3>5. Prior' = Prior /\ p \in Prior.existing
      BY <1>2, <1>16, <2>1, <2>3, PriorStays
    <3>6. GhidraIsTidy(c)'
      BY <3>2, <3>3, <3>5 DEF GhidraIsTidy
    <3>7. "running" \in Started /\ pc[c] \in Placed \ Finished
      BY <2>1 DEF Started, Placed, Finished
    <3> QED BY <1>2, <1>3, <2>1, <3>1, <3>2, <3>3, <3>4, <3>5, <3>6, <3>7, PlainRunIsTidy
  <2> QED BY <2>2, <2>3
<1> QED BY <1>9, <1>10, <1>11, <1>12, <1>13, <1>14, <1>15, <1>16

\* A bootstrap starts an import only of a program the state does not name.
LEMMA LaunchIsTidy ==
    ASSUME IInv, SignedInv, Tidy, NEW c \in Calls, Launch(c), rom, job[c].processor \notin job[c].existing
    PROVE  Tidy'
<1> DEFINE p == job[c].processor
           g == [NoGhidra EXCEPT !.at = "opening", !.processor = p,
                                 !.mode = IF p \in job[c].existing THEN "process" ELSE "import"]
<1>1. /\ job \in [Calls -> Jobs] /\ pc \in [Calls -> Places] /\ ghidra \in [Calls -> Ghidras]
      /\ final \in Directories /\ Inside \in Insides
  BY InsideIsTyped DEF IInv, TypeOK, BundleOK
<1>2. /\ ghidra' = [ghidra EXCEPT ![c] = g] /\ Goto(c, "running") /\ UNCHANGED <<job, run, success, markers, program>>
      /\ final' = [final EXCEPT !.inside = IF final.there THEN [Inside EXCEPT !.results = [@ EXCEPT ![p] = None]] ELSE @]
      /\ pc[c] = "launching"
  BY DEF Launch, Adjust, Move, State, Project, At
<1>3. g.at = "opening" /\ g.processor = p /\ g.mode = "import" /\ ~g.killed /\ ~g.ok
  BY DEF NoGhidra
<1> HIDE DEF g
<1>4. /\ ghidra'[c] = g /\ pc'[c] = "running"
      /\ \A d \in Calls \ {c} : ghidra'[d] = ghidra[d] /\ pc'[d] = pc[d] /\ job'[d] = job[d]
  BY <1>1, <1>2 DEF Goto
<1>5. /\ Active(c) /\ job[c].kind = "bootstrap" /\ p \in Processors /\ job[c].existing = Prior.existing
  BY <1>2, RunsFrom
<1>6. Prior.existing # Processors /\ p \notin Prior.existing
  BY <1>5
<1>7. Prior' = Prior /\ Found' = Found /\ Saved' = Saved
  BY <1>2, PriorStays
<1>8. Inside'.bridge = Inside.bridge
  BY <1>1, <1>2 DEF Inside, Insides, Directories
<1>9. /\ "running" \notin {"consulting", "recording", "reporting"} \cup Extracting \cup Trusting \cup Requesting
      /\ "launching" \in Placed \ Finished
  BY DEF Extracting, Trusting, Requesting, Placed, Finished
<1>10. CallIsTidy(c)'
  BY <1>2, <1>3, <1>4, <1>5, <1>7, <1>8, <1>9 DEF Tidy, CallIsTidy
<1>11. GhidraIsTidy(c)'
  BY <1>3, <1>4 DEF GhidraIsTidy
<1>12. ~Importing(c)
  BY <1>2 DEF Importing
<1>13. \A d \in Calls \ {c} : ~Importing(d)
  <2>1. \A d \in Calls \ {c} : Active(d) => job[d].kind = "inspect"
    BY <1>5, <1>6 DEF Tidy, Sole
  <2>2. \A d \in Calls : Importing(d) => Active(d) /\ job[d].kind = "bootstrap"
    BY DEF Importing, Active, Ended, SignedInv, CallSigns, Started
  <2> QED BY <2>1, <2>2
<1>14. Settled'
  BY <1>2, <1>7, <1>12, <1>13 DEF Tidy, Settled
<1>15. Importing(c)' /\ ImportIsTidy(c)'
  BY <1>2, <1>3, <1>4, <1>6, <1>7, <1>14 DEF Importing, ImportIsTidy, HasSaved
<1> QED BY <1>4, <1>2, <1>5, <1>6, <1>7, <1>10, <1>11, <1>15, ImporterIsTidy

\* What an import saved is found to be of its bridge, and recorded.
LEMMA ImportIsRecorded ==
    ASSUME IInv, SignedInv, Tidy, NEW c \in Calls, Importing(c),
           EndRun(c) \/ CheckResult(c) \/ RecordProcessor(c)
    PROVE  Tidy'
<1> DEFINE p == job[c].processor
<1>1. /\ job \in [Calls -> Jobs] /\ pc \in [Calls -> Places] /\ ghidra \in [Calls -> Ghidras]
  BY DEF IInv, TypeOK
<1>2. /\ Active(c) /\ job[c].kind = "bootstrap" /\ job[c] \in Jobs /\ p \in Processors
      /\ pc[c] \notin {"recording", "reporting"} => job[c].existing = Prior.existing
      /\ pc[c] = "recording" => job[c].existing = Prior.existing \cup {p}
      /\ pc[c] = "running" => ghidra[c].at = "off"
  BY RunsFrom
<1>3. ImportIsTidy(c) /\ CallIsTidy(c) /\ GhidraIsTidy(c)
  BY DEF Tidy
<1>4. p \notin Prior.existing /\ Prior.existing # Processors /\ ~ghidra[c].killed /\ ghidra[c].mode = "import"
  BY <1>2, <1>3 DEF ImportIsTidy, Importing
<1>5. UNCHANGED <<markers, program, ghidra, final, success>>
  BY DEF EndRun, GhidraEnded, CheckResult, RecordProcessor, Pass, Learn, Only, Stay, Project, State
<1>6. Found' = Found /\ Saved' = Saved /\ Inside' = Inside
  BY <1>5, PriorStays
<1>7. {"running", "checking", "recording", "reporting", "launching", "finishing"}
        \cap ({"consulting"} \cup Extracting \cup Trusting \cup Requesting) = {}
      /\ {"running", "checking", "recording", "launching"} \subseteq Placed \ Finished
      /\ {"reporting", "finishing"} \cap (Placed \ Finished) = {}
  BY DEF Extracting, Trusting, Requesting, Placed, Finished
<1>8. CASE EndRun(c)
  <2>1. /\ UNCHANGED <<job, run>> /\ pc[c] = "running" /\ ghidra[c].at = "off"
        /\ Goto(c, IF ghidra[c].ok THEN "checking" ELSE "reporting")
    BY <1>4, <1>8 DEF EndRun, GhidraEnded, Pass, Only, Move, State, At
  <2>2. /\ pc'[c] = IF ghidra[c].ok THEN "checking" ELSE "reporting"
        /\ \A d \in Calls \ {c} : pc'[d] = pc[d]
    BY <1>1, <2>1 DEF Goto
  <2>3. Prior' = Prior
    BY <1>5, <2>1, PriorStays
  <2>4. CallIsTidy(c)' /\ GhidraIsTidy(c)'
    BY <1>2, <1>3, <1>5, <1>6, <1>7, <2>1, <2>2, <2>3 DEF CallIsTidy, GhidraIsTidy
  <2>5. CASE ghidra[c].ok
    <3>1. ImportIsTidy(c)' /\ Importing(c)'
      BY <1>3, <1>4, <1>5, <1>6, <2>1, <2>2, <2>3, <2>5 DEF ImportIsTidy, HasSaved, Importing
    <3> QED BY <1>2, <1>4, <1>5, <2>1, <2>2, <2>3, <2>4, <3>1, ImporterIsTidy
  <2>6. CASE ~ghidra[c].ok
    <3>1. Settled' /\ ~Importing(c)'
      BY <1>3, <1>5, <1>6, <2>1, <2>2, <2>3, <2>6 DEF ImportIsTidy, HasSaved, Importing, Settled
    <3> QED BY <1>2, <1>4, <1>5, <2>1, <2>2, <2>3, <2>4, <3>1, ImporterIsTidy
  <2> QED BY <2>5, <2>6
<1>9. CASE CheckResult(c)
  <2> DEFINE j == [job[c] EXCEPT !.existing = @ \cup {p}, !.completed = @ \cup {p}]
  <2>1. pc[c] = "checking" /\ UNCHANGED run
    BY <1>9 DEF CheckResult, Learn, Pass, Only, State, At
  <2>2. Inside.results[p] = job[c].manifest /\ Found
    BY <1>3, <2>1 DEF ImportIsTidy, HasSaved
  <2>3. Goto(c, "recording") /\ job' = [job EXCEPT ![c] = j]
    BY <1>9, <2>2 DEF CheckResult, Learn, Only, Move
  <2>4. /\ j.kind = job[c].kind /\ j.manifest = job[c].manifest /\ j.processor = p /\ j.existing = job[c].existing \cup {p}
    BY <1>2 DEF Jobs
  <2> HIDE DEF j
  <2>5. /\ job'[c] = j /\ pc'[c] = "recording" /\ \A d \in Calls \ {c} : job'[d] = job[d] /\ pc'[d] = pc[d]
    BY <1>1, <2>3 DEF Goto
  <2>6. Prior' = Prior
    BY <1>5, <2>1, PriorStays
  <2>7. CallIsTidy(c)' /\ GhidraIsTidy(c)'
    BY <1>2, <1>3, <1>4, <1>5, <1>6, <1>7, <2>1, <2>4, <2>5, <2>6 DEF CallIsTidy, GhidraIsTidy
  <2>8. ImportIsTidy(c)' /\ Importing(c)'
    BY <1>3, <1>4, <1>5, <1>6, <2>1, <2>4, <2>5, <2>6 DEF ImportIsTidy, HasSaved, Importing
  <2> QED BY <1>2, <1>4, <1>5, <2>4, <2>5, <2>6, <2>7, <2>8, ImporterIsTidy
<1>10. CASE RecordProcessor(c)
  <2> DEFINE j == [job[c] EXCEPT !.processor = "arm7"]
             there == IF p = "arm9" THEN "launching" ELSE "finishing"
             stage == IF p = "arm9" THEN "arm9-complete" ELSE "arm7-complete"
  <2>1. /\ pc[c] = "recording" /\ run' = RunState(c, stage) /\ Goto(c, there) /\ job' = [job EXCEPT ![c] = j]
    BY <1>10 DEF RecordProcessor, Only, Move, At
  <2>2. j.kind = job[c].kind /\ j.manifest = job[c].manifest /\ j.existing = job[c].existing
    BY <1>2 DEF Jobs
  <2> HIDE DEF j, stage
  <2>3. /\ job'[c] = j /\ pc'[c] = there /\ \A d \in Calls \ {c} : job'[d] = job[d] /\ pc'[d] = pc[d]
    BY <1>1, <2>1 DEF Goto
  <2>4. Prior'.existing = Prior.existing \cup {p} /\ job[c].existing = Prior.existing \cup {p}
    BY <1>2, <2>1 DEF Prior, RunState
  <2>5. there \in {"launching", "finishing"}
    OBVIOUS
  <2> HIDE DEF there
  <2>6. CallIsTidy(c)' /\ GhidraIsTidy(c)'
    <3>1. there = "launching" => Inside'.bridge = j.manifest
      BY <1>3, <1>4, <1>6, <1>7, <2>1, <2>2 DEF CallIsTidy
    <3>2. ghidra[c].at = "off"
      BY <1>3, <1>4, <2>1 DEF GhidraIsTidy
    <3> QED BY <1>5, <1>7, <2>2, <2>3, <2>4, <2>5, <3>1, <3>2 DEF CallIsTidy, GhidraIsTidy
  <2>7. ~Importing(c)'
    BY <2>3, <2>5 DEF Importing
  <2>8. Settled'
    <3>1. Found /\ Saved = Prior.existing \cup {p}
      BY <1>3, <2>1 DEF ImportIsTidy, HasSaved
    <3>2. markers' # {}
      BY <1>5, <3>1 DEF Found
    <3> QED BY <1>6, <2>4, <3>1, <3>2 DEF Settled
  <2> QED BY <1>2, <1>4, <1>5, <2>2, <2>3, <2>4, <2>6, <2>7, <2>8, ImporterIsTidy
<1> QED BY <1>8, <1>9, <1>10

LEMMA BootstrapIsTidy ==
    ASSUME IInv, SignedInv, Tidy, NEW c \in Calls, BootstrapStep(c)
    PROVE  Tidy'
<1>1. CASE Importing(c)
  <2>1. EndRun(c) \/ CheckResult(c) \/ RecordProcessor(c)
    BY <1>1 DEF Importing, BootstrapStep, Consult, ValidateBundle, BuildBridge, RehashSource, ClearBridge, PlaceBridge,
           CheckBridge, WriteStarting, Launch, Finish, WriteSuccess, ForgetFailure, ReportFailure, At
  <2> QED BY <1>1, <2>1, ImportIsRecorded
<1>2. CASE ~Importing(c)
  BY <1>2, BridgingIsTidy, RunIsTidy, LaunchIsTidy DEF BootstrapStep
<1> QED BY <1>1, <1>2

\* What a step of Ghidra never touches.
LEMMA GhidraActs ==
    ASSUME IInv, NEW c \in Calls, GhidraStep(c)
    PROVE  /\ UNCHANGED <<pc, job, run, success, alone, orphaned, rom, temp>>
           /\ \A d \in Calls \ {c} : ghidra'[d] = ghidra[d]
           /\ ghidra'[c].mode = ghidra[c].mode /\ ghidra'[c].processor = ghidra[c].processor
           /\ ghidra'[c].killed = ghidra[c].killed /\ ghidra[c].at # "off"
           /\ Inside'.bridge = Inside.bridge /\ Inside'.unfinished = Inside.unfinished
           /\ final'.there = final.there /\ final'.whole = final.whole
           /\ \A q \in Processors \ {ghidra[c].processor} : Inside'.results[q] = Inside.results[q]
<1>1. /\ ghidra[c] \in Ghidras /\ ghidra \in [Calls -> Ghidras] /\ final \in Directories /\ Inside \in Insides
  BY InsideIsTyped DEF IInv, TypeOK, BundleOK
<1>2. UNCHANGED <<pc, job, run, success, alone, orphaned, rom, temp>> /\ ghidra[c].at # "off"
  BY DEF GhidraStep, OpenProject, CreateMarker, LoadProgram, PrepareProgram, ImportEvidence, RecordAnalysis, SaveProgram,
         InspectProgram, Stop, Quiet, State, History, Bundle, Runs
<1>3. \/ \E ok : Exit(c, ok)
      \/ \E there : Onward(c, there)
      \/ \E there, s : Carry(c, there, s)
  BY DEF GhidraStep, OpenProject, CreateMarker, LoadProgram, PrepareProgram, ImportEvidence, RecordAnalysis, SaveProgram,
         InspectProgram, Stop, ScriptFails
<1>4. /\ \A d \in Calls \ {c} : ghidra'[d] = ghidra[d]
      /\ ghidra'[c].mode = ghidra[c].mode /\ ghidra'[c].processor = ghidra[c].processor
      /\ ghidra'[c].killed = ghidra[c].killed
  BY <1>1, <1>3 DEF Exit, Onward, Carry, Become, Ghidras
<1>5. \/ final' = final
      \/ \E v : final' = [final EXCEPT !.inside = [Inside EXCEPT !.results = [@ EXCEPT ![ghidra[c].processor] = v]]]
      \/ \E a : final' = [final EXCEPT !.inside = [Inside EXCEPT !.answers = a]]
  BY DEF GhidraStep, OpenProject, CreateMarker, LoadProgram, PrepareProgram, ImportEvidence, RecordAnalysis, SaveProgram,
         InspectProgram, Stop, Quiet, Bundle, Within
<1>6. ASSUME NEW in, final' = [final EXCEPT !.inside = in]
      PROVE  Inside' = in /\ final'.there = final.there /\ final'.whole = final.whole
  BY <1>1, <1>6 DEF Inside, Directories
<1>7. /\ Inside'.bridge = Inside.bridge /\ Inside'.unfinished = Inside.unfinished
      /\ final'.there = final.there /\ final'.whole = final.whole
      /\ \A q \in Processors \ {ghidra[c].processor} : Inside'.results[q] = Inside.results[q]
  <2>1. CASE final' = final
    BY <2>1, PriorStays
  <2>2. CASE \E v : final' = [final EXCEPT !.inside = [Inside EXCEPT !.results = [@ EXCEPT ![ghidra[c].processor] = v]]]
    <3>1. PICK v : final' = [final EXCEPT !.inside = [Inside EXCEPT !.results = [Inside.results EXCEPT ![ghidra[c].processor] = v]]]
      BY <2>2
    <3>2. /\ Inside' = [Inside EXCEPT !.results = [Inside.results EXCEPT ![ghidra[c].processor] = v]]
          /\ final'.there = final.there /\ final'.whole = final.whole
      BY <1>6, <3>1
    <3>3. Inside.results \in [Processors -> Versions]
      BY <1>1 DEF Insides
    <3> QED BY <1>1, <3>2, <3>3 DEF Insides
  <2>3. CASE \E a : final' = [final EXCEPT !.inside = [Inside EXCEPT !.answers = a]]
    <3>1. PICK a : final' = [final EXCEPT !.inside = [Inside EXCEPT !.answers = a]]
      BY <2>3
    <3>2. Inside' = [Inside EXCEPT !.answers = a] /\ final'.there = final.there /\ final'.whole = final.whole
      BY <1>6, <3>1
    <3> QED BY <1>1, <3>2 DEF Insides
  <2> QED BY <1>5, <2>1, <2>2, <2>3
<1> QED BY <1>2, <1>4, <1>7

\* Where a Ghidra that goes on goes.
LEMMA GhidraGoes ==
    ASSUME IInv, NEW c \in Calls, GhidraStep(c)
    PROVE  \/ OpenProject(c) /\ ghidra'[c].at = "loading" /\ Found
           \/ OpenProject(c) /\ ghidra'[c].at = "creating" /\ ~Found /\ ghidra[c].mode = "import"
           \/ CreateMarker(c) /\ ghidra'[c].at = IF Found' THEN "loading" ELSE "creating"
           \/ LoadProgram(c) /\ ghidra'[c].at \in {"preparing", "inspecting"}
              /\ (ghidra'[c].at = "inspecting" <=> ghidra[c].mode = "inspect")
              /\ ghidra'[c].copy.manifest = program[ghidra[c].processor].manifest
           \/ PrepareProgram(c) /\ ghidra'[c].at = "evidence" /\ ghidra'[c].copy.manifest = Inside.bridge
           \/ ImportEvidence(c) /\ ghidra'[c].at = "recording" /\ ghidra'[c].copy.manifest = ghidra[c].copy.manifest
           \/ RecordAnalysis(c) /\ ghidra'[c].at = "saving" /\ ghidra'[c].copy = ghidra[c].copy
              /\ Inside'.results[ghidra[c].processor] = Inside.bridge
           \/ SaveProgram(c) /\ ghidra'[c].at = "off" /\ ghidra'[c].ok
           \/ ghidra'[c].at = "off"
<1> DEFINE p == ghidra[c].processor
<1>1. /\ ghidra[c] \in Ghidras /\ ghidra \in [Calls -> Ghidras] /\ final \in Directories /\ Inside \in Insides
      /\ p \in Processors /\ program[p] \in Programs /\ ghidra[c].copy \in Programs
  BY InsideIsTyped, GhidraIsTyped DEF IInv, TypeOK, BundleOK
<1>2. ASSUME NEW ok, Exit(c, ok) PROVE ghidra'[c].at = "off" /\ ghidra'[c].ok = ok
  BY <1>1, <1>2 DEF Exit, Become, Ghidras
<1>3. ASSUME NEW there, Onward(c, there) PROVE ghidra'[c].at = there /\ ghidra'[c].copy = ghidra[c].copy
  BY <1>1, <1>3 DEF Onward, Become, Ghidras
<1>4. ASSUME NEW there, NEW s, Carry(c, there, s) PROVE ghidra'[c].at = there /\ ghidra'[c].copy = s
  BY <1>1, <1>4 DEF Carry, Become, Ghidras
<1>5. CASE OpenProject(c)
  <2>1. \/ Exit(c, FALSE)
        \/ Onward(c, "loading") /\ Found
        \/ Onward(c, "creating") /\ ~Found /\ ghidra[c].mode = "import"
    BY <1>5 DEF OpenProject
  <2> QED BY <1>2, <1>3, <1>5, <2>1
<1>6. CASE CreateMarker(c)
  <2>1. Onward(c, IF Found' THEN "loading" ELSE "creating")
    BY <1>6 DEF CreateMarker
  <2> QED BY <1>3, <1>6, <2>1
<1>7. CASE LoadProgram(c)
  <2>1. \/ \E ok : Exit(c, ok)
        \/ Carry(c, IF ghidra[c].mode = "inspect" THEN "inspecting" ELSE "preparing", [program[p] EXCEPT !.there = TRUE])
    BY <1>7 DEF LoadProgram
  <2>2. [program[p] EXCEPT !.there = TRUE].manifest = program[p].manifest
    BY <1>1 DEF Programs
  <2>3. ASSUME NEW there, Carry(c, there, [program[p] EXCEPT !.there = TRUE])
        PROVE  ghidra'[c].at = there /\ ghidra'[c].copy.manifest = program[p].manifest
    BY <1>4, <2>2, <2>3
  <2>4. \/ ghidra'[c].at = "off"
        \/ /\ ghidra'[c].at = IF ghidra[c].mode = "inspect" THEN "inspecting" ELSE "preparing"
           /\ ghidra'[c].copy.manifest = program[p].manifest
    BY <1>2, <2>1, <2>3
  <2> QED BY <1>7, <2>4
<1>8. CASE PrepareProgram(c)
  <2>1. \/ Exit(c, FALSE)
        \/ Carry(c, "evidence", [ghidra[c].copy EXCEPT !.manifest = Inside.bridge])
    BY <1>8 DEF PrepareProgram, ScriptFails
  <2>2. [ghidra[c].copy EXCEPT !.manifest = Inside.bridge].manifest = Inside.bridge
    BY <1>1 DEF Programs
  <2> QED BY <1>2, <1>4, <1>8, <2>1, <2>2
<1>9. CASE ImportEvidence(c)
  <2>1. \/ Exit(c, FALSE)
        \/ \E e : Carry(c, "recording", [ghidra[c].copy EXCEPT !.evidence = e])
    BY <1>9 DEF ImportEvidence, ScriptFails
  <2>2. ASSUME NEW e, Carry(c, "recording", [ghidra[c].copy EXCEPT !.evidence = e])
        PROVE  ghidra'[c].at = "recording" /\ ghidra'[c].copy.manifest = ghidra[c].copy.manifest
    <3>1. [ghidra[c].copy EXCEPT !.evidence = e].manifest = ghidra[c].copy.manifest
      BY <1>1 DEF Programs
    <3> QED BY <1>4, <2>2, <3>1
  <2> QED BY <1>2, <1>9, <2>1, <2>2
<1>10. CASE RecordAnalysis(c)
  <2>1. \/ Exit(c, FALSE)
        \/ Onward(c, "saving") /\ Within([Inside EXCEPT !.results = [@ EXCEPT ![p] = Inside.bridge]])
    BY <1>10 DEF RecordAnalysis, ScriptFails
  <2>2. ASSUME Within([Inside EXCEPT !.results = [@ EXCEPT ![p] = Inside.bridge]])
        PROVE  Inside'.results[p] = Inside.bridge
    <3>1. Inside' = [Inside EXCEPT !.results = [Inside.results EXCEPT ![p] = Inside.bridge]]
      BY <1>1, <2>2 DEF Within, Inside, Directories
    <3>2. Inside.results \in [Processors -> Versions]
      BY <1>1 DEF Insides
    <3> QED BY <1>1, <3>1, <3>2 DEF Insides
  <2> QED BY <1>2, <1>3, <1>10, <2>1, <2>2
<1>11. CASE SaveProgram(c)
  BY <1>2, <1>11 DEF SaveProgram
<1>12. CASE InspectProgram(c) \/ Stop(c)
  <2>1. \E ok : Exit(c, ok)
    BY <1>12 DEF InspectProgram, Stop
  <2> QED BY <1>2, <2>1
<1> QED BY <1>5, <1>6, <1>7, <1>8, <1>9, <1>10, <1>11, <1>12 DEF GhidraStep

\* A run that does not import leaves the markers, and saves a program that was there.
LEMMA OtherGhidraIsTidy ==
    ASSUME IInv, SignedInv, Tidy, NEW c \in Calls, GhidraStep(c), ghidra[c].mode # "import"
    PROVE  Tidy'
<1> DEFINE g == ghidra[c]
           p == g.processor
<1>1. /\ UNCHANGED <<pc, job, run, success>> /\ \A d \in Calls \ {c} : ghidra'[d] = ghidra[d]
      /\ ghidra'[c].mode = g.mode /\ ghidra'[c].processor = p /\ g.at # "off"
      /\ Inside'.bridge = Inside.bridge
      /\ \A q \in Processors \ {p} : Inside'.results[q] = Inside.results[q]
  BY GhidraActs
<1>2. /\ g \in Ghidras /\ p \in Processors /\ g.copy \in Programs /\ program \in [Processors -> Programs]
  BY GhidraIsTyped DEF IInv, TypeOK
<1>3. GhidraIsTidy(c) /\ CallIsTidy(c)
  BY DEF Tidy
<1>4. /\ g.mode = "process" => p \in Prior.existing
      /\ g.at # "creating"
      /\ g.at \in {"preparing", "evidence", "recording", "saving"} => g.mode = "process"
  BY <1>1, <1>2, <1>3 DEF GhidraIsTidy, Ghidras, Modes
<1>5. Prior' = Prior
  BY <1>1, PriorStays
<1>6. UNCHANGED markers
  BY <1>4 DEF GhidraStep, OpenProject, CreateMarker, LoadProgram, PrepareProgram, ImportEvidence, RecordAnalysis,
     SaveProgram, InspectProgram, Stop, Quiet, Project, Runs
<1>7. Saved' = Saved
  <2>1. \/ program' = program
        \/ /\ program' = [program EXCEPT ![p] = g.copy]
           /\ g.at \in {"preparing", "evidence", "recording", "saving"}
    BY DEF GhidraStep, OpenProject, CreateMarker, LoadProgram, PrepareProgram, ImportEvidence, RecordAnalysis, SaveProgram,
           InspectProgram, Stop, ScriptFails, Project, Runs
  <2>2. CASE program' = program
    BY <2>2, PriorStays
  <2>3. CASE /\ program' = [program EXCEPT ![p] = g.copy]
             /\ g.at \in {"preparing", "evidence", "recording", "saving"}
    <3>1. g.copy.there /\ p \in Saved
      BY <1>4, <2>3, NamedIsSaved DEF IInv, CopiesAreThere
    <3> QED BY <1>2, <2>3, <3>1 DEF Saved
  <2> QED BY <2>1, <2>2, <2>3
<1>8. ~Importing(c) /\ ~Importing(c)'
  BY <1>1 DEF Importing
<1>9. CallIsTidy(c)'
  BY <1>1, <1>3, <1>5 DEF CallIsTidy, Active, At
<1>10. GhidraIsTidy(c)'
  <2>1. ghidra'[c].at # "creating"
    BY <1>4, GhidraGoes DEF CreateMarker, Runs
  <2>2. ghidra'[c].at \in {"preparing", "evidence", "recording", "saving"} => g.mode # "inspect"
    BY <1>4, GhidraGoes DEF PrepareProgram, ImportEvidence, RecordAnalysis, Runs
  <2> QED BY <1>1, <1>4, <1>5, <2>1, <2>2 DEF GhidraIsTidy
<1>11. Sole'
  BY <1>1, <1>5 DEF Tidy, Sole, Active, At
<1>12. Prior.existing # Processors /\ (\E d \in Calls \ {c} : pc[d] \in Placed \ Finished) =>
         \A q \in Processors \ Prior.existing : Inside'.results[q] = Inside.results[q]
  <2>1. CASE g.mode = "process"
    BY <1>1, <1>4, <2>1
  <2>2. CASE g.mode = "inspect"
    <3>1. Inside' = Inside \/ InspectProgram(c)
      BY <1>4, <2>2, PriorStays
         DEF GhidraStep, OpenProject, CreateMarker, LoadProgram, PrepareProgram, ImportEvidence, RecordAnalysis,
             SaveProgram, InspectProgram, Stop, Quiet, Bundle, Runs
    <3>2. CASE InspectProgram(c)
      <4>1. \/ final' = final
            \/ \E a : final' = [final EXCEPT !.inside = [Inside EXCEPT !.answers = a]]
        BY <3>2 DEF InspectProgram, Within
      <4>2. final \in Directories /\ Inside \in Insides
        BY InsideIsTyped DEF IInv, TypeOK, BundleOK
      <4>3. Inside'.results = Inside.results
        BY <4>1, <4>2 DEF Inside, Insides, Directories
      <4> QED BY <4>3
    <3> QED BY <3>1, <3>2
  <2> QED BY <1>2, <2>1, <2>2 DEF Ghidras, Modes
<1> HIDE DEF g, p
<1> QED BY <1>1, <1>5, <1>6, <1>7, <1>8, <1>9, <1>10, <1>11, <1>12, OthersStayTidy

\* An import creates the project if there is none, works under the bridge of its bootstrap, and
\* fails only before it has changed anything.
LEMMA ImportGhidraIsTidy ==
    ASSUME IInv, SignedInv, Tidy, NEW c \in Calls, GhidraStep(c), ghidra[c].mode = "import"
    PROVE  Tidy'
<1> DEFINE g == ghidra[c]
           p == job[c].processor
           m == job[c].manifest
<1>1. /\ UNCHANGED <<pc, job, run, success>> /\ \A d \in Calls \ {c} : ghidra'[d] = ghidra[d]
      /\ ghidra'[c].mode = g.mode /\ ghidra'[c].processor = g.processor /\ g.at # "off"
      /\ Inside'.bridge = Inside.bridge /\ ghidra'[c].killed = g.killed
      /\ \A q \in Processors \ {g.processor} : Inside'.results[q] = Inside.results[q]
  BY GhidraActs
<1>2. /\ g \in Ghidras /\ p \in Processors /\ g.copy \in Programs /\ program \in [Processors -> Programs]
      /\ markers \in SUBSET {"gpr", "rep"}
  BY GhidraIsTyped, JobIsTyped DEF IInv, TypeOK
<1>3. pc[c] = "running" /\ Importing(c) /\ ImportIsTidy(c) /\ CallIsTidy(c) /\ GhidraIsTidy(c)
  BY <1>1 DEF Tidy, GhidraIsTidy, Importing
<1>4. /\ g.processor = p /\ p \notin Prior.existing /\ ~g.killed /\ Prior.existing # Processors
      /\ ~HasSaved(c)
  BY <1>1, <1>2, <1>3 DEF ImportIsTidy, HasSaved
<1>5. Active(c) /\ job[c].kind = "bootstrap" /\ Inside.bridge = m /\ m # None
  <2>1. pc[c] \in Started /\ pc[c] \in Placed \ Finished /\ pc[c] \notin Ended /\ pc[c] # "idle"
    BY <1>3 DEF Started, Placed, Finished, Ended
  <2> QED BY <1>3, <1>4, <2>1 DEF SignedInv, CallSigns, Active, CallIsTidy
<1>6. Prior' = Prior
  BY <1>1, PriorStays
<1>7. CallIsTidy(c)'
  BY <1>1, <1>3, <1>6 DEF CallIsTidy, Active, At
<1>8. GhidraIsTidy(c)'
  BY <1>1, <1>3 DEF GhidraIsTidy
<1>9. Importing(c)'
  BY <1>1, <1>3 DEF Importing
<1>10. g.at \in {"evidence", "recording", "saving"} => g.copy.manifest = m
  BY <1>3 DEF ImportIsTidy
<1>11. g.at \notin {"opening", "creating"} => Found /\ Saved = Prior.existing
  BY <1>1, <1>3, <1>4 DEF ImportIsTidy
<1>12. ImportIsTidy(c)'
  <2> SUFFICES /\ IF HasSaved(c)' THEN Found' /\ Saved' = Prior'.existing \cup {p}
                  ELSE IF ghidra'[c].at \in {"off", "opening"} THEN Settled'
                  ELSE /\ Saved' = Prior'.existing
                       /\ IF ghidra'[c].at = "creating" THEN Saved' = {} ELSE Found'
               /\ ghidra'[c].at = "saving" \/ HasSaved(c)' => Inside'.results[p] = m
               /\ ghidra'[c].at \in {"evidence", "recording", "saving"} => ghidra'[c].copy.manifest = m
    BY <1>1, <1>4, <1>6 DEF ImportIsTidy
  <2>1. HasSaved(c)' <=> ghidra'[c].at = "off" /\ ghidra'[c].ok
    BY <1>1, <1>3 DEF HasSaved
  <2>2. ASSUME UNCHANGED <<markers, program>> PROVE Found' = Found /\ Saved' = Saved /\ Settled' = Settled
    BY <1>6, <2>2, PriorStays DEF Settled
  <2>3. ASSUME NEW ok, Exit(c, ok) PROVE ghidra'[c].at = "off" /\ ghidra'[c].ok = ok
    BY <1>2, <2>3 DEF Exit, Become, Ghidras, IInv, TypeOK
  <2>4. CASE OpenProject(c)
    <3>1. g.at = "opening" /\ UNCHANGED <<markers, program>>
      BY <2>4 DEF OpenProject, Runs, Project
    <3>2. Settled
      BY <1>3, <1>4, <3>1 DEF ImportIsTidy
    <3>3. \/ ghidra'[c].at = "off" /\ ~ghidra'[c].ok
          \/ ghidra'[c].at = "loading" /\ Found
          \/ ghidra'[c].at = "creating" /\ ~Found
      <4>1. Exit(c, FALSE) \/ (Onward(c, "loading") /\ Found) \/ (Onward(c, "creating") /\ ~Found)
        BY <2>4 DEF OpenProject
      <4>2. ASSUME NEW there, Onward(c, there) PROVE ghidra'[c].at = there
        BY <1>2, <4>2 DEF Onward, Become, Ghidras, IInv, TypeOK
      <4> QED BY <2>3, <4>1, <4>2
    <3> QED BY <2>1, <2>2, <3>1, <3>2, <3>3, <1>6 DEF Settled
  <2>5. CASE CreateMarker(c)
    <3>1. g.at = "creating" /\ UNCHANGED program
      BY <2>5 DEF CreateMarker, Runs
    <3>2. Saved = Prior.existing /\ Saved = {}
      BY <1>3, <1>4, <3>1 DEF ImportIsTidy
    <3>3. ghidra'[c].at = IF Found' THEN "loading" ELSE "creating"
      <4>1. Onward(c, IF Found' THEN "loading" ELSE "creating")
        BY <2>5 DEF CreateMarker
      <4> QED BY <1>2, <4>1 DEF Onward, Become, Ghidras, IInv, TypeOK
    <3> QED BY <1>6, <2>1, <3>1, <3>2, <3>3, PriorStays
  <2>6. CASE LoadProgram(c)
    <3>1. g.at = "loading" /\ UNCHANGED <<markers, program>>
      BY <2>6 DEF LoadProgram, Runs, Project
    <3>2. Found /\ Saved = Prior.existing
      BY <1>11, <3>1
    <3>3. ~program[p].there
      BY <1>2, <1>4, <3>2 DEF Saved
    <3>4. Carry(c, "preparing", [program[p] EXCEPT !.there = TRUE])
      BY <1>2, <1>4, <2>6, <3>3 DEF LoadProgram, Programs
    <3>5. ghidra'[c].at = "preparing"
      BY <1>2, <3>4 DEF Carry, Become, Ghidras, IInv, TypeOK
    <3> QED BY <1>6, <2>1, <2>2, <3>1, <3>2, <3>5
  <2>7. CASE PrepareProgram(c)
    <3>1. g.at = "preparing" /\ UNCHANGED <<markers, program>>
          /\ Carry(c, "evidence", [g.copy EXCEPT !.manifest = Inside.bridge])
      BY <1>5, <2>7 DEF PrepareProgram, Runs
    <3>2. Found /\ Saved = Prior.existing
      BY <1>11, <3>1
    <3>3. [g.copy EXCEPT !.manifest = Inside.bridge].manifest = m
      BY <1>2, <1>5 DEF Programs
    <3>4. ghidra'[c].at = "evidence" /\ ghidra'[c].copy = [g.copy EXCEPT !.manifest = Inside.bridge]
      BY <1>2, <3>1 DEF Carry, Become, Ghidras, IInv, TypeOK
    <3> QED BY <1>6, <2>1, <2>2, <3>1, <3>2, <3>3, <3>4
  <2>8. CASE ImportEvidence(c)
    <3>1. g.at = "evidence"
      BY <2>8 DEF ImportEvidence, Runs
    <3>2. Found /\ Saved = Prior.existing /\ Owned(c)
      BY <1>5, <1>10, <1>11, <3>1 DEF Owned
    <3>3. UNCHANGED <<markers, program>> /\ \E e : Carry(c, "recording", [g.copy EXCEPT !.evidence = e])
      BY <2>8, <3>2 DEF ImportEvidence
    <3>4. PICK e : Carry(c, "recording", [g.copy EXCEPT !.evidence = e])
      BY <3>3
    <3>5. [g.copy EXCEPT !.evidence = e].manifest = m
      BY <1>2, <1>10, <3>1 DEF Programs
    <3>6. ghidra'[c].at = "recording" /\ ghidra'[c].copy = [g.copy EXCEPT !.evidence = e]
      BY <1>2, <3>4 DEF Carry, Become, Ghidras, IInv, TypeOK
    <3> QED BY <1>6, <2>1, <2>2, <3>2, <3>3, <3>5, <3>6
  <2>9. CASE RecordAnalysis(c)
    <3>1. g.at = "recording"
      BY <2>9 DEF RecordAnalysis, Runs
    <3>2. Found /\ Saved = Prior.existing /\ Owned(c)
      BY <1>5, <1>10, <1>11, <3>1 DEF Owned
    <3>3. UNCHANGED <<markers, program>> /\ Onward(c, "saving")
      BY <2>9, <3>2 DEF RecordAnalysis
    <3>4. ghidra'[c].at = "saving" /\ ghidra'[c].copy = g.copy
      BY <1>2, <3>3 DEF Onward, Become, Ghidras, IInv, TypeOK
    <3>5. Inside'.results[p] = m
      BY <1>4, <1>5, <2>9, <3>1, <3>4, GhidraGoes
         DEF OpenProject, CreateMarker, LoadProgram, PrepareProgram, ImportEvidence, SaveProgram, Runs
    <3> QED BY <1>6, <1>10, <2>1, <2>2, <3>1, <3>2, <3>3, <3>4, <3>5
  <2>10. CASE SaveProgram(c)
    <3>1. g.at = "saving" /\ program' = [program EXCEPT ![p] = g.copy] /\ Exit(c, TRUE) /\ UNCHANGED <<markers, final>>
      BY <1>4, <2>10 DEF SaveProgram, Runs, Quiet, Bundle
    <3>2. Found /\ Saved = Prior.existing
      BY <1>11, <3>1
    <3>3. g.copy.there
      BY <3>1 DEF IInv, CopiesAreThere
    <3>4. Saved' = Saved \cup {p}
      BY <1>2, <3>1, <3>3 DEF Saved
    <3>5. Inside'.results[p] = m
      BY <1>3, <3>1, PriorStays DEF ImportIsTidy
    <3>6. ghidra'[c].at = "off" /\ ghidra'[c].ok
      BY <2>3, <3>1
    <3> QED BY <1>6, <2>1, <3>1, <3>2, <3>4, <3>5, <3>6, PriorStays
  <2>11. CASE InspectProgram(c)
    BY <2>11 DEF InspectProgram, Runs, IInv, RunsAreApt
  <2>12. CASE Stop(c)
    BY <1>4, <2>12 DEF Stop
  <2> QED BY <2>4, <2>5, <2>6, <2>7, <2>8, <2>9, <2>10, <2>11, <2>12 DEF GhidraStep
<1> HIDE DEF g, p, m
<1> QED BY <1>1, <1>4, <1>5, <1>6, <1>7, <1>8, <1>9, <1>12, ImporterIsTidy

\* A fault that does not cut an import short, and the loss and return of the ROM.
LEMMA TroubleIsTidy ==
    ASSUME IInv, SignedInv, Tidy, ~orphaned',
           \/ \E c \in Calls : KillGhidra(c) \/ OperationFails(c) \/ Crash(c)
           \/ ReplaceRom \/ PutRomBack
    PROVE  Tidy'
<1>1. /\ job \in [Calls -> Jobs] /\ pc \in [Calls -> Places] /\ ghidra \in [Calls -> Ghidras]
      /\ final \in Directories /\ Inside \in Insides
  BY InsideIsTyped DEF IInv, TypeOK, BundleOK
<1>2. CASE ReplaceRom \/ PutRomBack
  <2>1. UNCHANGED <<final, pc, markers, program, run, success, job, ghidra>>
    BY <1>2 DEF ReplaceRom, PutRomBack, Project, State
  <2>2. Prior' = Prior /\ Found' = Found /\ Saved' = Saved /\ Inside' = Inside
    BY <2>1, PriorStays
  <2>3. /\ Sole' = Sole /\ Settled' = Settled
        /\ \A c \in Calls : /\ CallIsTidy(c)' = CallIsTidy(c) /\ GhidraIsTidy(c)' = GhidraIsTidy(c)
                            /\ Importing(c)' = Importing(c) /\ ImportIsTidy(c)' = ImportIsTidy(c)
    BY <2>1, <2>2 DEF Sole, Settled, CallIsTidy, GhidraIsTidy, Importing, ImportIsTidy, HasSaved, Active, At
  <2> QED BY <2>3 DEF Tidy
<1>3. ASSUME NEW c \in Calls, KillGhidra(c) PROVE Tidy'
  <2>1. /\ ghidra' = [ghidra EXCEPT ![c] = [ghidra[c] EXCEPT !.killed = TRUE]] /\ ~Importing(c)
        /\ UNCHANGED <<pc, markers, program, run, success, job, final>>
    BY <1>3 DEF KillGhidra, Fault, Become, Project, State
  <2>2. /\ ghidra'[c].at = ghidra[c].at /\ ghidra'[c].mode = ghidra[c].mode /\ ghidra'[c].processor = ghidra[c].processor
        /\ \A d \in Calls \ {c} : ghidra'[d] = ghidra[d]
    BY <1>1, <2>1 DEF Ghidras
  <2>3. Prior' = Prior /\ Saved' = Saved /\ Inside' = Inside
    BY <2>1, PriorStays
  <2>4. CallIsTidy(c)' /\ GhidraIsTidy(c)' /\ ~Importing(c)'
    BY <2>1, <2>2, <2>3 DEF Tidy, CallIsTidy, GhidraIsTidy, Importing, Active, At
  <2>5. Sole'
    BY <2>1, <2>3 DEF Tidy, Sole, Active, At
  <2> QED BY <2>1, <2>2, <2>3, <2>4, <2>5, OthersStayTidy
<1>4. ASSUME NEW c \in Calls, OperationFails(c) \/ Crash(c) PROVE Tidy'
  <2>1. /\ ~Importing(c) /\ UNCHANGED <<markers, program, run, success, ghidra>>
        /\ \E there \in {"failed", "reporting", "removing", "crashed"} : Goto(c, there)
    BY <1>4 DEF OperationFails, Crash, Fault, Project, State
  <2>2. /\ pc'[c] \in {"failed", "reporting", "removing", "crashed"} /\ \A d \in Calls \ {c} : pc'[d] = pc[d]
        /\ pc'[c] = "removing" => pc[c] \in Requesting
        /\ pc'[c] = "reporting" => pc[c] \in Started
        /\ ghidra[c].at # "off" => pc[c] # "running" \/ pc'[c] = "crashed"
        /\ pc[c] = "idle" => pc'[c] = "crashed"
    BY <1>1, <1>4 DEF OperationFails, Crash, Goto, Requesting, Bootstrapping, Started, Trusting
  <2>3. /\ job'[c].kind = job[c].kind /\ \A d \in Calls \ {c} : job'[d] = job[d]
    <3>1. job' = job \/ job' = [job EXCEPT ![c] = [job[c] EXCEPT !.seen = NoProgram]]
      BY <1>4 DEF OperationFails, Crash
    <3> QED BY <1>1, <3>1 DEF Jobs
  <2>4. Inside'.bridge = Inside.bridge /\ Inside'.results = Inside.results
    <3>1. final' = final \/ \E u : final' = [final EXCEPT !.inside = [Inside EXCEPT !.unfinished = u]]
      BY <1>4 DEF OperationFails, Crash, Within
    <3> QED BY <1>1, <3>1 DEF Inside, Insides, Directories
  <2>5. Prior' = Prior /\ Saved' = Saved
    BY <2>1, PriorStays
  <2>6. {"failed", "reporting", "removing", "crashed"} \cap ({"running", "checking", "recording"} \cup Extracting
                                                              \cup Placed \cup Trusting) = {}
        /\ {"failed", "crashed"} \subseteq Ended /\ {"failed", "reporting", "crashed"} \cap Requesting = {}
        /\ "extracted" \notin Requesting \cup Started /\ Ended \cap (Requesting \cup Started) = {}
        /\ "idle" \notin Requesting \cup Started
    BY DEF Extracting, Placed, Finished, Trusting, Requesting, Started, Ended
  <2>7. ~Importing(c)'
    BY <2>2, <2>6 DEF Importing
  <2>8. GhidraIsTidy(c)'
    BY <2>1, <2>2, <2>5 DEF Tidy, GhidraIsTidy, Importing
  <2>9. pc'[c] = "removing" => job[c].kind = "inspect"
    BY <2>2 DEF Tidy, CallIsTidy
  <2>10. CallIsTidy(c)'
    BY <2>2, <2>3, <2>6, <2>9 DEF CallIsTidy, Active, At
  <2>11. Active(c)' => Active(c)
    BY <2>2, <2>6 DEF Active, At
  <2>12. Sole'
    BY <2>2, <2>3, <2>5, <2>11, SoleStays
  <2> QED BY <2>1, <2>2, <2>3, <2>4, <2>5, <2>7, <2>8, <2>10, <2>12, OthersStayTidy
<1> QED BY <1>2, <1>3, <1>4

\* The project stays as the state says as long as no import is cut short.
LEMMA TidyStays ==
    ASSUME IInv, SignedInv, AloneInv, Tidy, ~orphaned', [Next]_vars
    PROVE  Tidy'
<1>1. CASE UNCHANGED vars
  <2>1. UNCHANGED <<final, pc, markers, program, run, success, job, ghidra>>
    BY <1>1 DEF vars
  <2>2. Prior' = Prior /\ Found' = Found /\ Saved' = Saved /\ Inside' = Inside
    BY <2>1, PriorStays
  <2>3. /\ Sole' = Sole /\ Settled' = Settled
        /\ \A c \in Calls : /\ CallIsTidy(c)' = CallIsTidy(c) /\ GhidraIsTidy(c)' = GhidraIsTidy(c)
                            /\ Importing(c)' = Importing(c) /\ ImportIsTidy(c)' = ImportIsTidy(c)
    BY <2>1, <2>2 DEF Sole, Settled, CallIsTidy, GhidraIsTidy, Importing, ImportIsTidy, HasSaved, Active, At
  <2> QED BY <2>3 DEF Tidy
<1>2. ASSUME NEW c \in Calls, GhidraStep(c) PROVE Tidy'
  BY <1>2, OtherGhidraIsTidy, ImportGhidraIsTidy
<1>3. CASE Next
  BY <1>2, <1>3, BeginningIsTidy, ReturnIsTidy, ExtractIsTidy, BootstrapIsTidy, InspectionIsTidy, TroubleIsTidy DEF Next
<1> QED BY <1>1, <1>3

LEMMA ExtractGoesWell ==
    ASSUME IInv, NEW c \in Calls, GoesWell(c), Extract(c)
    PROVE  GoesWell(c)'
<1>1. /\ final \in Directories /\ temp \in [Calls -> Directories] /\ pc \in [Calls -> Places]
      /\ temp[c] \in Directories
  BY DEF IInv, TypeOK, BundleOK
<1>2. UNCHANGED <<rom, job, ghidra, markers>>
  BY DEF Extract, ExtractStep, AssertSourceIdentity, MakeTemporary, Generate, CompareSource, DropTemporary, LookForFinal,
         MoveAside, Promote, DiscardBackup, RemoveFinal, RestoreBackup, Only, Move, Project
<1>3. /\ pc'[c] \in {"filling", "comparing"} => temp'[c].there
      /\ pc'[c] = "comparing" => temp'[c].whole
      /\ pc'[c] \in {"looking", "moving", "promoting"} => temp'[c].there /\ temp'[c].whole
      /\ pc'[c] = "moving" => final'.there
      /\ pc'[c] = "promoting" => ~final'.there
      /\ pc'[c] \in {"discarding", "extracted"} => final'.there /\ final'.whole
      /\ pc'[c] \in {"making", "filling", "comparing", "looking", "moving", "promoting", "discarding", "extracted"}
  <2>1. ASSUME NEW there, Goto(c, there) PROVE pc'[c] = there
    BY <1>1, <2>1 DEF Goto
  <2>2. CASE AssertSourceIdentity(c)
    <3>1. Goto(c, "making")
      BY <2>2 DEF AssertSourceIdentity, Only, Move, GoesWell
    <3> QED BY <2>1, <3>1
  <2>3. CASE MakeTemporary(c)
    <3>1. Goto(c, "filling") /\ temp' = [temp EXCEPT ![c] = Bare] /\ Bare.there
      BY <2>3 DEF MakeTemporary, Move, Bare, Absent
    <3> QED BY <1>1, <2>1, <3>1
  <2>4. CASE Generate(c)
    <3>1. Goto(c, "comparing") /\ temp' = [temp EXCEPT ![c] = [temp[c] EXCEPT !.whole = rom]] /\ rom /\ temp[c].there
      BY <2>4 DEF Generate, Move, GoesWell, At
    <3>2. [temp[c] EXCEPT !.whole = rom].there /\ [temp[c] EXCEPT !.whole = rom].whole
      BY <1>1, <3>1 DEF Directories
    <3> QED BY <1>1, <2>1, <3>1, <3>2
  <2>5. CASE CompareSource(c)
    <3>1. Goto(c, "looking") /\ temp' = temp /\ temp[c].there /\ temp[c].whole
      BY <2>5 DEF CompareSource, Only, Move, GoesWell, At
    <3> QED BY <2>1, <3>1
  <2>6. CASE LookForFinal(c)
    <3>1. /\ Goto(c, IF final.there THEN "moving" ELSE "promoting") /\ UNCHANGED <<temp, final>>
          /\ temp[c].there /\ temp[c].whole
      BY <2>6 DEF LookForFinal, Only, Move, GoesWell, At
    <3> QED BY <2>1, <3>1
  <2>7. CASE MoveAside(c)
    <3>1. Goto(c, "promoting") /\ temp' = temp /\ final' = Absent /\ ~Absent.there /\ temp[c].there /\ temp[c].whole
      BY <2>7 DEF MoveAside, Move, GoesWell, At, Absent
    <3> QED BY <2>1, <3>1
  <2>8. CASE Promote(c)
    <3>1. /\ \E there \in {"discarding", "extracted"} : Goto(c, there)
          /\ final' = temp[c] /\ temp[c].there /\ temp[c].whole
      BY <2>8 DEF Promote, Move, GoesWell, At
    <3> QED BY <2>1, <3>1
  <2>9. CASE DiscardBackup(c)
    <3>1. Goto(c, "extracted") /\ final' = final /\ final.there /\ final.whole
      BY <2>9 DEF DiscardBackup, Move, GoesWell, At
    <3> QED BY <2>1, <3>1
  <2>10. CASE DropTemporary(c) \/ RemoveFinal(c) \/ RestoreBackup(c)
    BY <2>10 DEF DropTemporary, RemoveFinal, RestoreBackup, GoesWell, At
  <2> QED BY <2>2, <2>3, <2>4, <2>5, <2>6, <2>7, <2>8, <2>9, <2>10 DEF Extract, ExtractStep
<1> QED BY <1>2, <1>3 DEF GoesWell

\* A call that is alone is not beside an import.
LEMMA AloneIsSettled ==
    ASSUME Tidy, NEW c \in Calls, ~Importing(c), \A e \in Calls \ {c} : ~Active(e)
    PROVE  Settled
<1>1. \A e \in Calls \ {c} : ~Importing(e)
  BY DEF Active, Importing, Ended
<1> QED BY <1>1 DEF Tidy

LEMMA BridgingGoesWell ==
    ASSUME IInv, SignedInv, AloneInv, Tidy, NEW c \in Calls, alone[c], GoesWell(c),
           \/ Consult(c) \/ ValidateBundle(c) \/ BuildBridge(c) \/ RehashSource(c) \/ ClearBridge(c) \/ PlaceBridge(c)
           \/ CheckBridge(c)
    PROVE  GoesWell(c)'
<1>1. /\ final \in Directories /\ pc \in [Calls -> Places] /\ Inside \in Insides /\ job \in [Calls -> Jobs]
      /\ job[c].manifest \in Versions
  BY InsideIsTyped, JobIsTyped DEF IInv, TypeOK, BundleOK
<1>2. ASSUME NEW there, Goto(c, there) PROVE pc'[c] = there
  BY <1>1, <1>2 DEF Goto
<1>3. UNCHANGED <<rom, markers, ghidra>>
  BY DEF Consult, ValidateBundle, BuildBridge, RehashSource, ClearBridge, PlaceBridge, CheckBridge, Enter, Pass, Put,
         Adjust, Unbuild, Only, Move, Stay, Project
<1>4. ASSUME NEW in, final' = [final EXCEPT !.inside = in]
      PROVE  Inside' = in /\ final'.there = final.there /\ final'.whole = final.whole
  BY <1>1, <1>4 DEF Inside, Directories
<1>5. CASE Consult(c)
  <2>1. ~Importing(c) /\ \A e \in Calls \ {c} : ~Active(e)
    BY <1>5 DEF Consult, At, Importing, AloneInv, Solitary
  <2>2. Settled /\ job[c].found = Found
    BY <1>5, <2>1, AloneIsSettled DEF Consult, At, GoesWell
  <2>3. job[c].found = (Prior.existing # {})
    BY <2>2 DEF Settled, Found
  <2>5. Goto(c, "asked")
    BY <1>5, <2>3 DEF Consult, Enter
  <2>4. pc'[c] = "asked"
    BY <1>2, <2>5
  <2> QED BY <1>3, <2>4 DEF GoesWell
<1>6. CASE ValidateBundle(c)
  <2>1. Goto(c, "discovering") /\ final' = final /\ final.there /\ final.whole
    BY <1>6 DEF ValidateBundle, Pass, Only, Move, At, GoesWell
  <2>2. pc'[c] = "discovering"
    BY <1>2, <2>1
  <2> QED BY <1>3, <2>1, <2>2 DEF GoesWell
<1>7. CASE BuildBridge(c)
  <2>1. /\ Goto(c, "rehashing") /\ final.there /\ final.whole
        /\ final' = [final EXCEPT !.there = TRUE, !.inside = [Inside EXCEPT !.unfinished = @ \cup {c}]]
    BY <1>7 DEF BuildBridge, Put, At, GoesWell
  <2>2. pc'[c] = "rehashing"
    BY <1>2, <2>1
  <2>3. Inside' = [Inside EXCEPT !.unfinished = Inside.unfinished \cup {c}] /\ final'.there /\ final'.whole
    BY <1>1, <2>1 DEF Inside, Directories
  <2>4. c \in Inside'.unfinished
    BY <1>1, <2>3 DEF Insides
  <2> QED BY <1>3, <2>2, <2>3, <2>4 DEF GoesWell
<1>8. CASE RehashSource(c)
  <2>1. Goto(c, "clearing") /\ final' = final /\ final.there /\ final.whole /\ c \in Inside.unfinished
    BY <1>8 DEF RehashSource, Only, Move, At, GoesWell
  <2>2. pc'[c] = "clearing" /\ Inside' = Inside
    BY <1>2, <2>1, PriorStays
  <2> QED BY <1>3, <2>1, <2>2 DEF GoesWell
<1>9. CASE ClearBridge(c)
  <2>1. /\ Goto(c, "placing") /\ final.there /\ final.whole /\ c \in Inside.unfinished
        /\ final' = [final EXCEPT !.inside = [Inside EXCEPT !.bridge = None, !.results = [p \in Processors |-> None]]]
    BY <1>9 DEF ClearBridge, Adjust, Move, At, GoesWell
  <2>2. pc'[c] = "placing"
    BY <1>2, <2>1
  <2>3. /\ Inside' = [Inside EXCEPT !.bridge = None, !.results = [p \in Processors |-> None]]
        /\ final'.there /\ final'.whole
    BY <1>4, <2>1
  <2>4. Inside'.bridge = None /\ c \in Inside'.unfinished
    BY <1>1, <2>1, <2>3 DEF Insides
  <2> QED BY <1>3, <2>2, <2>3, <2>4 DEF GoesWell
<1>10. CASE PlaceBridge(c)
  <2>1. /\ Goto(c, "rechecking") /\ final.there /\ final.whole /\ job' = job
        /\ final' = [final EXCEPT !.inside = [Inside EXCEPT !.bridge = job[c].manifest, !.unfinished = @ \ {c}]]
    BY <1>10 DEF PlaceBridge, Adjust, Move, At, GoesWell
  <2>2. pc'[c] = "rechecking"
    BY <1>2, <2>1
  <2>3. /\ Inside' = [Inside EXCEPT !.bridge = job[c].manifest, !.unfinished = Inside.unfinished \ {c}]
        /\ final'.there /\ final'.whole
    BY <1>4, <2>1
  <2>4. Inside'.bridge = job[c].manifest
    BY <1>1, <2>3 DEF Insides
  <2> QED BY <1>3, <2>1, <2>2, <2>3, <2>4 DEF GoesWell
<1>11. CASE CheckBridge(c)
  <2>1. Goto(c, "starting")
    BY <1>11 DEF CheckBridge, Pass, Only, Move, At, GoesWell
  <2>2. pc'[c] = "starting"
    BY <1>2, <2>1
  <2> QED BY <1>3, <2>2 DEF GoesWell
<1> QED BY <1>5, <1>6, <1>7, <1>8, <1>9, <1>10, <1>11

LEMMA RunGoesWell ==
    ASSUME IInv, SignedInv, Tidy, NEW c \in Calls, GoesWell(c),
           \/ WriteStarting(c) \/ Launch(c) \/ EndRun(c) \/ CheckResult(c) \/ RecordProcessor(c) \/ Finish(c)
           \/ WriteSuccess(c) \/ ForgetFailure(c) \/ ReportFailure(c)
    PROVE  GoesWell(c)'
<1>1. /\ ghidra \in [Calls -> Ghidras] /\ pc \in [Calls -> Places] /\ rom
  BY DEF IInv, TypeOK, GoesWell
<1>2. UNCHANGED <<rom, markers>>
  BY DEF WriteStarting, Launch, EndRun, GhidraEnded, CheckResult, RecordProcessor, Finish, WriteSuccess, ForgetFailure,
         ReportFailure, WriteRun, WriteFailure, Adjust, Pass, Learn, Only, Move, Stay, Project
<1>3. ASSUME NEW there, Goto(c, there) PROVE pc'[c] = there
  BY <1>1, <1>3 DEF Goto
<1>4. ASSUME NEW there \in {"launching", "recording", "finishing", "succeeding", "settling", "bootstrapped"}, Goto(c, there)
      PROVE  GoesWell(c)'
  BY <1>1, <1>2, <1>3, <1>4 DEF GoesWell
<1>5. CASE WriteStarting(c)
  BY <1>4, <1>5 DEF WriteStarting, WriteRun, Only, Move
<1>6. CASE Launch(c)
  <2>1. PICK mode : ghidra' = [ghidra EXCEPT ![c] = [NoGhidra EXCEPT !.at = "opening", !.processor = job[c].processor,
                                                                     !.mode = mode]]
    BY <1>1, <1>6 DEF Launch
  <2>2. ghidra'[c].at = "opening" /\ ~ghidra'[c].killed
    BY <1>1, <2>1 DEF NoGhidra
  <2>3. pc'[c] = "running"
    BY <1>1, <1>3, <1>6 DEF Launch, Adjust, Move
  <2> QED BY <1>1, <1>2, <2>2, <2>3 DEF GoesWell
<1>7. CASE EndRun(c)
  <2>1. ghidra[c].at = "off" /\ pc[c] = "running"
    BY <1>7 DEF EndRun, GhidraEnded, At
  <2>2. ghidra[c].ok /\ ~ghidra[c].killed /\ Inside.results[job[c].processor] = job[c].manifest /\ Found
    BY <2>1 DEF GoesWell
  <2>3. Goto(c, "checking") /\ UNCHANGED <<final, job>>
    BY <1>7, <2>2 DEF EndRun, GhidraEnded, Pass, Only, Move
  <2>4. pc'[c] = "checking" /\ Inside' = Inside /\ Found' = Found
    BY <1>2, <1>3, <2>3, PriorStays
  <2> QED BY <1>1, <1>2, <2>2, <2>3, <2>4 DEF GoesWell
<1>8. CASE CheckResult(c)
  <2>1. Inside.results[job[c].processor] = job[c].manifest /\ Found
    BY <1>8 DEF CheckResult, At, GoesWell
  <2>2. Goto(c, "recording")
    BY <1>8, <2>1 DEF CheckResult, Learn, Only, Move
  <2> QED BY <1>4, <2>2
<1>9. CASE RecordProcessor(c)
  <2>1. Goto(c, "launching") \/ Goto(c, "finishing")
    BY <1>9 DEF RecordProcessor, Only, Move
  <2> QED BY <1>4, <2>1
<1>10. CASE Finish(c)
  <2>1. Goto(c, "succeeding")
    BY <1>1, <1>10 DEF Finish, WriteRun, Only, Move
  <2> QED BY <1>4, <2>1
<1>11. CASE WriteSuccess(c)
  BY <1>4, <1>11 DEF WriteSuccess, Only, Move
<1>12. CASE ForgetFailure(c)
  BY <1>4, <1>12 DEF ForgetFailure, WriteFailure, Only, Move
<1>13. CASE ReportFailure(c)
  BY <1>13 DEF ReportFailure, At, GoesWell
<1> QED BY <1>5, <1>6, <1>7, <1>8, <1>9, <1>10, <1>11, <1>12, <1>13

\* The Ghidra of such a bootstrap has the lock, finds or does not find its program as it
\* should, and works under the bridge of its call to the end.
LEMMA GhidraGoesWell ==
    ASSUME IInv, SignedInv, AloneInv, Tidy, NEW c \in Calls, alone[c], job[c].kind = "bootstrap", GoesWell(c),
           GhidraStep(c)
    PROVE  GoesWell(c)'
<1> DEFINE g == ghidra[c]
           p == job[c].processor
           m == job[c].manifest
<1>1. /\ g \in Ghidras /\ p \in Processors /\ program \in [Processors -> Programs]
      /\ g.copy \in Programs /\ ghidra \in [Calls -> Ghidras]
  BY GhidraIsTyped, JobIsTyped DEF IInv, TypeOK
<1>2. /\ UNCHANGED <<pc, job, run, success, rom, temp>> /\ g.at # "off"
      /\ ghidra'[c].killed = g.killed /\ Inside'.bridge = Inside.bridge
  BY GhidraActs
<1>3. pc[c] = "running"
  <2>1. Solitary(c) /\ CallIsTidy(c) /\ "waiting" \in Requesting
    BY DEF AloneInv, Tidy, Requesting
  <2> QED BY <1>2, <2>1 DEF Solitary, CallIsTidy
<1>4. /\ g.processor = p /\ g.mode \in {"import", "process"} /\ rom /\ ~g.killed
      /\ g.at \notin {"opening", "creating"} => Found
      /\ g.at = "saving" => Inside.results[p] = m
  BY <1>3 DEF IInv, RunsAreApt, GoesWell
<1>5. /\ Inside.bridge = m /\ m # None
      /\ g.at \in {"evidence", "recording", "saving"} => g.copy.manifest = m
  <2>1. IsApt(c) /\ pc[c] \in Placed
    BY <1>3 DEF AloneInv, Placed
  <2>2. m # None
    BY DEF SignedInv, CallSigns
  <2> QED BY <1>3, <2>1, <2>2 DEF IsApt, JobIsApt, ProgramsAreApt
<1>6. g.mode = "process" => p \in Prior.existing /\ Found
  <2> SUFFICES ASSUME g.mode = "process" PROVE p \in Prior.existing /\ Found
    OBVIOUS
  <2>1. p \in Prior.existing
    BY <1>2, <1>4 DEF Tidy, GhidraIsTidy
  <2>2. Settled
    BY AloneIsSettled DEF Importing, AloneInv, Solitary
  <2> QED BY <2>1, <2>2 DEF Settled
<1>7. g.mode = "import" /\ g.at = "loading" => ~program[p].there
  <2> SUFFICES ASSUME g.mode = "import", g.at = "loading" PROVE ~program[p].there
    OBVIOUS
  <2>1. ImportIsTidy(c) /\ ~HasSaved(c)
    BY <1>3 DEF Tidy, Importing, HasSaved
  <2> QED BY <1>1, <2>1 DEF ImportIsTidy, Saved
<1>8. g.mode = "process" => program[p].there
  BY <1>1, <1>6, NamedIsSaved DEF Saved
<1>9. SUFFICES /\ ghidra'[c].at = "off" => ghidra'[c].ok
               /\ ghidra'[c].at \in {"saving", "off"} => Inside'.results[p] = m
               /\ ghidra'[c].at \notin {"opening", "creating"} => Found'
  <2>1. pc'[c] = "running" /\ job'[c] = job[c] /\ rom' /\ ~ghidra'[c].killed
    BY <1>2, <1>3, <1>4
  <2> QED BY <2>1 DEF GoesWell
<1>10. ASSUME NEW there, Onward(c, there) PROVE ghidra'[c].at = there
  BY <1>1, <1>10 DEF Onward, Become, Ghidras
<1>11. ASSUME NEW there, NEW s, Carry(c, there, s) PROVE ghidra'[c].at = there
  BY <1>1, <1>11 DEF Carry, Become, Ghidras
<1>12. CASE OpenProject(c)
  <2>1. g.at = "opening" /\ ~\E d \in Calls : ghidra[d].at \notin {"off", "opening"}
    BY <1>12 DEF OpenProject, Runs, AloneInv, Solitary
  <2>2. Onward(c, IF Found THEN "loading" ELSE "creating") /\ UNCHANGED markers
    BY <1>4, <1>6, <1>12, <2>1 DEF OpenProject, Project
  <2> QED BY <1>10, <2>2, PriorStays
<1>13. CASE CreateMarker(c)
  <2>1. Onward(c, IF Found' THEN "loading" ELSE "creating")
    BY <1>13 DEF CreateMarker
  <2> QED BY <1>10, <2>1
<1>14. CASE LoadProgram(c)
  <2>1. g.at = "loading" /\ UNCHANGED markers
    BY <1>14 DEF LoadProgram, Runs, Project
  <2>2. program[p].there # (g.mode = "import")
    BY <1>4, <1>7, <1>8, <2>1
  <2>3. \E s : Carry(c, "preparing", s)
    BY <1>4, <1>14, <2>2 DEF LoadProgram
  <2> QED BY <1>4, <1>11, <2>1, <2>3, PriorStays
<1>15. CASE PrepareProgram(c)
  <2>1. g.at = "preparing" /\ UNCHANGED markers /\ \E s : Carry(c, "evidence", s)
    BY <1>5, <1>15 DEF PrepareProgram, Runs
  <2> QED BY <1>4, <1>11, <2>1, PriorStays
<1>16. CASE ImportEvidence(c)
  <2>1. g.at = "evidence" /\ UNCHANGED markers
    BY <1>16 DEF ImportEvidence, Runs
  <2>2. \E s : Carry(c, "recording", s)
    BY <1>5, <1>16, <2>1 DEF ImportEvidence, Owned
  <2> QED BY <1>4, <1>11, <2>1, <2>2, PriorStays
<1>17. CASE RecordAnalysis(c)
  <2>1. g.at = "recording" /\ UNCHANGED markers
    BY <1>17 DEF RecordAnalysis, Runs
  <2>2. Onward(c, "saving")
    BY <1>5, <1>17, <2>1 DEF RecordAnalysis, Owned
  <2>3. ghidra'[c].at = "saving"
    BY <1>10, <2>2
  <2>4. Inside'.results[p] = m
    BY <1>4, <1>5, <1>17, <2>1, <2>3, GhidraGoes
       DEF OpenProject, CreateMarker, LoadProgram, PrepareProgram, ImportEvidence, SaveProgram, Runs
  <2> QED BY <1>4, <2>1, <2>3, <2>4, PriorStays
<1>18. CASE SaveProgram(c)
  <2>1. g.at = "saving" /\ UNCHANGED <<markers, final>> /\ Exit(c, TRUE)
    BY <1>18 DEF SaveProgram, Runs, Quiet, Bundle
  <2>2. ghidra'[c].ok
    BY <1>1, <2>1 DEF Exit, Become, Ghidras
  <2> QED BY <1>4, <2>1, <2>2, PriorStays
<1>19. CASE InspectProgram(c)
  BY <1>4, <1>19 DEF InspectProgram, Runs, IInv, RunsAreApt
<1>20. CASE Stop(c)
  BY <1>4, <1>20 DEF Stop
<1> QED BY <1>12, <1>13, <1>14, <1>15, <1>16, <1>17, <1>18, <1>19, <1>20 DEF GhidraStep

\* A bootstrap that begins alone finds the project and the state in agreement.
LEMMA BeginsWell ==
    ASSUME IInv, AloneInv, Tidy, NEW c \in Calls, BeginBootstrap(c), alone'[c]
    PROVE  GoesWell(c)'
<1>1. /\ pc[c] = "idle" /\ rom /\ UNCHANGED markers /\ job'[c].found = Found
      /\ pc'[c] = IF Found \/ markers = {} THEN "consulting" ELSE "refused"
  <2>1. PICK m : job' = [job EXCEPT ![c] = [NoJob EXCEPT !.kind = "bootstrap", !.manifest = m, !.found = Found]]
    BY DEF BeginBootstrap
  <2>2. job'[c].found = Found /\ job'[c].kind = "bootstrap"
    BY <2>1 DEF NoJob, IInv, TypeOK
  <2> QED BY <2>2, BeginsAs
<1>2. alone' = [d \in Calls |-> d = c /\ \A e \in Calls \ {c} : ~Active(e) /\ ghidra[e].at = "off"]
  BY DEF BeginBootstrap, Begin
<1>3. \A e \in Calls \ {c} : ~Active(e)
  BY <1>2
<1>4. Settled
  BY <1>1, <1>3, AloneIsSettled DEF Importing
<1>5. rom' /\ Found' = Found
  BY <1>1, PriorStays DEF BeginBootstrap, Only, Move
<1>6. pc'[c] = "consulting"
  BY <1>1, <1>4 DEF Settled
<1> QED BY <1>1, <1>5, <1>6 DEF GoesWell

\* What leaves a call alone.
LEMMA StepsOfACall ==
    ASSUME IInv, NEW d \in Calls, Extract(d) \/ BootstrapStep(d) \/ InspectionStep(d) \/ GhidraStep(d) \/ Return(d)
    PROVE  UNCHANGED <<alone, orphaned>>
<1>1. CASE Extract(d)
  BY <1>1 DEF Extract, History
<1>2. CASE BootstrapStep(d)
  BY <1>2 DEF BootstrapStep, Consult, ValidateBundle, BuildBridge, RehashSource, ClearBridge, PlaceBridge, CheckBridge,
     WriteStarting, Launch, EndRun, GhidraEnded, CheckResult, RecordProcessor, Finish, WriteSuccess, ForgetFailure,
     ReportFailure, WriteRun, WriteFailure, Pass, Learn, Stay, History
<1>3. CASE InspectionStep(d)
  BY <1>3 DEF InspectionStep, ReadTrustedState, MatchBridge, VerifySource, WriteRequest, EndInspection, GhidraEnded,
     ReadAnswer, ConfirmSource, RemoveTransport, Pass, Learn, Stay, History
<1>4. CASE GhidraStep(d)
  BY <1>4, GhidraActs
<1>5. CASE Return(d)
  BY <1>5 DEF Return, History
<1> QED BY <1>1, <1>2, <1>3, <1>4, <1>5

LEMMA OrphansStay ==
    ASSUME IInv, AloneInv, [Next]_vars
    PROVE  orphaned => orphaned'
<1>1. ASSUME NEW c \in Calls, BeginExtraction(c) \/ BeginBootstrap(c) \/ BeginInspection(c)
      PROVE  orphaned => orphaned'
  BY <1>1, BeginsAs
<1>2. ASSUME NEW c \in Calls, KillGhidra(c) \/ ExtractionFails(c) \/ OperationFails(c) \/ Crash(c)
      PROVE  orphaned => orphaned'
  BY <1>2 DEF KillGhidra, ExtractionFails, OperationFails, Crash, Fault
<1>3. CASE ReplaceRom \/ PutRomBack \/ UNCHANGED vars
  BY <1>3 DEF ReplaceRom, PutRomBack, History, vars
<1> QED BY <1>1, <1>2, <1>3, StepsOfACall DEF Next

LEMMA StaysAsItGoes ==
    ASSUME NEW c \in Calls, UNCHANGED <<final, temp, rom, markers>>, pc'[c] = pc[c], job'[c] = job[c],
           ghidra'[c] = ghidra[c], GoesWell(c)
    PROVE  GoesWell(c)'
BY PriorStays DEF GoesWell

LEMMA GoesOnWell ==
    ASSUME IInv, SignedInv, AloneInv, RetryInv, ~orphaned', [Next]_vars,
           NEW c \in Calls, alone'[c], job'[c].kind = "bootstrap"
    PROVE  GoesWell(c)'
<1>1. ~orphaned /\ Tidy /\ (alone[c] /\ job[c].kind = "bootstrap" => GoesWell(c))
  BY OrphansStay DEF RetryInv
<1>2. job \in [Calls -> Jobs] /\ pc \in [Calls -> Places]
  BY DEF IInv, TypeOK
<1>3. CASE UNCHANGED vars
  BY <1>1, <1>3, StaysAsItGoes DEF vars
<1>4. CASE ReplaceRom \/ \E d \in Calls : KillGhidra(d) \/ ExtractionFails(d) \/ OperationFails(d) \/ Crash(d)
  BY <1>4 DEF ReplaceRom, KillGhidra, ExtractionFails, OperationFails, Crash, Fault, Trouble
<1>5. CASE PutRomBack
  BY <1>1, <1>5 DEF PutRomBack, History, GoesWell
<1>6. ASSUME NEW d \in Calls, BeginExtraction(d) \/ BeginBootstrap(d) \/ BeginInspection(d)
      PROVE  GoesWell(c)'
  <2>1. alone' = [x \in Calls |-> x = d /\ \A e \in Calls \ {d} : ~Active(e) /\ ghidra[e].at = "off"]
    BY <1>6 DEF BeginExtraction, BeginBootstrap, BeginInspection, Begin
  <2>2. c = d
    BY <2>1
  <2>3. BeginBootstrap(c)
    BY <1>6, <2>2, BeginsAs
  <2> QED BY <1>1, <2>3, BeginsWell
<1>7. ASSUME NEW d \in Calls, Return(d) PROVE GoesWell(c)'
  <2>1. /\ UNCHANGED <<final, temp, rom, markers, ghidra, alone>> /\ job' = [job EXCEPT ![d] = NoJob]
        /\ Goto(d, "idle")
    BY <1>7 DEF Return, Bundle, Project, History
  <2>2. c # d
    BY <1>2, <2>1 DEF NoJob
  <2>3. pc'[c] = pc[c] /\ job'[c] = job[c]
    BY <1>2, <2>1, <2>2 DEF Goto
  <2> QED BY <1>1, <2>1, <2>3, StaysAsItGoes
<1>8. ASSUME NEW d \in Calls, Extract(d) \/ BootstrapStep(d) \/ InspectionStep(d) \/ GhidraStep(d)
      PROVE  GoesWell(c)'
  <2>1. alone[c]
    BY <1>8, StepsOfACall
  <2>2. c = d
    BY <1>8, <2>1, OnlyTheActive DEF AloneInv, Solitary
  <2>3. CASE Extract(c)
    BY <1>1, <2>1, <2>3, ExtractGoesWell DEF Extract
  <2>4. CASE BootstrapStep(c)
    <3>1. GoesWell(c)
      BY <1>1, <2>1, <2>4, BootstrapsOnly
    <3> QED BY <1>1, <2>1, <2>4, <3>1, BridgingGoesWell, RunGoesWell DEF BootstrapStep
  <2>5. CASE InspectionStep(c)
    <3>1. pc[c] \in Trusting \cup Requesting
      BY <2>5 DEF InspectionStep, ReadTrustedState, MatchBridge, VerifySource, WriteRequest, EndInspection, ReadAnswer,
             ConfirmSource, RemoveTransport, At, Trusting, Requesting
    <3>2. \/ job' = job
          \/ \E m : job' = [job EXCEPT ![c] = [job[c] EXCEPT !.manifest = m]]
          \/ \E s : job' = [job EXCEPT ![c] = [job[c] EXCEPT !.seen = s]]
      BY <2>5 DEF InspectionStep, ReadTrustedState, MatchBridge, VerifySource, WriteRequest, EndInspection, GhidraEnded,
             ReadAnswer, ConfirmSource, RemoveTransport, Pass, Learn
    <3>3. job'[c].kind = job[c].kind
      BY <1>2, <3>2 DEF Jobs
    <3> QED BY <1>1, <3>1, <3>3 DEF Tidy, CallIsTidy
  <2>6. CASE GhidraStep(c)
    BY <1>1, <2>1, <2>6, GhidraActs, GhidraGoesWell
  <2> QED BY <1>8, <2>2, <2>3, <2>4, <2>5, <2>6
<1> QED BY <1>3, <1>4, <1>5, <1>6, <1>7, <1>8 DEF Next

LEMMA RetryInvariance == Spec => []RetryInv
<1>1. Init => RetryInv
  <2> SUFFICES ASSUME Init PROVE Tidy /\ \A c \in Calls : ~alone[c]
    BY DEF RetryInv
  <2>1. /\ markers = {} /\ Saved = {} /\ Prior.existing = {}
        /\ \A c \in Calls : pc[c] = "idle" /\ ghidra[c].at = "off" /\ ~alone[c]
    BY DEF Init, BundleInit, NoGhidra, NoRun, NoProgram, Prior, Saved
  <2>2. Settled
    BY <2>1 DEF Settled, Found
  <2>3. \A c \in Calls : ~Active(c) /\ ~Importing(c)
    BY <2>1 DEF Active, At, Importing
  <2>4. "idle" \notin Placed \cup Extracting \cup Trusting \cup Requesting
    BY DEF Placed, Finished, Extracting, Trusting, Requesting
  <2>5. \A c \in Calls : CallIsTidy(c) /\ GhidraIsTidy(c)
    BY <2>1, <2>3, <2>4 DEF CallIsTidy, GhidraIsTidy
  <2> QED BY <2>1, <2>2, <2>3, <2>5 DEF Tidy, Sole
<1>2. IInv /\ SignedInv /\ AloneInv /\ RetryInv /\ [Next]_vars => RetryInv'
  <2> SUFFICES ASSUME IInv, SignedInv, AloneInv, RetryInv, [Next]_vars, ~orphaned'
               PROVE  Tidy' /\ \A c \in Calls : alone'[c] /\ job'[c].kind = "bootstrap" => GoesWell(c)'
    BY DEF RetryInv
  <2>1. Tidy
    BY OrphansStay DEF RetryInv
  <2> QED BY <2>1, TidyStays, GoesOnWell
<1> QED BY <1>1, <1>2, Invariance, SignedInvariance, AloneInvariance, PTL DEF Spec

\* A bootstrap that no other call accompanies and that nothing fails neither fails nor is refused,
\* whatever state earlier failures, crashes and overlaps have left, unless one of them cut an
\* import short after Ghidra had begun to create what the state does not name yet: the markers,
\* the state files and the saved programs agree (the check of ghidra-project.ts 509), so that the
\* mode of every run is the right one (570), the project lock is free, and the result checked at
\* the end is of this bridge.
THEOREM RetrySucceeds == Spec => []RetryRecovers
<1>1. RetryInv => RetryRecovers
  BY DEF RetryInv, RetryRecovers, GoesWell
<1> QED BY <1>1, RetryInvariance, PTL
=============================================================================

---------------------------- MODULE MutationBuild ----------------------------
(***************************************************************************)
(* Building and verifying one mutation manifest: calls of                  *)
(* nds_mutation_build and nds_mutation_verify, in one server or several,   *)
(* over the source ROM, the replacement artifact, one staging directory    *)
(* per build and the one directory every build of the manifest publishes   *)
(* to, whose name its content hashes decide.                               *)
(*                                                                         *)
(* The source and the artifact are TRUE while they have the content the    *)
(* manifest was written for.  An output ROM is what it was made from, and  *)
(* right when both were.                                                   *)
(***************************************************************************)
EXTENDS Integers, FiniteSets

CONSTANTS Builders,    \* calls of nds_mutation_build
          Verifiers,   \* calls of nds_mutation_verify
          MaxEdits,    \* changes others make to the files
          MaxFaults    \* file operations that fail, and crashes

Calls == Builders \cup Verifiers

ASSUME CallsAssumption == Builders \cap Verifiers = {}
ASSUME BoundsAssumption == MaxEdits \in Nat /\ MaxFaults \in Nat

VARIABLES source, artifact,   \* the inputs as the manifest wants them
          inPlan,             \* the plan holds the artifact's content (version 2 operations)
          published,          \* the final directory
          stage,              \* the staging directory of each build
          pc, answer,         \* where a call is, and what it has told its client
          readOk,             \* the map a call has read is of the wanted source
          edits, faults,      \* bounds
          seenWhole,          \* history: the final directory was whole during the call
          quiet               \* history: ... from its start, and nothing has gone wrong since
vars == <<source, artifact, inPlan, published, stage, pc, answer, readOk, edits, faults, seenWhole, quiet>>

\* A directory: what the source and the artifact were when its ROM was made,
\* whether the evidence is complete and right, and whether nothing else is there.
Directories == [there : BOOLEAN, source : BOOLEAN, artifact : BOOLEAN, evidence : BOOLEAN, exact : BOOLEAN]
Absent == [there |-> FALSE, source |-> FALSE, artifact |-> FALSE, evidence |-> FALSE, exact |-> FALSE]
Right(d) == d.source /\ d.artifact
Whole(d) == d.there /\ Right(d) /\ d.evidence /\ d.exact

Staging == {"copying", "checkingCopy", "applying", "verifying", "reporting", "hook", "rechecking", "publishing"}
Checking == {"entries", "published", "evidence", "current"}
Places == {"idle", "mapping", "hashing", "reading", "looking", "rehashing", "rereading", "staging"}
          \cup Staging \cup Checking \cup {"cleaning", "done", "crashed"}
Answers == {"none", "built", "reused", "collision", "failed"}

TypeOK ==
    /\ source \in BOOLEAN /\ artifact \in BOOLEAN /\ inPlan \in BOOLEAN
    /\ published \in Directories
    /\ stage \in [Calls -> Directories]
    /\ pc \in [Calls -> Places]
    /\ answer \in [Calls -> Answers]
    /\ readOk \in [Calls -> BOOLEAN]
    /\ edits \in 0..MaxEdits /\ faults \in 0..MaxFaults
    /\ seenWhole \in [Calls -> BOOLEAN] /\ quiet \in [Calls -> BOOLEAN]

Init == /\ source = TRUE /\ artifact = TRUE /\ inPlan \in BOOLEAN
        /\ published = Absent
        /\ stage = [c \in Calls |-> Absent]
        /\ pc = [c \in Calls |-> "idle"]
        /\ answer = [c \in Calls |-> "none"]
        /\ readOk = [c \in Calls |-> FALSE]
        /\ edits = 0 /\ faults = 0
        /\ seenWhole = [c \in Calls |-> FALSE]
        /\ quiet = [c \in Calls |-> TRUE]

Active(c) == pc[c] \notin {"idle", "done", "crashed"}

\* The history after a step that leaves the final directory as d and disturbs
\* the calls in "who".
Observe(d, who) ==
    /\ seenWhole' = [c \in Calls |-> seenWhole[c] \/ (Active(c) /\ Whole(d))]
    /\ quiet' = [c \in Calls |-> quiet[c] /\ c \notin who]

At(c, here) == pc[c] = here
Goto(c, there) == pc' = [pc EXCEPT ![c] = there]
Files == <<source, artifact, inPlan, edits, faults>>
KeepFiles == UNCHANGED Files /\ Observe(published', {})
Only(c, there) == Goto(c, there) /\ UNCHANGED <<published, stage, answer, readOk>> /\ KeepFiles

\* A call answers at once, or, past staging, when its stage is removed (finally).
End(c, there, what) ==
    /\ Goto(c, there)
    /\ answer' = [answer EXCEPT ![c] = what]
    /\ UNCHANGED <<published, stage, readOk>>
\* What an error at its place makes of a call.
AfterError(c) == IF pc[c] \in Staging THEN "cleaning" ELSE "done"
ErrorOf(c) == IF pc[c] \in Checking \/ (pc[c] = "publishing" /\ published.there) THEN "collision" ELSE "failed"
Abort(c) == End(c, AfterError(c), ErrorOf(c))
\* A check that lets the call go on, or ends it.
Require(c, ok, there) ==
    /\ End(c, IF ok THEN there ELSE AfterError(c), IF ok THEN answer[c] ELSE ErrorOf(c))
    /\ KeepFiles

-----------------------------------------------------------------------------
(* The plan: the map, the hash of the source, the hash of the artifact *)

ReadMap(c) ==
    /\ At(c, "idle")
    /\ Goto(c, "mapping")
    /\ readOk' = [readOk EXCEPT ![c] = source]
    /\ seenWhole' = [seenWhole EXCEPT ![c] = Whole(published)]
    /\ quiet' = [d \in Calls |-> IF d = c THEN source /\ artifact /\ Whole(published) ELSE quiet[d]]
    /\ UNCHANGED <<published, stage, answer, Files>>

CompareMap(c) ==
    /\ pc[c] \in {"mapping", "rehashing"}
    /\ Require(c, readOk[c] /\ source, IF At(c, "mapping") THEN "reading" ELSE "rereading")

ReadArtifact(c) ==
    /\ pc[c] \in {"reading", "rereading"}
    /\ Require(c, artifact /\ source,
               IF At(c, "rereading") \/ c \in Verifiers THEN "entries" ELSE "looking")

\* Mutant: a build stages its output whatever is published.
LookForNothing(c) == At(c, "looking") /\ Only(c, "staging")
\* A build that finds its directory verifies it, from a plan of its own.
LookForBuild(c) ==
    /\ At(c, "looking")
    /\ Only(c, IF published.there THEN "rehashing" ELSE "staging")

-----------------------------------------------------------------------------
(* Building *)

CreateStage(c) ==
    /\ At(c, "staging")
    /\ stage' = [stage EXCEPT ![c] = [Absent EXCEPT !.there = TRUE]]
    /\ Goto(c, "copying")
    /\ UNCHANGED <<published, answer, readOk>> /\ KeepFiles

CopySource(c) ==
    /\ At(c, "copying")
    /\ stage' = [stage EXCEPT ![c].source = source]
    /\ Goto(c, "checkingCopy")
    /\ UNCHANGED <<published, answer, readOk>> /\ KeepFiles

\* Mutant: a bad copy is left where it is.
CheckCopyOnly(c) ==
    /\ At(c, "checkingCopy")
    /\ IF stage[c].source THEN Only(c, "applying") ELSE End(c, "done", "failed") /\ KeepFiles
CheckCopy(c) ==
    /\ At(c, "checkingCopy")
    /\ Require(c, stage[c].source, "applying")

\* A component is read again from its artifact; the rest is in the plan.
ApplyOperations(c) ==
    /\ At(c, "applying")
    /\ stage' = [stage EXCEPT ![c].artifact = inPlan \/ artifact]
    /\ Goto(c, "verifying")
    /\ UNCHANGED <<published, answer, readOk>> /\ KeepFiles

VerifyStage(c) ==
    /\ At(c, "verifying")
    /\ Require(c, source /\ Right(stage[c]), "reporting")

WriteEvidence(c) ==
    /\ At(c, "reporting")
    /\ stage' = [stage EXCEPT ![c].evidence = TRUE, ![c].exact = TRUE]
    /\ Goto(c, "hook")
    /\ UNCHANGED <<published, answer, readOk>> /\ KeepFiles

\* beforePublish: it may do anything to the ROM of the stage.
BeforePublish(c) ==
    /\ At(c, "hook")
    /\ \/ Only(c, "rechecking")
       \/ /\ faults < MaxFaults
          /\ stage' = [stage EXCEPT ![c].artifact = FALSE]
          /\ Goto(c, "rechecking")
          /\ faults' = faults + 1
          /\ UNCHANGED <<source, artifact, inPlan, published, answer, readOk, edits>>
          /\ Observe(published, {c})

\* Mutant: only the source is hashed again.
RecheckSource(c) ==
    /\ At(c, "rechecking")
    /\ Require(c, source, "publishing")
RecheckStage(c) ==
    /\ At(c, "rechecking")
    /\ Require(c, source /\ Right(stage[c]), "publishing")

\* Mutant: an older build is removed to make room.
PublishOver(c) ==
    /\ At(c, "publishing")
    /\ published' = stage[c]
    /\ stage' = [stage EXCEPT ![c] = Absent]
    /\ answer' = [answer EXCEPT ![c] = "built"]
    /\ Goto(c, "cleaning")
    /\ UNCHANGED readOk /\ KeepFiles
\* rename(2) does not replace a directory that has entries.
Publish(c) ==
    /\ At(c, "publishing")
    /\ \/ published.there /\ Abort(c)
       \/ /\ ~published.there
          /\ published' = stage[c]
          /\ stage' = [stage EXCEPT ![c] = Absent]
          /\ answer' = [answer EXCEPT ![c] = "built"]
          /\ Goto(c, "cleaning")
          /\ UNCHANGED readOk
    /\ KeepFiles

\* Best effort: a stage that cannot be removed stays.
RemoveStage(c) ==
    /\ At(c, "cleaning")
    /\ stage' = [stage EXCEPT ![c] = Absent]
    /\ Goto(c, "done")
    /\ UNCHANGED <<published, answer, readOk>> /\ KeepFiles

-----------------------------------------------------------------------------
(* Verifying what is published *)

\* Mutant: further entries do not matter.
RequireDirectory(c) ==
    /\ At(c, "entries")
    /\ Require(c, published.there, "published")
RequireEntries(c) ==
    /\ At(c, "entries")
    /\ Require(c, published.there /\ published.exact, "published")

VerifyPublished(c) ==
    /\ At(c, "published")
    /\ Require(c, source /\ published.there /\ Right(published), "evidence")

CompareEvidence(c) ==
    /\ At(c, "evidence")
    /\ Require(c, published.there /\ published.evidence, "current")

RecheckPublished(c) ==
    /\ At(c, "current")
    /\ LET ok == source /\ published.there /\ Right(published)
       IN  End(c, "done", IF ok THEN "reused" ELSE ErrorOf(c))
    /\ KeepFiles

-----------------------------------------------------------------------------
(* Faults, and what others do to the files *)

\* A file operation of the call fails.
OperationFails(c) ==
    /\ Active(c) /\ faults < MaxFaults
    /\ End(c, AfterError(c), IF At(c, "cleaning") THEN answer[c] ELSE ErrorOf(c))
    /\ faults' = faults + 1
    /\ UNCHANGED <<source, artifact, inPlan, edits>>
    /\ Observe(published, {c})

Crash(c) ==
    /\ Active(c) /\ faults < MaxFaults
    /\ Goto(c, "crashed")
    /\ faults' = faults + 1
    /\ UNCHANGED <<source, artifact, inPlan, published, stage, answer, readOk, edits>>
    /\ Observe(published, {c})

EditInputs ==
    /\ edits < MaxEdits /\ edits' = edits + 1
    /\ \/ source' = ~source /\ artifact' = artifact
       \/ artifact' = ~artifact /\ source' = source
    /\ UNCHANGED <<inPlan, published, stage, pc, answer, readOk, faults>>
    /\ Observe(published, Calls)

\* Someone edits, adds to or deletes what was published.
TouchPublished ==
    /\ edits < MaxEdits /\ edits' = edits + 1
    /\ published.there
    /\ published' \in {Absent, [published EXCEPT !.artifact = FALSE],
                       [published EXCEPT !.evidence = FALSE], [published EXCEPT !.exact = FALSE]}
    /\ UNCHANGED <<source, artifact, inPlan, stage, pc, answer, readOk, faults>>
    /\ Observe(published', Calls)

-----------------------------------------------------------------------------
Step(c) ==
    \/ ReadMap(c) \/ CompareMap(c) \/ ReadArtifact(c) \/ LookForBuild(c)
    \/ CreateStage(c) \/ CopySource(c) \/ CheckCopy(c) \/ ApplyOperations(c)
    \/ VerifyStage(c) \/ WriteEvidence(c) \/ BeforePublish(c) \/ RecheckStage(c)
    \/ Publish(c) \/ RemoveStage(c)
    \/ RequireEntries(c) \/ VerifyPublished(c) \/ CompareEvidence(c) \/ RecheckPublished(c)

Next == \/ \E c \in Calls : Step(c) \/ OperationFails(c) \/ Crash(c)
        \/ EditInputs \/ TouchPublished

Spec == Init /\ [][Next]_vars

-----------------------------------------------------------------------------
(* Properties *)

\* Nothing but a whole build from the wanted inputs ever appears under the
\* final name, and no call changes or removes what is there, whatever fails,
\* races or changes meanwhile (build.ts:239, staging.ts): only the user does.
WriteOnce ==
    [][published' # published =>
           \/ ~published.there /\ Whole(published')
           \/ edits' # edits]_vars

\* A success is true: the directory was whole at some moment of the call that
\* reports it built or reused (build.ts:153-210).
SuccessIsTrue == \A c \in Calls : answer[c] \in {"built", "reused"} => seenWhole[c]

\* A call that finds a whole build when it starts, with nothing going wrong
\* afterwards, reuses it, whoever else builds or verifies at the time.
WholeIsReused ==
    \A c \in Calls : pc[c] = "done" /\ quiet[c] => answer[c] = "reused"

\* Racing builds lose to each other only: when all have ended and nothing went
\* wrong from outside, the build is published and exactly one call published it.
RaceIsWon ==
    (\A c \in Calls : pc[c] = "done") /\ edits = 0 /\ faults = 0 /\ Builders # {} =>
        /\ Whole(published)
        /\ Cardinality({c \in Calls : answer[c] = "built"}) = 1
        /\ \A c \in Builders : answer[c] \in {"built", "reused", "collision"}

\* A call that has ended leaves no stage behind unless the file system refused
\* to remove it (the finally of build.ts:264, the catch of staging.ts:149).
NoStageLeft ==
    \A c \in Calls : pc[c] = "done" /\ stage[c].there => faults > 0 /\ answer[c] # "built"

\* Why: what a call knows of the final directory and of its stage.  The
\* inductive invariant of MutationBuildProofs.
Known(c) ==
    /\ pc[c] \notin {"cleaning", "crashed", "done"} => answer[c] = "none"
    /\ pc[c] \in Staging => stage[c].there
    /\ pc[c] \in {"hook", "rechecking", "publishing"} => stage[c].evidence /\ stage[c].exact
    /\ pc[c] = "publishing" => Right(stage[c])
    /\ pc[c] \notin Staging \cup {"cleaning", "crashed", "done"} => ~stage[c].there
    /\ pc[c] = "cleaning" /\ answer[c] = "built" => ~stage[c].there
    /\ pc[c] = "published" => seenWhole[c] \/ ~published.there \/ ~Right(published) \/ ~published.evidence
    /\ pc[c] = "evidence" => seenWhole[c] \/ ~published.there \/ ~published.evidence
    /\ pc[c] = "current" => seenWhole[c]
    /\ answer[c] \in {"built", "reused"} => seenWhole[c]
    /\ quiet[c] /\ Active(c) =>
          /\ source /\ artifact /\ Whole(published) /\ readOk[c]
          /\ pc[c] \in {"mapping", "reading", "looking", "rehashing", "rereading"} \cup Checking
    /\ quiet[c] /\ pc[c] = "done" => answer[c] = "reused"
    /\ pc[c] = "done" /\ stage[c].there => faults > 0 /\ answer[c] # "built"
IInv == TypeOK /\ \A c \in Calls : Known(c)
=============================================================================

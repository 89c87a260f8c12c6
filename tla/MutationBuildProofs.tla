------------------------- MODULE MutationBuildProofs -------------------------
(***************************************************************************)
(* The safety of MutationBuild for any calls, edits and faults, from the   *)
(* inductive invariant IInv of that module: what each call knows of its    *)
(* stage and of the final directory at each of its places.                 *)
(***************************************************************************)
EXTENDS MutationBuild, FiniteSetTheorems, TLAPS

LEMMA InitIInv == Init => IInv
  BY BoundsAssumption
     DEF Init, IInv, Known, TypeOK, Directories, Places, Answers, Active, Staging, Checking, Absent

\* A call keeps what it knows while only the others move, the inputs and the
\* final directory stay, and the histories grow as they do.
LEMMA BystanderKeeps ==
  ASSUME TypeOK, NEW d \in Calls, Known(d),
         pc'[d] = pc[d], stage'[d] = stage[d], answer'[d] = answer[d], readOk'[d] = readOk[d],
         published' = published, source' = source, artifact' = artifact,
         faults' \in Nat, faults' >= faults, seenWhole[d] => seenWhole'[d], quiet'[d] => quiet[d]
  PROVE  Known(d)'
  BY DEF Known, TypeOK, Active, Staging, Checking, Whole, Right

LEMMA ReadMapKeeps == ASSUME IInv, NEW c \in Calls, ReadMap(c) PROVE IInv'
<1> USE BoundsAssumption DEF IInv, ReadMap, Goto, At, Files
<1>1. TypeOK'
  <2>1. (source /\ artifact /\ Whole(published)) \in BOOLEAN /\ Whole(published) \in BOOLEAN
    BY DEF TypeOK, Whole, Right, Directories
  <2>2. quiet' \in [Calls -> BOOLEAN] /\ seenWhole' \in [Calls -> BOOLEAN]
    BY <2>1 DEF TypeOK
  <2> QED
    BY <2>2 DEF TypeOK, Places, Answers, Staging, Checking
<1>2. Known(c)'
  BY DEF TypeOK, Known, Active, Staging, Checking, Whole, Right, Directories, Absent
<1>3. ASSUME NEW d \in Calls, d # c PROVE Known(d)'
  BY <1>3, BystanderKeeps DEF TypeOK
<1> QED
  BY <1>1, <1>2, <1>3

LEMMA CompareMapKeeps == ASSUME IInv, NEW c \in Calls, CompareMap(c) PROVE IInv'
<1> USE BoundsAssumption DEF IInv, CompareMap, Only, KeepFiles, Files, Observe, Goto, At, Require, End, AfterError, ErrorOf
<1>1. TypeOK'
  BY DEF TypeOK, Directories, Places, Answers, Staging, Checking, Absent
<1>2. Known(c)'
  BY DEF TypeOK, Known, Active, Staging, Checking, Whole, Right, Directories, Absent
<1>3. ASSUME NEW d \in Calls, d # c PROVE Known(d)'
  BY <1>3, BystanderKeeps DEF TypeOK
<1> QED
  BY <1>1, <1>2, <1>3

LEMMA ReadArtifactKeeps == ASSUME IInv, NEW c \in Calls, ReadArtifact(c) PROVE IInv'
<1> USE BoundsAssumption DEF IInv, ReadArtifact, Only, KeepFiles, Files, Observe, Goto, At, Require, End, AfterError, ErrorOf
<1>1. TypeOK'
  BY DEF TypeOK, Directories, Places, Answers, Staging, Checking, Absent
<1>2. Known(c)'
  BY DEF TypeOK, Known, Active, Staging, Checking, Whole, Right, Directories, Absent
<1>3. ASSUME NEW d \in Calls, d # c PROVE Known(d)'
  BY <1>3, BystanderKeeps DEF TypeOK
<1> QED
  BY <1>1, <1>2, <1>3

LEMMA LookForBuildKeeps == ASSUME IInv, NEW c \in Calls, LookForBuild(c) PROVE IInv'
<1> USE BoundsAssumption DEF IInv, LookForBuild, Only, KeepFiles, Files, Observe, Goto, At
<1>1. TypeOK'
  BY DEF TypeOK, Directories, Places, Answers, Staging, Checking, Absent
<1>2. Known(c)'
  BY DEF TypeOK, Known, Active, Staging, Checking, Whole, Right, Directories, Absent
<1>3. ASSUME NEW d \in Calls, d # c PROVE Known(d)'
  BY <1>3, BystanderKeeps DEF TypeOK
<1> QED
  BY <1>1, <1>2, <1>3

LEMMA CreateStageKeeps == ASSUME IInv, NEW c \in Calls, CreateStage(c) PROVE IInv'
<1> USE BoundsAssumption DEF IInv, CreateStage, Only, KeepFiles, Files, Observe, Goto, At
<1>1. TypeOK'
  BY DEF TypeOK, Directories, Places, Answers, Staging, Checking, Absent
<1>2. Known(c)'
  BY DEF TypeOK, Known, Active, Staging, Checking, Whole, Right, Directories, Absent
<1>3. ASSUME NEW d \in Calls, d # c PROVE Known(d)'
  BY <1>3, BystanderKeeps DEF TypeOK
<1> QED
  BY <1>1, <1>2, <1>3

LEMMA CopySourceKeeps == ASSUME IInv, NEW c \in Calls, CopySource(c) PROVE IInv'
<1> USE BoundsAssumption DEF IInv, CopySource, Only, KeepFiles, Files, Observe, Goto, At
<1>1. TypeOK'
  BY DEF TypeOK, Directories, Places, Answers, Staging, Checking, Absent
<1>2. Known(c)'
  BY DEF TypeOK, Known, Active, Staging, Checking, Whole, Right, Directories, Absent
<1>3. ASSUME NEW d \in Calls, d # c PROVE Known(d)'
  BY <1>3, BystanderKeeps DEF TypeOK
<1> QED
  BY <1>1, <1>2, <1>3

LEMMA CheckCopyKeeps == ASSUME IInv, NEW c \in Calls, CheckCopy(c) PROVE IInv'
<1> USE BoundsAssumption DEF IInv, CheckCopy, Only, KeepFiles, Files, Observe, Goto, At, Require, End, AfterError, ErrorOf
<1>1. TypeOK'
  BY DEF TypeOK, Directories, Places, Answers, Staging, Checking, Absent
<1>2. Known(c)'
  BY DEF TypeOK, Known, Active, Staging, Checking, Whole, Right, Directories, Absent
<1>3. ASSUME NEW d \in Calls, d # c PROVE Known(d)'
  BY <1>3, BystanderKeeps DEF TypeOK
<1> QED
  BY <1>1, <1>2, <1>3

LEMMA ApplyOperationsKeeps == ASSUME IInv, NEW c \in Calls, ApplyOperations(c) PROVE IInv'
<1> USE BoundsAssumption DEF IInv, ApplyOperations, Only, KeepFiles, Files, Observe, Goto, At
<1>1. TypeOK'
  BY DEF TypeOK, Directories, Places, Answers, Staging, Checking, Absent
<1>2. Known(c)'
  BY DEF TypeOK, Known, Active, Staging, Checking, Whole, Right, Directories, Absent
<1>3. ASSUME NEW d \in Calls, d # c PROVE Known(d)'
  BY <1>3, BystanderKeeps DEF TypeOK
<1> QED
  BY <1>1, <1>2, <1>3

LEMMA VerifyStageKeeps == ASSUME IInv, NEW c \in Calls, VerifyStage(c) PROVE IInv'
<1> USE BoundsAssumption DEF IInv, VerifyStage, Only, KeepFiles, Files, Observe, Goto, At, Require, End, AfterError, ErrorOf
<1>1. TypeOK'
  BY DEF TypeOK, Directories, Places, Answers, Staging, Checking, Absent
<1>2. Known(c)'
  BY DEF TypeOK, Known, Active, Staging, Checking, Whole, Right, Directories, Absent
<1>3. ASSUME NEW d \in Calls, d # c PROVE Known(d)'
  BY <1>3, BystanderKeeps DEF TypeOK
<1> QED
  BY <1>1, <1>2, <1>3

LEMMA WriteEvidenceKeeps == ASSUME IInv, NEW c \in Calls, WriteEvidence(c) PROVE IInv'
<1> USE BoundsAssumption DEF IInv, WriteEvidence, Only, KeepFiles, Files, Observe, Goto, At
<1>1. TypeOK'
  BY DEF TypeOK, Directories, Places, Answers, Staging, Checking, Absent
<1>2. Known(c)'
  BY DEF TypeOK, Known, Active, Staging, Checking, Whole, Right, Directories, Absent
<1>3. ASSUME NEW d \in Calls, d # c PROVE Known(d)'
  BY <1>3, BystanderKeeps DEF TypeOK
<1> QED
  BY <1>1, <1>2, <1>3

LEMMA BeforePublishKeeps == ASSUME IInv, NEW c \in Calls, BeforePublish(c) PROVE IInv'
<1> USE BoundsAssumption DEF IInv, BeforePublish, Only, KeepFiles, Files, Observe, Goto, At
<1>1. CASE Only(c, "rechecking")
  <2>1. TypeOK'
    BY <1>1 DEF TypeOK, Places, Answers, Staging, Checking
  <2>2. Known(c)'
    BY <1>1 DEF TypeOK, Known, Active, Staging, Checking, Whole, Right
  <2>3. ASSUME NEW d \in Calls, d # c PROVE Known(d)'
    BY <1>1, <2>3, BystanderKeeps DEF TypeOK
  <2> QED
    BY <2>1, <2>2, <2>3
<1>2. CASE stage' = [stage EXCEPT ![c].artifact = FALSE] /\ faults' = faults + 1 /\ Observe(published, {c})
  <2>1. UNCHANGED <<source, artifact, inPlan, published, answer, readOk, edits>> /\ faults < MaxFaults
        /\ pc' = [pc EXCEPT ![c] = "rechecking"]
    BY <1>2 DEF TypeOK
  <2>2. TypeOK'
    <3>1. stage' \in [Calls -> Directories]
      BY <1>2 DEF TypeOK, Directories
    <3>2. faults' \in 0..MaxFaults
      BY <1>2, <2>1 DEF TypeOK
    <3>3. seenWhole' \in [Calls -> BOOLEAN] /\ quiet' \in [Calls -> BOOLEAN]
      BY <1>2 DEF TypeOK
    <3> QED
      BY <2>1, <3>1, <3>2, <3>3 DEF TypeOK, Places, Staging
  <2>3. Known(c)'
    BY <1>2, <2>1 DEF TypeOK, Known, Active, Staging, Checking, Whole, Right, Directories
  <2>4. ASSUME NEW d \in Calls, d # c PROVE Known(d)'
    BY <1>2, <2>1, <2>4, BystanderKeeps DEF TypeOK
  <2> QED
    BY <2>2, <2>3, <2>4
<1> QED
  BY <1>1, <1>2

LEMMA RecheckStageKeeps == ASSUME IInv, NEW c \in Calls, RecheckStage(c) PROVE IInv'
<1> USE BoundsAssumption DEF IInv, RecheckStage, Only, KeepFiles, Files, Observe, Goto, At, Require, End, AfterError, ErrorOf
<1>1. TypeOK'
  BY DEF TypeOK, Directories, Places, Answers, Staging, Checking, Absent
<1>2. Known(c)'
  BY DEF TypeOK, Known, Active, Staging, Checking, Whole, Right, Directories, Absent
<1>3. ASSUME NEW d \in Calls, d # c PROVE Known(d)'
  BY <1>3, BystanderKeeps DEF TypeOK
<1> QED
  BY <1>1, <1>2, <1>3

LEMMA RemoveStageKeeps == ASSUME IInv, NEW c \in Calls, RemoveStage(c) PROVE IInv'
<1> USE BoundsAssumption DEF IInv, RemoveStage, Only, KeepFiles, Files, Observe, Goto, At
<1>1. TypeOK'
  BY DEF TypeOK, Directories, Places, Answers, Staging, Checking, Absent
<1>2. Known(c)'
  BY DEF TypeOK, Known, Active, Staging, Checking, Whole, Right, Directories, Absent
<1>3. ASSUME NEW d \in Calls, d # c PROVE Known(d)'
  BY <1>3, BystanderKeeps DEF TypeOK
<1> QED
  BY <1>1, <1>2, <1>3

LEMMA RequireEntriesKeeps == ASSUME IInv, NEW c \in Calls, RequireEntries(c) PROVE IInv'
<1> USE BoundsAssumption DEF IInv, RequireEntries, Only, KeepFiles, Files, Observe, Goto, At, Require, End, AfterError, ErrorOf
<1>1. TypeOK'
  BY DEF TypeOK, Directories, Places, Answers, Staging, Checking, Absent
<1>2. Known(c)'
  BY DEF TypeOK, Known, Active, Staging, Checking, Whole, Right, Directories, Absent
<1>3. ASSUME NEW d \in Calls, d # c PROVE Known(d)'
  BY <1>3, BystanderKeeps DEF TypeOK
<1> QED
  BY <1>1, <1>2, <1>3

LEMMA VerifyPublishedKeeps == ASSUME IInv, NEW c \in Calls, VerifyPublished(c) PROVE IInv'
<1> USE BoundsAssumption DEF IInv, VerifyPublished, Only, KeepFiles, Files, Observe, Goto, At, Require, End, AfterError, ErrorOf
<1>1. TypeOK'
  BY DEF TypeOK, Directories, Places, Answers, Staging, Checking, Absent
<1>2. Known(c)'
  BY DEF TypeOK, Known, Active, Staging, Checking, Whole, Right, Directories, Absent
<1>3. ASSUME NEW d \in Calls, d # c PROVE Known(d)'
  BY <1>3, BystanderKeeps DEF TypeOK
<1> QED
  BY <1>1, <1>2, <1>3

LEMMA CompareEvidenceKeeps == ASSUME IInv, NEW c \in Calls, CompareEvidence(c) PROVE IInv'
<1> USE BoundsAssumption DEF IInv, CompareEvidence, Only, KeepFiles, Files, Observe, Goto, At, Require, End, AfterError, ErrorOf
<1>1. TypeOK'
  BY DEF TypeOK, Directories, Places, Answers, Staging, Checking, Absent
<1>2. Known(c)'
  BY DEF TypeOK, Known, Active, Staging, Checking, Whole, Right, Directories, Absent
<1>3. ASSUME NEW d \in Calls, d # c PROVE Known(d)'
  BY <1>3, BystanderKeeps DEF TypeOK
<1> QED
  BY <1>1, <1>2, <1>3

LEMMA RecheckPublishedKeeps == ASSUME IInv, NEW c \in Calls, RecheckPublished(c) PROVE IInv'
<1> USE BoundsAssumption DEF IInv, RecheckPublished, Only, KeepFiles, Files, Observe, Goto, At, Require, End, AfterError, ErrorOf
<1>1. TypeOK'
  BY DEF TypeOK, Directories, Places, Answers, Staging, Checking, Absent
<1>2. Known(c)'
  BY DEF TypeOK, Known, Active, Staging, Checking, Whole, Right, Directories, Absent
<1>3. ASSUME NEW d \in Calls, d # c PROVE Known(d)'
  BY <1>3, BystanderKeeps DEF TypeOK
<1> QED
  BY <1>1, <1>2, <1>3

LEMMA OperationFailsKeeps == ASSUME IInv, NEW c \in Calls, OperationFails(c) PROVE IInv'
<1> USE BoundsAssumption DEF IInv, OperationFails, Only, KeepFiles, Files, Observe, Goto, At, Require, End, AfterError, ErrorOf
<1>1. TypeOK'
  BY DEF TypeOK, Directories, Places, Answers, Staging, Checking, Absent
<1>2. Known(c)'
  BY DEF TypeOK, Known, Active, Staging, Checking, Whole, Right, Directories, Absent
<1>3. ASSUME NEW d \in Calls, d # c PROVE Known(d)'
  BY <1>3, BystanderKeeps DEF TypeOK
<1> QED
  BY <1>1, <1>2, <1>3

LEMMA CrashKeeps == ASSUME IInv, NEW c \in Calls, Crash(c) PROVE IInv'
<1> USE BoundsAssumption DEF IInv, Crash, Only, KeepFiles, Files, Observe, Goto, At
<1>1. TypeOK'
  BY DEF TypeOK, Directories, Places, Answers, Staging, Checking, Absent
<1>2. Known(c)'
  BY DEF TypeOK, Known, Active, Staging, Checking, Whole, Right, Directories, Absent
<1>3. ASSUME NEW d \in Calls, d # c PROVE Known(d)'
  BY <1>3, BystanderKeeps DEF TypeOK
<1> QED
  BY <1>1, <1>2, <1>3

\* The only step of a call that changes the final directory: it was absent and
\* is whole from then on, so every call that is active has seen it whole.
LEMMA PublishKeeps == ASSUME IInv, NEW c \in Calls, Publish(c) PROVE IInv'
<1> USE BoundsAssumption DEF IInv, Publish, KeepFiles, Files, Observe, Goto, At
<1>1. CASE published.there /\ Abort(c)
  <2> USE <1>1 DEF Abort, End, AfterError, ErrorOf
  <2>1. TypeOK'
    BY DEF TypeOK, Places, Answers, Staging, Checking
  <2>2. Known(c)'
    BY DEF TypeOK, Known, Active, Staging, Checking, Whole, Right
  <2>3. ASSUME NEW d \in Calls, d # c PROVE Known(d)'
    BY <2>3, BystanderKeeps DEF TypeOK
  <2> QED
    BY <2>1, <2>2, <2>3
<1>2. CASE ~published.there
  <2>1. /\ published' = stage[c] /\ Whole(published')
        /\ stage' = [stage EXCEPT ![c] = Absent]
        /\ answer' = [answer EXCEPT ![c] = "built"]
        /\ pc' = [pc EXCEPT ![c] = "cleaning"]
        /\ UNCHANGED <<readOk, source, artifact, inPlan, edits, faults>>
    BY <1>2 DEF Abort, End, Known, Staging, Whole, Right
  <2>2. \A d \in Calls : /\ seenWhole'[d] = (seenWhole[d] \/ Active(d))
                          /\ quiet'[d] = quiet[d]
    BY <2>1 DEF TypeOK, Whole
  <2>3. TypeOK'
    BY <2>1 DEF TypeOK, Places, Answers, Staging, Checking, Directories, Absent
  <2>4. Known(c)'
    BY <1>2, <2>1, <2>2 DEF TypeOK, Known, Active, Staging, Checking, Whole, Absent
  <2>5. ASSUME NEW d \in Calls, d # c PROVE Known(d)'
    <3>1. pc'[d] = pc[d] /\ stage'[d] = stage[d] /\ answer'[d] = answer[d] /\ readOk'[d] = readOk[d]
      BY <2>1, <2>5 DEF TypeOK
    <3> QED
      BY <1>2, <2>1, <2>2, <3>1 DEF TypeOK, Known, Active, Staging, Checking, Whole
  <2> QED
    BY <2>3, <2>4, <2>5
<1> QED
  BY <1>1, <1>2 DEF Abort

LEMMA EditInputsKeeps == ASSUME IInv, EditInputs PROVE IInv'
<1> USE BoundsAssumption DEF IInv, EditInputs, Observe
<1>1. TypeOK'
  <2>1. source' \in BOOLEAN /\ artifact' \in BOOLEAN
    BY DEF TypeOK
  <2>2. seenWhole' \in [Calls -> BOOLEAN] /\ quiet' \in [Calls -> BOOLEAN]
    BY DEF TypeOK
  <2>3. edits' \in 0..MaxEdits
    BY DEF TypeOK
  <2> QED
    BY <2>1, <2>2, <2>3 DEF TypeOK
<1>2. ASSUME NEW d \in Calls PROVE Known(d)'
  BY DEF TypeOK, Known, Active, Staging, Checking, Whole
<1> QED
  BY <1>1, <1>2

\* Touching what is published can only take it further from being whole.
LEMMA TouchPublishedKeeps == ASSUME IInv, TouchPublished PROVE IInv'
<1> USE BoundsAssumption DEF IInv, TouchPublished, Observe
<1>1. /\ published' \in Directories
      /\ published'.there => (published'.evidence => published.evidence)
      /\ published'.there => (Right(published') => Right(published))
      /\ published.there
  <2>1. CASE published' = Absent
    BY <2>1 DEF TypeOK, Directories, Absent
  <2>2. CASE published' = [published EXCEPT !.artifact = FALSE]
    BY <2>2 DEF TypeOK, Directories, Right
  <2>3. CASE published' = [published EXCEPT !.evidence = FALSE]
    BY <2>3 DEF TypeOK, Directories, Right
  <2>4. CASE published' = [published EXCEPT !.exact = FALSE]
    BY <2>4 DEF TypeOK, Directories, Right
  <2> QED
    BY <2>1, <2>2, <2>3, <2>4
<1>2. TypeOK'
  BY <1>1 DEF TypeOK
<1>3. ASSUME NEW d \in Calls PROVE Known(d)'
  BY <1>1 DEF TypeOK, Known, Active, Staging, Checking
<1> QED
  BY <1>2, <1>3

LEMMA StutterKeeps == IInv /\ UNCHANGED vars => IInv'
  BY DEF IInv, TypeOK, Known, Active, Whole, Right, vars

LEMMA NextKeeps == IInv /\ [Next]_vars => IInv'
<1> SUFFICES ASSUME IInv, Next PROVE IInv'
  BY StutterKeeps
<1>1. ASSUME NEW c \in Calls, Step(c) PROVE IInv'
  BY <1>1, ReadMapKeeps, CompareMapKeeps, ReadArtifactKeeps, LookForBuildKeeps, CreateStageKeeps,
     CopySourceKeeps, CheckCopyKeeps, ApplyOperationsKeeps, VerifyStageKeeps, WriteEvidenceKeeps,
     BeforePublishKeeps, RecheckStageKeeps, PublishKeeps, RemoveStageKeeps, RequireEntriesKeeps,
     VerifyPublishedKeeps, CompareEvidenceKeeps, RecheckPublishedKeeps DEF Step
<1>2. ASSUME NEW c \in Calls, OperationFails(c) \/ Crash(c) PROVE IInv'
  BY <1>2, OperationFailsKeeps, CrashKeeps
<1> QED
  BY <1>1, <1>2, EditInputsKeeps, TouchPublishedKeeps DEF Next

\* What every call knows holds for any number of calls, edits and faults.
THEOREM BuildInvariant == Spec => []IInv
  BY InitIInv, NextKeeps, PTL DEF Spec

\* A reported success is true, whatever races, fails or is edited (build.ts:153-210).
THEOREM BuildSuccessIsTrue == Spec => []SuccessIsTrue
<1>1. IInv => SuccessIsTrue
  BY DEF IInv, Known, SuccessIsTrue
<1> QED
  BY <1>1, BuildInvariant, PTL

\* A call that starts with a whole build and is not disturbed reuses it (build.ts:220).
THEOREM BuildWholeIsReused == Spec => []WholeIsReused
<1>1. IInv => WholeIsReused
  BY DEF IInv, Known, WholeIsReused
<1> QED
  BY <1>1, BuildInvariant, PTL

\* No call that ends leaves its stage, unless removing it failed (build.ts:264).
THEOREM BuildNoStageLeft == Spec => []NoStageLeft
<1>1. IInv => NoStageLeft
  BY DEF IInv, Known, NoStageLeft
<1> QED
  BY <1>1, BuildInvariant, PTL

\* Only whole builds appear under the final name, and no call changes or removes
\* one (build.ts:239).
THEOREM BuildWriteOnce == Spec => WriteOnce
<1> DEFINE Once == published' # published => (~published.there /\ Whole(published')) \/ edits' # edits
<1>1. ASSUME IInv, Next PROVE Once
  <2>1. ASSUME NEW c \in Calls, Publish(c) PROVE Once
    BY <2>1, <1>1 DEF Publish, Abort, End, IInv, Known, Whole, Right, At, Staging
  <2>2. ASSUME NEW c \in Calls, Step(c), ~Publish(c) PROVE published' = published
    BY <2>2 DEF Step, ReadMap, CompareMap, ReadArtifact, LookForBuild, CreateStage, CopySource, CheckCopy,
       ApplyOperations, VerifyStage, WriteEvidence, BeforePublish, RecheckStage, RemoveStage, RequireEntries,
       VerifyPublished, CompareEvidence, RecheckPublished, Only, Require, End
  <2>3. ASSUME NEW c \in Calls, OperationFails(c) \/ Crash(c) PROVE published' = published
    BY <2>3 DEF OperationFails, Crash, End
  <2>4. CASE EditInputs \/ TouchPublished
    BY <1>1, <2>4 DEF EditInputs, TouchPublished, IInv, TypeOK
  <2> QED
    BY <1>1, <2>1, <2>2, <2>3, <2>4 DEF Next
<1>2. IInv /\ [Next]_vars => [Once]_vars
  BY <1>1 DEF vars
<1> QED
  BY <1>2, BuildInvariant, PTL DEF Spec, WriteOnce

-----------------------------------------------------------------------------
(* The race of undisturbed builds *)

\* Nobody has changed a file, and no operation has failed.
Undisturbed == edits = 0 /\ faults = 0
\* Exactly one call has published, once there is anything published.
Won ==
    IF published.there
    THEN /\ Whole(published)
         /\ \E w \in Calls : answer[w] = "built" /\ \A d \in Calls : answer[d] = "built" => d = w
    ELSE \A d \in Calls : answer[d] # "built"
\* Nothing that a build checks fails but the rename, and that only for a loser.
Racing(c) ==
    /\ pc[c] # "crashed"
    /\ pc[c] \in {"mapping", "reading", "looking", "rehashing"} => readOk[c]
    /\ pc[c] \in {"checkingCopy", "applying"} => stage[c].source
    /\ pc[c] \in {"verifying", "reporting", "hook", "rechecking"} => Right(stage[c])
    /\ pc[c] \in {"rehashing", "rereading"} \cup Checking \cup {"cleaning", "done"} => published.there
    /\ pc[c] \in {"cleaning", "done"} => answer[c] \in {"built", "reused", "collision"}
Race == source /\ artifact /\ Won /\ \A c \in Builders : Racing(c)
RaceInv == Undisturbed => Race

\* A step of a call that publishes nothing and disturbs no file.
Quietly(c) ==
    /\ UNCHANGED <<source, artifact, published, edits, faults>>
    /\ answer'[c] = "built" <=> answer[c] = "built"
    /\ \A d \in Calls : d # c => /\ pc'[d] = pc[d] /\ stage'[d] = stage[d]
                                  /\ readOk'[d] = readOk[d] /\ answer'[d] = answer[d]

\* Such a step leaves the race where it is, and every other call.
LEMMA RaceGoesOn ==
  ASSUME RaceInv, NEW c \in Calls, Quietly(c), Race /\ c \in Builders => Racing(c)'
  PROVE  RaceInv'
<1> SUFFICES ASSUME Undisturbed' PROVE Race'
  BY DEF RaceInv
<1> USE DEF Quietly
<1>1. Race
  BY DEF RaceInv, Undisturbed
<1>2. Won'
  BY <1>1 DEF Race, Won, Whole, Right
<1>3. ASSUME NEW d \in Builders PROVE Racing(d)'
  <2>1. CASE d = c
    BY <1>1, <2>1
  <2>2. CASE d # c
    BY <1>1, <2>2 DEF Race, Racing, Right, Calls
  <2> QED
    BY <2>1, <2>2
<1> QED
  BY <1>1, <1>2, <1>3 DEF Race

LEMMA RaceInitially == Init => RaceInv
  BY DEF Init, RaceInv, Race, Won, Racing, Absent, Checking, Calls

LEMMA ReadMapRaces == ASSUME IInv, RaceInv, NEW c \in Calls, ReadMap(c) PROVE RaceInv'
<1> USE DEF IInv, ReadMap, Only, KeepFiles, Files, Goto, At
<1>1. Quietly(c)
  BY DEF Quietly, TypeOK, Known, Staging, Checking
<1>2. ASSUME Race, c \in Builders PROVE Racing(c)'
  <2> USE <1>2, CallsAssumption
  <2>1. source /\ artifact /\ Racing(c)
    BY DEF Race
  <2> QED
    BY <2>1 DEF Racing, TypeOK, Known, Staging, Checking, Right, Race, Won, Whole, Directories
<1> QED
  BY <1>1, <1>2, RaceGoesOn

LEMMA CompareMapRaces == ASSUME IInv, RaceInv, NEW c \in Calls, CompareMap(c) PROVE RaceInv'
<1> USE DEF IInv, CompareMap, Only, KeepFiles, Files, Goto, At, Require, End, AfterError, ErrorOf
<1>1. Quietly(c)
  BY DEF Quietly, TypeOK, Known, Staging, Checking
<1>2. ASSUME Race, c \in Builders PROVE Racing(c)'
  <2> USE <1>2, CallsAssumption
  <2>1. source /\ artifact /\ Racing(c)
    BY DEF Race
  <2> QED
    BY <2>1 DEF Racing, TypeOK, Known, Staging, Checking, Right, Race, Won, Whole, Directories
<1> QED
  BY <1>1, <1>2, RaceGoesOn

LEMMA ReadArtifactRaces == ASSUME IInv, RaceInv, NEW c \in Calls, ReadArtifact(c) PROVE RaceInv'
<1> USE DEF IInv, ReadArtifact, Only, KeepFiles, Files, Goto, At, Require, End, AfterError, ErrorOf
<1>1. Quietly(c)
  BY DEF Quietly, TypeOK, Known, Staging, Checking
<1>2. ASSUME Race, c \in Builders PROVE Racing(c)'
  <2> USE <1>2, CallsAssumption
  <2>1. source /\ artifact /\ Racing(c)
    BY DEF Race
  <2> QED
    BY <2>1 DEF Racing, TypeOK, Known, Staging, Checking, Right, Race, Won, Whole, Directories
<1> QED
  BY <1>1, <1>2, RaceGoesOn

LEMMA LookForBuildRaces == ASSUME IInv, RaceInv, NEW c \in Calls, LookForBuild(c) PROVE RaceInv'
<1> USE DEF IInv, LookForBuild, Only, KeepFiles, Files, Goto, At
<1>1. Quietly(c)
  BY DEF Quietly, TypeOK, Known, Staging, Checking
<1>2. ASSUME Race, c \in Builders PROVE Racing(c)'
  <2>1. pc'[c] = IF published.there THEN "rehashing" ELSE "staging"
    BY DEF TypeOK
  <2>2. readOk[c] /\ readOk' = readOk /\ published' = published
    BY <1>2 DEF Race, Racing
  <2> QED
    BY <2>1, <2>2 DEF Racing, Checking
<1> QED
  BY <1>1, <1>2, RaceGoesOn

LEMMA CreateStageRaces == ASSUME IInv, RaceInv, NEW c \in Calls, CreateStage(c) PROVE RaceInv'
<1> USE DEF IInv, CreateStage, Only, KeepFiles, Files, Goto, At
<1>1. Quietly(c)
  BY DEF Quietly, TypeOK, Known, Staging, Checking
<1>2. ASSUME Race, c \in Builders PROVE Racing(c)'
  <2> USE <1>2, CallsAssumption
  <2>1. source /\ artifact /\ Racing(c)
    BY DEF Race
  <2> QED
    BY <2>1 DEF Racing, TypeOK, Known, Staging, Checking, Right, Race, Won, Whole, Directories
<1> QED
  BY <1>1, <1>2, RaceGoesOn

LEMMA CopySourceRaces == ASSUME IInv, RaceInv, NEW c \in Calls, CopySource(c) PROVE RaceInv'
<1> USE DEF IInv, CopySource, Only, KeepFiles, Files, Goto, At
<1>1. Quietly(c)
  BY DEF Quietly, TypeOK, Known, Staging, Checking
<1>2. ASSUME Race, c \in Builders PROVE Racing(c)'
  <2> USE <1>2, CallsAssumption
  <2>1. source /\ artifact /\ Racing(c)
    BY DEF Race
  <2> QED
    BY <2>1 DEF Racing, TypeOK, Known, Staging, Checking, Right, Race, Won, Whole, Directories
<1> QED
  BY <1>1, <1>2, RaceGoesOn

LEMMA CheckCopyRaces == ASSUME IInv, RaceInv, NEW c \in Calls, CheckCopy(c) PROVE RaceInv'
<1> USE DEF IInv, CheckCopy, Only, KeepFiles, Files, Goto, At, Require, End, AfterError, ErrorOf
<1>1. Quietly(c)
  BY DEF Quietly, TypeOK, Known, Staging, Checking
<1>2. ASSUME Race, c \in Builders PROVE Racing(c)'
  <2> USE <1>2, CallsAssumption
  <2>1. source /\ artifact /\ Racing(c)
    BY DEF Race
  <2> QED
    BY <2>1 DEF Racing, TypeOK, Known, Staging, Checking, Right, Race, Won, Whole, Directories
<1> QED
  BY <1>1, <1>2, RaceGoesOn

LEMMA ApplyOperationsRaces == ASSUME IInv, RaceInv, NEW c \in Calls, ApplyOperations(c) PROVE RaceInv'
<1> USE DEF IInv, ApplyOperations, Only, KeepFiles, Files, Goto, At
<1>1. Quietly(c)
  BY DEF Quietly, TypeOK, Known, Staging, Checking
<1>2. ASSUME Race, c \in Builders PROVE Racing(c)'
  <2> USE <1>2, CallsAssumption
  <2>1. source /\ artifact /\ Racing(c)
    BY DEF Race
  <2> QED
    BY <2>1 DEF Racing, TypeOK, Known, Staging, Checking, Right, Race, Won, Whole, Directories
<1> QED
  BY <1>1, <1>2, RaceGoesOn

LEMMA VerifyStageRaces == ASSUME IInv, RaceInv, NEW c \in Calls, VerifyStage(c) PROVE RaceInv'
<1> USE DEF IInv, VerifyStage, Only, KeepFiles, Files, Goto, At, Require, End, AfterError, ErrorOf
<1>1. Quietly(c)
  BY DEF Quietly, TypeOK, Known, Staging, Checking
<1>2. ASSUME Race, c \in Builders PROVE Racing(c)'
  <2> USE <1>2, CallsAssumption
  <2>1. source /\ artifact /\ Racing(c)
    BY DEF Race
  <2> QED
    BY <2>1 DEF Racing, TypeOK, Known, Staging, Checking, Right, Race, Won, Whole, Directories
<1> QED
  BY <1>1, <1>2, RaceGoesOn

LEMMA WriteEvidenceRaces == ASSUME IInv, RaceInv, NEW c \in Calls, WriteEvidence(c) PROVE RaceInv'
<1> USE DEF IInv, WriteEvidence, Only, KeepFiles, Files, Goto, At
<1>1. Quietly(c)
  BY DEF Quietly, TypeOK, Known, Staging, Checking
<1>2. ASSUME Race, c \in Builders PROVE Racing(c)'
  <2> USE <1>2, CallsAssumption
  <2>1. source /\ artifact /\ Racing(c)
    BY DEF Race
  <2> QED
    BY <2>1 DEF Racing, TypeOK, Known, Staging, Checking, Right, Race, Won, Whole, Directories
<1> QED
  BY <1>1, <1>2, RaceGoesOn

LEMMA RecheckStageRaces == ASSUME IInv, RaceInv, NEW c \in Calls, RecheckStage(c) PROVE RaceInv'
<1> USE DEF IInv, RecheckStage, Only, KeepFiles, Files, Goto, At, Require, End, AfterError, ErrorOf
<1>1. Quietly(c)
  BY DEF Quietly, TypeOK, Known, Staging, Checking
<1>2. ASSUME Race, c \in Builders PROVE Racing(c)'
  <2> USE <1>2, CallsAssumption
  <2>1. source /\ artifact /\ Racing(c)
    BY DEF Race
  <2> QED
    BY <2>1 DEF Racing, TypeOK, Known, Staging, Checking, Right, Race, Won, Whole, Directories
<1> QED
  BY <1>1, <1>2, RaceGoesOn

LEMMA RemoveStageRaces == ASSUME IInv, RaceInv, NEW c \in Calls, RemoveStage(c) PROVE RaceInv'
<1> USE DEF IInv, RemoveStage, Only, KeepFiles, Files, Goto, At
<1>1. Quietly(c)
  BY DEF Quietly, TypeOK, Known, Staging, Checking
<1>2. ASSUME Race, c \in Builders PROVE Racing(c)'
  <2> USE <1>2, CallsAssumption
  <2>1. source /\ artifact /\ Racing(c)
    BY DEF Race
  <2> QED
    BY <2>1 DEF Racing, TypeOK, Known, Staging, Checking, Right, Race, Won, Whole, Directories
<1> QED
  BY <1>1, <1>2, RaceGoesOn

LEMMA RequireEntriesRaces == ASSUME IInv, RaceInv, NEW c \in Calls, RequireEntries(c) PROVE RaceInv'
<1> USE DEF IInv, RequireEntries, Only, KeepFiles, Files, Goto, At, Require, End, AfterError, ErrorOf
<1>1. Quietly(c)
  BY DEF Quietly, TypeOK, Known, Staging, Checking
<1>2. ASSUME Race, c \in Builders PROVE Racing(c)'
  <2> USE <1>2, CallsAssumption
  <2>1. source /\ artifact /\ Racing(c)
    BY DEF Race
  <2> QED
    BY <2>1 DEF Racing, TypeOK, Known, Staging, Checking, Right, Race, Won, Whole, Directories
<1> QED
  BY <1>1, <1>2, RaceGoesOn

LEMMA VerifyPublishedRaces == ASSUME IInv, RaceInv, NEW c \in Calls, VerifyPublished(c) PROVE RaceInv'
<1> USE DEF IInv, VerifyPublished, Only, KeepFiles, Files, Goto, At, Require, End, AfterError, ErrorOf
<1>1. Quietly(c)
  BY DEF Quietly, TypeOK, Known, Staging, Checking
<1>2. ASSUME Race, c \in Builders PROVE Racing(c)'
  <2> USE <1>2, CallsAssumption
  <2>1. source /\ artifact /\ Racing(c)
    BY DEF Race
  <2> QED
    BY <2>1 DEF Racing, TypeOK, Known, Staging, Checking, Right, Race, Won, Whole, Directories
<1> QED
  BY <1>1, <1>2, RaceGoesOn

LEMMA CompareEvidenceRaces == ASSUME IInv, RaceInv, NEW c \in Calls, CompareEvidence(c) PROVE RaceInv'
<1> USE DEF IInv, CompareEvidence, Only, KeepFiles, Files, Goto, At, Require, End, AfterError, ErrorOf
<1>1. Quietly(c)
  BY DEF Quietly, TypeOK, Known, Staging, Checking
<1>2. ASSUME Race, c \in Builders PROVE Racing(c)'
  <2> USE <1>2, CallsAssumption
  <2>1. source /\ artifact /\ Racing(c)
    BY DEF Race
  <2> QED
    BY <2>1 DEF Racing, TypeOK, Known, Staging, Checking, Right, Race, Won, Whole, Directories
<1> QED
  BY <1>1, <1>2, RaceGoesOn

LEMMA RecheckPublishedRaces == ASSUME IInv, RaceInv, NEW c \in Calls, RecheckPublished(c) PROVE RaceInv'
<1> USE DEF IInv, RecheckPublished, Only, KeepFiles, Files, Goto, At, Require, End, AfterError, ErrorOf
<1>1. Quietly(c)
  BY DEF Quietly, TypeOK, Known, Staging, Checking
<1>2. ASSUME Race, c \in Builders PROVE Racing(c)'
  <2> USE <1>2, CallsAssumption
  <2>1. source /\ artifact /\ Racing(c)
    BY DEF Race
  <2> QED
    BY <2>1 DEF Racing, TypeOK, Known, Staging, Checking, Right, Race, Won, Whole, Directories
<1> QED
  BY <1>1, <1>2, RaceGoesOn

\* What the hook did to the stage is a fault, and there is no race any more.
LEMMA BeforePublishRaces == ASSUME IInv, RaceInv, NEW c \in Calls, BeforePublish(c) PROVE RaceInv'
<1> USE DEF IInv
<1>1. CASE faults' = faults + 1
  BY <1>1 DEF RaceInv, Undisturbed, TypeOK
<1>2. CASE Only(c, "rechecking")
  <2> USE <1>2 DEF BeforePublish, Only, KeepFiles, Files, Goto, At
  <2>1. Quietly(c)
    BY DEF Quietly, TypeOK
  <2>2. ASSUME Race, c \in Builders PROVE Racing(c)'
    BY <2>2 DEF Race, Racing, TypeOK, Checking, Right
  <2> QED
    BY <2>1, <2>2, RaceGoesOn
<1> QED
  BY <1>1, <1>2 DEF BeforePublish

\* The first to publish wins the race; a later one finds its directory there.
LEMMA PublishRaces == ASSUME IInv, RaceInv, NEW c \in Calls, Publish(c) PROVE RaceInv'
<1> USE DEF IInv, Publish, KeepFiles, Files, Goto, At
<1>1. CASE published.there /\ Abort(c)
  <2> USE <1>1 DEF Abort, End, AfterError, ErrorOf
  <2>1. Quietly(c)
    BY DEF Quietly, TypeOK, Known, Staging
  <2>2. ASSUME Race, c \in Builders PROVE Racing(c)'
    BY <2>2 DEF Race, Racing, TypeOK, Staging, Checking
  <2> QED
    BY <2>1, <2>2, RaceGoesOn
<1>2. CASE ~published.there
  <2> SUFFICES ASSUME Undisturbed' PROVE Race'
    BY DEF RaceInv
  <2>1. /\ published' = stage[c] /\ Whole(published')
        /\ answer' = [answer EXCEPT ![c] = "built"]
        /\ stage' = [stage EXCEPT ![c] = Absent]
        /\ pc' = [pc EXCEPT ![c] = "cleaning"]
        /\ UNCHANGED <<readOk, source, artifact, edits, faults>>
    BY <1>2 DEF Abort, End, Known, Staging, Whole
  <2>2. Race
    BY <2>1 DEF RaceInv, Undisturbed
  <2>3. Won'
    BY <1>2, <2>1, <2>2 DEF Race, Won, Whole, TypeOK
  <2>4. ASSUME NEW d \in Builders PROVE Racing(d)'
    <3>1. Racing(d) /\ d \in Calls /\ published'.there
      BY <2>1, <2>2 DEF Race, Calls, Whole
    <3>2. CASE d = c
      BY <2>1, <3>1, <3>2 DEF Racing, TypeOK, Checking
    <3>3. CASE d # c
      BY <2>1, <3>1, <3>3 DEF Racing, TypeOK, Right
    <3> QED
      BY <3>2, <3>3
  <2> QED
    BY <2>1, <2>2, <2>3, <2>4 DEF Race
<1> QED
  BY <1>1, <1>2 DEF Abort

\* Whoever disturbs the race ends it.
LEMMA DisturbanceRaces ==
  ASSUME IInv, EditInputs \/ TouchPublished \/ (\E c \in Calls : OperationFails(c) \/ Crash(c))
  PROVE  RaceInv'
<1>1. edits' = edits + 1 \/ faults' = faults + 1
  BY DEF EditInputs, TouchPublished, OperationFails, Crash
<1>2. edits \in Nat /\ faults \in Nat
  BY BoundsAssumption DEF IInv, TypeOK
<1> QED
  BY <1>1, <1>2 DEF RaceInv, Undisturbed

LEMMA NextRaces == IInv /\ RaceInv /\ [Next]_vars => RaceInv'
<1> SUFFICES ASSUME IInv, RaceInv, [Next]_vars PROVE RaceInv'
  OBVIOUS
<1>1. ASSUME NEW c \in Calls, Step(c) PROVE RaceInv'
  BY <1>1, ReadMapRaces, CompareMapRaces, ReadArtifactRaces, LookForBuildRaces, CreateStageRaces,
     CopySourceRaces, CheckCopyRaces, ApplyOperationsRaces, VerifyStageRaces, WriteEvidenceRaces,
     BeforePublishRaces, RecheckStageRaces, PublishRaces, RemoveStageRaces, RequireEntriesRaces,
     VerifyPublishedRaces, CompareEvidenceRaces, RecheckPublishedRaces DEF Step
<1>2. CASE UNCHANGED vars
  BY <1>2 DEF vars, RaceInv, Undisturbed, Race, Won, Racing, Whole, Right
<1> QED
  BY <1>1, <1>2, DisturbanceRaces DEF Next

\* However many builds race, undisturbed, exactly one of them publishes and the
\* others reuse its directory or report the collision (build.ts:231-262).
THEOREM BuildRaceIsWon == Spec => []RaceIsWon
<1>1. Spec => []RaceInv
  BY RaceInitially, NextRaces, BuildInvariant, PTL DEF Spec
<1>2. ASSUME IInv, RaceInv PROVE RaceIsWon
  <2> SUFFICES ASSUME \A c \in Calls : pc[c] = "done", edits = 0, faults = 0, Builders # {}
               PROVE  /\ Whole(published)
                      /\ Cardinality({c \in Calls : answer[c] = "built"}) = 1
                      /\ \A c \in Builders : answer[c] \in {"built", "reused", "collision"}
    BY DEF RaceIsWon
  <2>1. Won /\ \A c \in Builders : Racing(c) /\ c \in Calls
    BY <1>2 DEF RaceInv, Undisturbed, Race, Calls
  <2>2. published.there /\ \A c \in Builders : answer[c] \in {"built", "reused", "collision"}
    BY <2>1 DEF Racing
  <2>3. PICK w \in Calls : answer[w] = "built" /\ \A d \in Calls : answer[d] = "built" => d = w
    BY <2>1, <2>2 DEF Won
  <2>4. {c \in Calls : answer[c] = "built"} = {w}
    BY <2>3
  <2> QED
    BY <2>1, <2>2, <2>4, FS_Singleton DEF Won
<1> QED
  BY <1>1, <1>2, BuildInvariant, PTL
=============================================================================

------------------------- MODULE InvestigationJournal -------------------------
(***************************************************************************)
(* The investigation journal of                                            *)
(* src/src/services/re-orchestration/investigation-journal.ts with the     *)
(* resume artifacts of resume-artifact.ts and the re_* tools that use      *)
(* them: three files, replaced one after the other without a lock and read *)
(* concurrently, each bound to the others by hashes.                       *)
(*                                                                         *)
(* A file is the list of entries it was made from: the metadata holds the  *)
(* hashes of the other two, and hashes do not collide.  Temporary files    *)
(* are named after the process and the millisecond, and are private to the *)
(* call that writes them: no two calls of one process write one file in    *)
(* the same millisecond.                                                   *)
(***************************************************************************)
EXTENDS Integers, Sequences, FiniteSets

CONSTANTS
    Op,          \* high-level operations, each of which persists its result once
    Resumer,     \* calls of re_resume_investigation
    MaxEntries,  \* 4096 in the code
    MaxAtOnce,   \* bound on the calls under way at once
    MaxFailures, \* bound on the failed file operations and dead servers
    Clients      \* whether the client of an instance may await an operation before
                 \* it makes the next: a subset of BOOLEAN

ASSUME CallAssumption  == Op \cap Resumer = {}
ASSUME BoundAssumption == MaxEntries \in Nat \ {0} /\ MaxFailures \in Nat /\ MaxAtOnce \in Nat
ASSUME FlagAssumption  == Clients \subseteq BOOLEAN

Call == Op \cup Resumer
File == {"journal", "projection", "metadata"}

VARIABLES
    file,      \* the entries each file was made from; an absent file has none
    artifacts, \* the operations whose resume artifact is stored
    awaiting,  \* whether the client awaits an operation before it makes the next
    pc,        \* where each call is
    seen,      \* what each call has read of each file, as a set of at most one list
    base,      \* the entries each call has accepted as the journal
    outcome,   \* what each call has reported
    committed, \* the lists all three files have held at one moment (a history variable)
    failures   \* failures so far

files == <<file, artifacts>>
vars  == <<files, awaiting, pc, seen, base, outcome, committed, failures>>

Unread == [f \in File |-> {}]

Init ==
    /\ file = [f \in File |-> <<>>]
    /\ artifacts = {}
    /\ awaiting \in Clients
    /\ pc = [c \in Call |-> "idle"]
    /\ seen = [c \in Call |-> Unread]
    /\ base = [c \in Call |-> <<>>]
    /\ outcome = [c \in Call |-> "none"]
    /\ committed = {<<>>}
    /\ failures = 0

Busy(c) == pc[c] \notin {"idle", "done"}

(* A client that awaits its operations makes one at a time; its resumes    *)
(* overlap whatever is under way.                                          *)
Turn(c) == /\ awaiting /\ c \in Op => \A w \in Op : ~Busy(w)
           /\ Cardinality({d \in Call : Busy(d)}) < MaxAtOnce

(* The three files are read anew each time, by a call that goes to l. *)
Goto(c, l)   == /\ pc' = [pc EXCEPT ![c] = l]
                /\ seen' = [seen EXCEPT ![c] = Unread]
Report(c, r) == Goto(c, "done") /\ outcome' = [outcome EXCEPT ![c] = r]

-----------------------------------------------------------------------------
(* readInvestigationJournal: the three files are read concurrently, and    *)
(* accepted if all exist or none does, and the hashes, counts and          *)
(* sequence numbers agree. *)
Reading(c) == pc[c] \in {"reading", "verifying"}

ReadFile(c, f) ==
    /\ Reading(c)
    /\ seen[c][f] = {}
    /\ seen' = [seen EXCEPT ![c][f] = {file[f]}]
    /\ UNCHANGED <<files, awaiting, pc, base, outcome, committed, failures>>

(* Mutant: the metadata is not read. *)
AcceptsWithoutMetadata(c, list) ==
    /\ \A f \in {"journal", "projection"} : seen[c][f] = {list}
    /\ seen[c]["metadata"] # {}

Accepts(c, list) == \A f \in File : seen[c][f] = {list}

Rejects(c) == /\ \A f \in File : seen[c][f] # {}
              /\ \A list \in seen[c]["journal"] : ~Accepts(c, list)

Inconsistent(c) ==
    /\ Reading(c)
    /\ Rejects(c)
    /\ Report(c, "refused")
    /\ UNCHANGED <<files, awaiting, base, committed, failures>>

-----------------------------------------------------------------------------
(* A high-level operation *)

(* Mutant: the resume artifact is left out. *)
PersistNoArtifact(w) ==
    /\ pc[w] = "idle" /\ Turn(w)
    /\ Goto(w, "reading")
    /\ UNCHANGED <<files, awaiting, base, outcome, committed, failures>>

(* persistEnvelope: the resume artifact is in place, and has been read     *)
(* back, before the journal is touched.                                    *)
PersistArtifact(w) ==
    /\ pc[w] = "idle" /\ Turn(w)
    /\ artifacts' = artifacts \cup {w}
    /\ Goto(w, "reading")
    /\ UNCHANGED <<file, awaiting, base, outcome, committed, failures>>

(* persistInvestigationResult: the current journal is accepted. *)
CheckCurrent(w) ==
    \E list \in seen[w]["journal"] :
        /\ pc[w] = "reading"
        /\ Accepts(w, list)
        /\ IF Len(list) >= MaxEntries
           THEN Report(w, "refused") /\ UNCHANGED base
           ELSE Goto(w, "journal") /\ base' = [base EXCEPT ![w] = list] /\ UNCHANGED outcome
        /\ UNCHANGED <<files, awaiting, committed, failures>>

(* The list all three files hold, if they hold the same. *)
Whole(contents) == {list \in {contents["metadata"]} : \A f \in File : contents[f] = list}

(* writeAtomic of each file: what matters is the rename at its end. *)
Replace(w, f) == /\ file' = [file EXCEPT ![f] = Append(base[w], w)]
                 /\ committed' = committed \cup Whole(file')

RenameJournal(w) ==
    /\ pc[w] = "journal"
    /\ Replace(w, "journal")
    /\ Goto(w, "projection")
    /\ UNCHANGED <<artifacts, awaiting, base, outcome, failures>>

RenameProjection(w) ==
    /\ pc[w] = "projection"
    /\ Replace(w, "projection")
    /\ Goto(w, "metadata")
    /\ UNCHANGED <<artifacts, awaiting, base, outcome, failures>>

RenameMetadata(w) ==
    /\ pc[w] = "metadata"
    /\ Replace(w, "metadata")
    /\ Goto(w, "verifying")
    /\ UNCHANGED <<artifacts, awaiting, base, outcome, failures>>

(* The read-back: the journal ends with this entry and its metadata is the *)
(* one written, or the operation fails.                                    *)
Verify(w) ==
    \E list \in seen[w]["journal"] :
        /\ pc[w] = "verifying"
        /\ Accepts(w, list)
        /\ Report(w, IF list = Append(base[w], w) THEN "persisted" ELSE "refused")
        /\ UNCHANGED <<files, awaiting, base, committed, failures>>

-----------------------------------------------------------------------------
(* re_resume_investigation *)

Resume(r) ==
    /\ pc[r] = "idle" /\ Turn(r)
    /\ Goto(r, "reading")
    /\ UNCHANGED <<files, awaiting, base, outcome, committed, failures>>

(* The projection of an accepted journal names the resume artifacts. *)
AcceptJournal(r) ==
    \E list \in seen[r]["journal"] :
        /\ pc[r] = "reading"
        /\ Accepts(r, list)
        /\ base' = [base EXCEPT ![r] = list]
        /\ Goto(r, "artifacts")
        /\ UNCHANGED <<files, awaiting, outcome, committed, failures>>

Entries(list) == {list[i] : i \in 1..Len(list)}

(* readResumeArtifacts: one that is missing or altered is an error. *)
ReadArtifacts(r) ==
    /\ pc[r] = "artifacts"
    /\ Report(r, IF Entries(base[r]) \subseteq artifacts THEN "resumed" ELSE "missing")
    /\ UNCHANGED <<files, awaiting, base, committed, failures>>

-----------------------------------------------------------------------------
(* Mutant: an operation whose write fails reports success all the same. *)
FailUnnoticed(c, how) ==
    /\ Busy(c)
    /\ failures < MaxFailures
    /\ failures' = failures + 1
    /\ Report(c, IF c \in Op THEN "persisted" ELSE how)
    /\ UNCHANGED <<files, awaiting, base, committed>>

(* A file operation of the call fails, or its server dies (external): the  *)
(* files stay as they are.                                                 *)
Fail(c, how) ==
    /\ Busy(c)
    /\ failures < MaxFailures
    /\ failures' = failures + 1
    /\ Report(c, how)
    /\ UNCHANGED <<files, awaiting, base, committed>>

Operate(w) ==
    \/ PersistArtifact(w) \/ CheckCurrent(w)
    \/ RenameJournal(w) \/ RenameProjection(w) \/ RenameMetadata(w) \/ Verify(w)

Next ==
    \/ \E w \in Op : Operate(w)
    \/ \E r \in Resumer : Resume(r) \/ AcceptJournal(r) \/ ReadArtifacts(r)
    \/ \E c \in Call, f \in File : ReadFile(c, f)
    \/ \E c \in Call : Inconsistent(c) \/ \E how \in {"failed", "crashed"} : Fail(c, how)

Spec == Init /\ [][Next]_vars

-----------------------------------------------------------------------------
(* Properties *)

Labels == {"idle", "reading", "journal", "projection", "metadata", "verifying", "artifacts",
           "done"}

(* Every variable keeps its type, and no file grows beyond the limit. *)
TypeOK ==
    /\ file \in [File -> Seq(Op)]
    /\ \A f \in File : Len(file[f]) <= MaxEntries
    /\ artifacts \subseteq Op
    /\ awaiting \in BOOLEAN
    /\ pc \in [Call -> Labels]
    /\ \A c \in Call : pc[c] = "artifacts" => c \in Resumer
    /\ \A c \in Call : pc[c] \in {"journal", "projection", "metadata", "verifying"} => c \in Op
    /\ seen \in [Call -> [File -> SUBSET Seq(Op)]]
    /\ base \in [Call -> Seq(Op)]
    /\ outcome \in [Call -> {"none", "persisted", "resumed", "refused", "missing", "failed",
                             "crashed"}]
    /\ failures \in Nat

(* With a client that awaits its operations, a journal that is accepted,   *)
(* by an operation or by a resume that overlaps one, was in all three      *)
(* files at one moment, although they are read and replaced one by one and *)
(* an operation that fails leaves them torn.                               *)
AcceptedWasCommitted == awaiting => \A c \in Call : base[c] \in committed

(* A resume never finds the artifact of a journaled operation missing. *)
ResumeFindsArtifacts == \A r \in Resumer : outcome[r] # "missing"

(* With such a client the journal only ever grows by the entry of the      *)
(* operation that completes, and the metadata is replaced when the other   *)
(* two files hold that entry: after a failure or a crash that left the     *)
(* files torn, nothing is appended to either version.                      *)
AppendOnly ==
    [][awaiting /\ file'["metadata"] # file["metadata"] =>
            \E w \in Op : \A f \in File : file'[f] = Append(file["metadata"], w)]_vars

(* With such a client, an operation that reported success stays in all     *)
(* three files.                                                            *)
PersistedStays ==
    awaiting => \A w \in Op : outcome[w] = "persisted" =>
                    \A f \in File : w \in Entries(file[f])

-----------------------------------------------------------------------------
(* The inductive invariant behind them.  Whoever the clients are, every    *)
(* entry in a file, or read from one, has its artifact.                    *)
Writing(w) == pc[w] \in {"journal", "projection", "metadata"}

ArtifactInv ==
    /\ \A w \in Op : pc[w] # "idle" => w \in artifacts
    /\ \A f \in File : Entries(file[f]) \subseteq artifacts
    /\ \A c \in Call : Entries(base[c]) \subseteq artifacts
    /\ \A c \in Call, f \in File : \A s \in seen[c][f] : Entries(s) \subseteq artifacts

RoomInv == \A w \in Op : Writing(w) => Len(base[w]) < MaxEntries

(* With a client that awaits its operations, the metadata, as it is and as *)
(* any call has read it, was once in all three files; ...                  *)
CommitInv ==
    /\ file["metadata"] \in committed
    /\ \A c \in Call : seen[c]["metadata"] \subseteq committed

(* ... and the operation under way sees the files as they are, and found   *)
(* all three equal before it replaced the first.                           *)
Extended(w, F) == \A f \in File : file[f] = IF f \in F THEN Append(base[w], w) ELSE base[w]

AwaitedInv ==
    /\ \A v, w \in Op : Busy(v) /\ Busy(w) => v = w
    /\ \A w \in Op, f \in File : Busy(w) => seen[w][f] \subseteq {file[f]}
    /\ \A w \in Op : /\ pc[w] = "journal" => Extended(w, {})
                     /\ pc[w] = "projection" => Extended(w, {"journal"})
                     /\ pc[w] = "metadata" => Extended(w, {"journal", "projection"})

IInv == /\ TypeOK /\ ArtifactInv /\ RoomInv /\ (awaiting => CommitInv /\ AwaitedInv)
        /\ AcceptedWasCommitted /\ ResumeFindsArtifacts /\ PersistedStays
=============================================================================

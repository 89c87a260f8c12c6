------------------------- MODULE ControllerCheckpoint -------------------------
(***************************************************************************)
(* The controller checkpoint of src/src/services/controller-checkpoint.ts: *)
(* one file per ROM, read without a lock and written under a lock file by  *)
(* way of a temporary file named after the process.  Writes overlap, in    *)
(* one server process or in several; any file operation may fail, and a    *)
(* process may die between any two.                                        *)
(*                                                                         *)
(* The controller's prose is the name of the write call that stored it.    *)
(***************************************************************************)
EXTENDS Integers

CONSTANTS
    Writer,      \* calls of controller_checkpoint_write
    NoWriter,    \* nobody
    Pid,         \* process ids; that of a dead server may be given to the next
    MaxRevision, \* Number.MAX_SAFE_INTEGER
    MaxCrashes   \* bound on the crashes of a server

ASSUME WriterAssumption == NoWriter \notin Writer
ASSUME BoundAssumption  == MaxRevision \in Nat /\ MaxCrashes \in Nat

VARIABLES
    dir,       \* whether the directory of the checkpoint exists
    file,      \* checkpoint.json, Empty when absent
    lock,      \* the call that created checkpoint.lock, or NoWriter
    tmp,       \* per process, checkpoint.json.tmp-<pid>, Empty when absent
    pid,       \* the process each call runs in
    basis,     \* per call, the version its controller has read
    pc,        \* where each call is
    outcome,   \* what each call has reported or is about to report
    committed, \* the calls whose rename has happened (a history variable)
    crashes    \* crashes so far

store == <<dir, file, lock, tmp>>
calls == <<pid, basis, pc, outcome>>
vars  == <<store, calls, committed, crashes>>

Empty == [rev |-> 0, by |-> NoWriter, whole |-> TRUE]

Init ==
    /\ dir = FALSE /\ file = Empty /\ lock = NoWriter
    /\ tmp = [p \in Pid |-> Empty]
    /\ pid \in [Writer -> Pid]
    /\ basis = [w \in Writer |-> Empty]
    /\ pc = [w \in Writer |-> "idle"]
    /\ outcome = [w \in Writer |-> "none"]
    /\ committed = {}
    /\ crashes = 0

Goto(w, l)      == pc' = [pc EXCEPT ![w] = l]
Report(w, r, l) == Goto(w, l) /\ outcome' = [outcome EXCEPT ![w] = r]

-----------------------------------------------------------------------------
(* readControllerCheckpoint: the expected revision of a later write. *)
Read(w) ==
    /\ pc[w] = "idle"
    /\ file.whole
    /\ basis' = [basis EXCEPT ![w] = file]
    /\ Goto(w, "based")
    /\ UNCHANGED <<store, pid, outcome, committed, crashes>>

(* Mutants: a stale lock is taken over; a call that finds the lock taken    *)
(* removes it on its way out.                                              *)
AcquireStaleLock(w) ==
    /\ pc[w] = "based"
    /\ dir' = TRUE /\ lock' = w /\ Goto(w, "locked")
    /\ UNCHANGED <<file, tmp, pid, basis, outcome, committed, crashes>>

AcquireLockAndUnlock(w) ==
    /\ pc[w] = "based"
    /\ \/ lock = NoWriter /\ dir' = TRUE /\ lock' = w /\ Goto(w, "locked") /\ UNCHANGED outcome
       \/ lock # NoWriter /\ Report(w, "refused", "releasing") /\ UNCHANGED <<dir, lock>>
    /\ UNCHANGED <<file, tmp, pid, basis, committed, crashes>>

(* mkdir -p of the directory, then the lock file, which must not exist. *)
AcquireLock(w) ==
    /\ pc[w] = "based"
    /\ \/ lock = NoWriter /\ dir' = TRUE /\ lock' = w /\ Goto(w, "locked") /\ UNCHANGED outcome
       \/ lock # NoWriter /\ Report(w, "refused", "done") /\ UNCHANGED <<dir, lock>>
       \/ Report(w, "failed", "done") /\ UNCHANGED <<dir, lock>>
    /\ UNCHANGED <<file, tmp, pid, basis, committed, crashes>>

(* The revision in the file must be the expected one, and have a successor. *)
CheckRevision(w) ==
    /\ pc[w] = "locked"
    /\ file.whole
    /\ IF file.rev # basis[w].rev \/ file.rev >= MaxRevision
       THEN Report(w, "refused", "releasing")
       ELSE Goto(w, "checked") /\ UNCHANGED outcome
    /\ UNCHANGED <<store, pid, basis, committed, crashes>>

(* writeCheckpointAtomic: a stale temporary file of this pid goes first. *)
RemoveTemp(w) ==
    /\ pc[w] = "checked"
    /\ tmp' = [tmp EXCEPT ![pid[w]] = Empty]
    /\ Goto(w, "clean")
    /\ UNCHANGED <<dir, file, lock, pid, basis, outcome, committed, crashes>>

CreateTemp(w) ==
    /\ pc[w] = "clean"
    /\ dir /\ tmp[pid[w]] = Empty
    /\ tmp' = [tmp EXCEPT ![pid[w]] = [rev |-> basis[w].rev + 1, by |-> w, whole |-> FALSE]]
    /\ Goto(w, "created")
    /\ UNCHANGED <<dir, file, lock, pid, basis, outcome, committed, crashes>>

(* writeFile, sync and close go to the file this call has opened, wherever *)
(* it is by then.                                                          *)
Filled(v, w) == [rev |-> v.rev, by |-> v.by, whole |-> v.whole \/ v.by = w]

WriteTemp(w) ==
    /\ pc[w] = "created"
    /\ tmp' = [tmp EXCEPT ![pid[w]] = Filled(@, w)]
    /\ file' = Filled(file, w)
    /\ Goto(w, "synced")
    /\ UNCHANGED <<dir, lock, pid, basis, outcome, committed, crashes>>

Rename(w) ==
    /\ pc[w] = "synced"
    /\ dir /\ tmp[pid[w]] # Empty
    /\ file' = tmp[pid[w]]
    /\ tmp' = [tmp EXCEPT ![pid[w]] = Empty]
    /\ committed' = committed \cup {w}
    /\ Goto(w, "renamed")
    /\ UNCHANGED <<dir, lock, pid, basis, outcome, crashes>>

(* The read-back: the file must hold what this call wrote. *)
Verify(w) ==
    /\ pc[w] = "renamed"
    /\ Report(w, IF file.whole /\ file.by = w THEN "written" ELSE "failed", "releasing")
    /\ UNCHANGED <<store, pid, basis, committed, crashes>>

(* Mutant: a failure after the rename is reported as a conflict. *)
FailAsConflict(w) ==
    /\ pc[w] \in {"locked", "checked", "clean", "created", "synced", "renamed"}
    /\ Report(w, "refused", "releasing")
    /\ \/ pc[w] \in {"clean", "created", "synced"} /\ tmp' = [tmp EXCEPT ![pid[w]] = Empty]
       \/ UNCHANGED tmp
    /\ UNCHANGED <<dir, file, lock, pid, basis, committed, crashes>>

(* Any operation under the lock may fail.  A failed write removes its      *)
(* temporary file, if it can.                                              *)
Fail(w) ==
    /\ pc[w] \in {"locked", "checked", "clean", "created", "synced", "renamed"}
    /\ Report(w, "failed", "releasing")
    /\ \/ pc[w] \in {"clean", "created", "synced"} /\ tmp' = [tmp EXCEPT ![pid[w]] = Empty]
       \/ UNCHANGED tmp
    /\ UNCHANGED <<dir, file, lock, pid, basis, committed, crashes>>

(* finally: the lock file is removed, if it can be. *)
ReleaseLock(w) ==
    /\ pc[w] = "releasing"
    /\ lock' \in {NoWriter, lock}
    /\ Goto(w, "done")
    /\ UNCHANGED <<dir, file, tmp, pid, basis, outcome, committed, crashes>>

InCall(w) == pc[w] \in {"locked", "checked", "clean", "created", "synced", "renamed", "releasing"}

(* A server dies (external): its calls end where they are, the files stay. *)
Crash(p) ==
    /\ crashes < MaxCrashes
    /\ crashes' = crashes + 1
    /\ \E w \in Writer : pid[w] = p /\ InCall(w)
    /\ pc' = [w \in Writer |-> IF pid[w] = p /\ InCall(w) THEN "done" ELSE pc[w]]
    /\ outcome' = [w \in Writer |-> IF pid[w] = p /\ InCall(w) THEN "crashed" ELSE outcome[w]]
    /\ UNCHANGED <<store, pid, basis, committed>>

-----------------------------------------------------------------------------
Write(w) ==
    \/ AcquireLock(w) \/ CheckRevision(w) \/ RemoveTemp(w) \/ CreateTemp(w) \/ WriteTemp(w)
    \/ Rename(w) \/ Verify(w) \/ Fail(w) \/ ReleaseLock(w)

Next ==
    \/ \E w \in Writer : Read(w) \/ Write(w)
    \/ \E p \in Pid : Crash(p)

Spec == Init /\ [][Next]_vars

-----------------------------------------------------------------------------
(* Properties *)

Labels   == {"idle", "based", "locked", "checked", "clean", "created", "synced", "renamed",
             "releasing", "done"}
Outcomes == {"none", "written", "refused", "failed", "crashed"}
Version  == [rev : Nat, by : Writer \cup {NoWriter}, whole : BOOLEAN]

(* Every variable keeps its type. *)
TypeOK ==
    /\ dir \in BOOLEAN /\ file \in Version /\ lock \in Writer \cup {NoWriter}
    /\ tmp \in [Pid -> Version]
    /\ pid \in [Writer -> Pid]
    /\ basis \in [Writer -> Version]
    /\ pc \in [Writer -> Labels]
    /\ outcome \in [Writer -> Outcomes]
    /\ committed \subseteq Writer
    /\ crashes \in Nat

(* One call at a time is past the lock, whatever crashes, fails or finds   *)
(* the lock taken: the lock it holds is its own.                           *)
OneWriter == \A w \in Writer : InCall(w) => lock = w

(* A call past its revision check is about to replace exactly the version  *)
(* its controller has read, and no other that bears the same revision.     *)
OverwritesWhatItRead ==
    \A w \in Writer : pc[w] \in {"checked", "clean", "created", "synced"} => file = basis[w]

(* The outcome is the truth: a call that reports its revision has stored   *)
(* it, a refused one has stored nothing.                                   *)
OutcomeIsTrue ==
    \A w \in Writer : /\ outcome[w] = "written" => w \in committed
                      /\ outcome[w] = "refused" => w \notin committed

(* The checkpoint a reader finds is whole, and its revision is representable. *)
FileIsWhole == file.whole /\ file.rev <= MaxRevision

(* The checkpoint is the register it promises to be. *)
Register == INSTANCE CheckpointRegister WITH value <- file
RegisterSpec == Register!Spec

-----------------------------------------------------------------------------
(* The inductive invariant behind them.  Revisions only grow, so that two  *)
(* versions with the same revision are the same version; the lock keeps    *)
(* the file as the revision check found it, and the temporary file of the  *)
(* process as this call has left it.                                       *)
Checked == {"checked", "clean", "created", "synced"}

RevisionInv ==
    \A w \in Writer : /\ basis[w].rev <= file.rev
                      /\ basis[w].rev = file.rev => basis[w] = file
                      /\ pc[w] \in Checked => basis[w].rev = file.rev /\ file.rev < MaxRevision

TempInv ==
    \A w \in Writer :
        pc[w] \in {"created", "synced"} =>
            tmp[pid[w]] = [rev |-> basis[w].rev + 1, by |-> w, whole |-> pc[w] = "synced"]

ProgressInv ==
    \A w \in Writer :
        /\ pc[w] \in {"idle", "based", "locked"} \cup Checked => w \notin committed
        /\ pc[w] = "renamed" => w \in committed
        /\ pc[w] \in {"idle", "based", "locked", "renamed"} \cup Checked => outcome[w] = "none"

IInv == /\ TypeOK /\ OneWriter /\ FileIsWhole
        /\ RevisionInv /\ TempInv /\ ProgressInv /\ OutcomeIsTrue
=============================================================================

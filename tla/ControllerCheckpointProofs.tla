---------------------- MODULE ControllerCheckpointProofs ----------------------
(***************************************************************************)
(* Proofs about ControllerCheckpoint for any set of writes, of processes,  *)
(* any number of crashes and any largest revision: its inductive invariant *)
(* and, from it, that the checkpoint implements CheckpointRegister.        *)
(***************************************************************************)
EXTENDS ControllerCheckpoint, TLAPS

(* The empty checkpoint satisfies the invariant. *)
LEMMA InitIInv == Init => IInv
<1> SUFFICES ASSUME Init PROVE IInv
    OBVIOUS
<1> USE WriterAssumption, BoundAssumption DEF Init, Empty
<1>1. TypeOK
  BY DEF TypeOK, Version, Labels, Outcomes
<1>2. OneWriter /\ FileIsWhole
  BY DEF OneWriter, FileIsWhole, InCall
<1>3. RevisionInv /\ TempInv
  BY DEF RevisionInv, TempInv, Checked
<1>4. ProgressInv /\ OutcomeIsTrue
  BY DEF ProgressInv, OutcomeIsTrue, Checked
<1>5. QED
  BY <1>1, <1>2, <1>3, <1>4 DEF IInv

(* Two calls past the lock are the same call. *)
LEMMA Alone ==
    ASSUME OneWriter, NEW w \in Writer, NEW o \in Writer, InCall(w), InCall(o)
    PROVE  w = o
BY DEF OneWriter

(* readControllerCheckpoint takes the version it reads for its basis. *)
LEMMA ReadStep == ASSUME IInv, NEW w \in Writer, Read(w) PROVE IInv'
<1> USE WriterAssumption, BoundAssumption
    DEF IInv, Read, Goto, Report, store, calls, Empty, Version, Labels, Outcomes,
        InCall, Checked
<1>1. TypeOK'
  BY DEF TypeOK, FileIsWhole
<1>2. OneWriter'
  BY DEF OneWriter, TypeOK
<1>3. FileIsWhole'
  BY DEF FileIsWhole, TypeOK, RevisionInv, TempInv
<1>4. RevisionInv'
  BY DEF RevisionInv, TypeOK, OneWriter, FileIsWhole, TempInv
<1>5. TempInv'
  BY DEF TempInv, TypeOK, OneWriter, RevisionInv
<1>6. ProgressInv'
  BY DEF ProgressInv, TypeOK
<1>7. OutcomeIsTrue'
  BY DEF OutcomeIsTrue, TypeOK, ProgressInv
<1>8. QED BY <1>1, <1>2, <1>3, <1>4, <1>5, <1>6, <1>7

(* Taking the lock keeps the invariant: nobody held it. *)
LEMMA AcquireLockStep == ASSUME IInv, NEW w \in Writer, AcquireLock(w) PROVE IInv'
<1> USE WriterAssumption, BoundAssumption
    DEF IInv, AcquireLock, Goto, Report, store, calls, Empty, Version, Labels, Outcomes,
        InCall, Checked
<1>1. TypeOK'
  BY DEF TypeOK, FileIsWhole
<1>2. OneWriter'
  BY DEF OneWriter, TypeOK
<1>3. FileIsWhole'
  BY DEF FileIsWhole, TypeOK, RevisionInv, TempInv
<1>4. RevisionInv'
  BY DEF RevisionInv, TypeOK, OneWriter, FileIsWhole, TempInv
<1>5. TempInv'
  BY DEF TempInv, TypeOK, OneWriter, RevisionInv
<1>6. ProgressInv'
  BY DEF ProgressInv, TypeOK
<1>7. OutcomeIsTrue'
  BY DEF OutcomeIsTrue, TypeOK, ProgressInv
<1>8. QED BY <1>1, <1>2, <1>3, <1>4, <1>5, <1>6, <1>7

(* The revision check establishes that the file is the call's basis. *)
LEMMA CheckRevisionStep == ASSUME IInv, NEW w \in Writer, CheckRevision(w) PROVE IInv'
<1> USE WriterAssumption, BoundAssumption
    DEF IInv, CheckRevision, Goto, Report, store, calls, Empty, Version, Labels, Outcomes,
        InCall, Checked
<1>1. TypeOK'
  BY DEF TypeOK, FileIsWhole
<1>2. OneWriter'
  BY DEF OneWriter, TypeOK
<1>3. FileIsWhole'
  BY DEF FileIsWhole, TypeOK, RevisionInv, TempInv
<1>4. RevisionInv'
  BY DEF RevisionInv, TypeOK, OneWriter, FileIsWhole, TempInv
<1>5. TempInv'
  BY DEF TempInv, TypeOK, OneWriter, RevisionInv
<1>6. ProgressInv'
  BY DEF ProgressInv, TypeOK
<1>7. OutcomeIsTrue'
  BY DEF OutcomeIsTrue, TypeOK, ProgressInv
<1>8. QED BY <1>1, <1>2, <1>3, <1>4, <1>5, <1>6, <1>7

(* Only the call under the lock touches a temporary file. *)
LEMMA RemoveTempStep == ASSUME IInv, NEW w \in Writer, RemoveTemp(w) PROVE IInv'
<1> USE WriterAssumption, BoundAssumption
    DEF IInv, RemoveTemp, Goto, Report, store, calls, Empty, Version, Labels, Outcomes,
        InCall, Checked
<1>1. TypeOK'
  BY DEF TypeOK, FileIsWhole
<1>2. OneWriter'
  BY DEF OneWriter, TypeOK
<1>3. FileIsWhole'
  BY DEF FileIsWhole, TypeOK, RevisionInv, TempInv
<1>4. RevisionInv'
  BY DEF RevisionInv, TypeOK, OneWriter, FileIsWhole, TempInv
<1>5. TempInv'
  BY DEF TempInv, TypeOK, OneWriter, RevisionInv
<1>6. ProgressInv'
  BY DEF ProgressInv, TypeOK
<1>7. OutcomeIsTrue'
  BY DEF OutcomeIsTrue, TypeOK, ProgressInv
<1>8. QED BY <1>1, <1>2, <1>3, <1>4, <1>5, <1>6, <1>7

(* The temporary file is the next version, still incomplete. *)
LEMMA CreateTempStep == ASSUME IInv, NEW w \in Writer, CreateTemp(w) PROVE IInv'
<1> USE WriterAssumption, BoundAssumption
    DEF IInv, CreateTemp, Goto, Report, store, calls, Empty, Version, Labels, Outcomes,
        InCall, Checked
<1>1. TypeOK'
  BY DEF TypeOK, FileIsWhole
<1>2. OneWriter'
  BY DEF OneWriter, TypeOK
<1>3. FileIsWhole'
  BY DEF FileIsWhole, TypeOK, RevisionInv, TempInv
<1>4. RevisionInv'
  BY DEF RevisionInv, TypeOK, OneWriter, FileIsWhole, TempInv
<1>5. TempInv'
  BY DEF TempInv, TypeOK, OneWriter, RevisionInv
<1>6. ProgressInv'
  BY DEF ProgressInv, TypeOK
<1>7. OutcomeIsTrue'
  BY DEF OutcomeIsTrue, TypeOK, ProgressInv
<1>8. QED BY <1>1, <1>2, <1>3, <1>4, <1>5, <1>6, <1>7

(* The temporary file is completed; the checkpoint is complete already. *)
LEMMA WriteTempStep == ASSUME IInv, NEW w \in Writer, WriteTemp(w) PROVE IInv'
<1> USE WriterAssumption, BoundAssumption
    DEF IInv, WriteTemp, Goto, Report, store, calls, Empty, Version, Labels, Outcomes,
        InCall, Checked, Filled
<1>0. file' = file
  BY DEF TypeOK, FileIsWhole
<1>1. TypeOK'
  BY DEF TypeOK, FileIsWhole
<1>2. OneWriter'
  BY DEF OneWriter, TypeOK
<1>3. FileIsWhole'
  BY <1>0 DEF FileIsWhole
<1>4. RevisionInv'
  BY <1>0 DEF RevisionInv, TypeOK
<1>5. TempInv'
  <2> SUFFICES ASSUME NEW o \in Writer, pc'[o] \in {"created", "synced"}
               PROVE  tmp'[pid[o]] = [rev |-> basis[o].rev + 1, by |-> o,
                                      whole |-> pc'[o] = "synced"]
      BY DEF TempInv
  <2>1. o = w
    BY Alone DEF TypeOK
  <2>2. tmp[pid[w]] = [rev |-> basis[w].rev + 1, by |-> w, whole |-> FALSE]
    BY DEF TempInv
  <2>3. tmp'[pid[w]] = Filled(tmp[pid[w]], w)
    BY DEF TypeOK
  <2>4. QED
    BY <2>1, <2>2, <2>3 DEF TypeOK
<1>6. ProgressInv'
  BY DEF ProgressInv, TypeOK
<1>7. OutcomeIsTrue'
  BY DEF OutcomeIsTrue, TypeOK, ProgressInv
<1>8. QED BY <1>1, <1>2, <1>3, <1>4, <1>5, <1>6, <1>7

(* The rename is the one step that changes the checkpoint: its revision grows. *)
LEMMA RenameStep == ASSUME IInv, NEW w \in Writer, Rename(w) PROVE IInv'
<1> USE WriterAssumption, BoundAssumption
    DEF IInv, Rename, Goto, Report, store, calls, Empty, Version, Labels, Outcomes,
        InCall, Checked
<1>0. /\ file' = [rev |-> basis[w].rev + 1, by |-> w, whole |-> TRUE]
      /\ basis[w].rev = file.rev /\ file.rev < MaxRevision /\ file.rev \in Nat
  BY DEF TypeOK, TempInv, RevisionInv
<1>1. TypeOK'
  BY DEF TypeOK, FileIsWhole
<1>2. OneWriter'
  BY DEF OneWriter, TypeOK
<1>3. FileIsWhole'
  BY <1>0 DEF TypeOK, FileIsWhole
<1>4. RevisionInv'
  <2> SUFFICES ASSUME NEW o \in Writer
               PROVE  /\ basis[o].rev < file'.rev
                      /\ pc'[o] \notin Checked
      BY DEF RevisionInv, TypeOK
  <2>1. basis[o].rev < file'.rev
    BY <1>0 DEF RevisionInv, TypeOK
  <2>2. pc'[o] \notin Checked
    <3>1. CASE o = w
      BY <3>1 DEF TypeOK
    <3>2. CASE o # w
      BY <3>2, Alone DEF TypeOK
    <3>3. QED
      BY <3>1, <3>2
  <2>3. QED
    BY <2>1, <2>2
<1>5. TempInv'
  BY DEF TempInv, TypeOK, OneWriter, RevisionInv
<1>6. ProgressInv'
  BY DEF ProgressInv, TypeOK
<1>7. OutcomeIsTrue'
  BY DEF OutcomeIsTrue, TypeOK, ProgressInv
<1>8. QED BY <1>1, <1>2, <1>3, <1>4, <1>5, <1>6, <1>7

(* The read-back only reports what the rename has done. *)
LEMMA VerifyStep == ASSUME IInv, NEW w \in Writer, Verify(w) PROVE IInv'
<1> USE WriterAssumption, BoundAssumption
    DEF IInv, Verify, Goto, Report, store, calls, Empty, Version, Labels, Outcomes,
        InCall, Checked
<1>1. TypeOK'
  BY DEF TypeOK, FileIsWhole
<1>2. OneWriter'
  BY DEF OneWriter, TypeOK
<1>3. FileIsWhole'
  BY DEF FileIsWhole, TypeOK, RevisionInv, TempInv
<1>4. RevisionInv'
  BY DEF RevisionInv, TypeOK, OneWriter, FileIsWhole, TempInv
<1>5. TempInv'
  BY DEF TempInv, TypeOK, OneWriter, RevisionInv
<1>6. ProgressInv'
  BY DEF ProgressInv, TypeOK
<1>7. OutcomeIsTrue'
  BY DEF OutcomeIsTrue, TypeOK, ProgressInv
<1>8. QED BY <1>1, <1>2, <1>3, <1>4, <1>5, <1>6, <1>7

(* A failure changes at most the call's own temporary file. *)
LEMMA FailStep == ASSUME IInv, NEW w \in Writer, Fail(w) PROVE IInv'
<1> USE WriterAssumption, BoundAssumption
    DEF IInv, Fail, Goto, Report, store, calls, Empty, Version, Labels, Outcomes,
        InCall, Checked
<1>1. TypeOK'
  <2>1. tmp' \in [Pid -> Version]
    <3>1. Empty \in Version
      OBVIOUS
    <3>2. QED
      BY <3>1 DEF TypeOK
  <2>2. QED
    BY <2>1 DEF TypeOK
<1>2. OneWriter'
  BY DEF OneWriter, TypeOK
<1>3. FileIsWhole'
  BY DEF FileIsWhole, TypeOK, RevisionInv, TempInv
<1>4. RevisionInv'
  BY DEF RevisionInv, TypeOK, OneWriter, FileIsWhole, TempInv
<1>5. TempInv'
  <2> SUFFICES ASSUME NEW o \in Writer, pc'[o] \in {"created", "synced"}
               PROVE  FALSE
      BY DEF TempInv
  <2>1. o # w /\ pc[o] \in {"created", "synced"}
    BY DEF TypeOK
  <2>2. QED
    BY <2>1, Alone
<1>6. ProgressInv'
  BY DEF ProgressInv, TypeOK
<1>7. OutcomeIsTrue'
  BY DEF OutcomeIsTrue, TypeOK, ProgressInv
<1>8. QED BY <1>1, <1>2, <1>3, <1>4, <1>5, <1>6, <1>7

(* The lock removed is the call's own. *)
LEMMA ReleaseLockStep == ASSUME IInv, NEW w \in Writer, ReleaseLock(w) PROVE IInv'
<1> USE WriterAssumption, BoundAssumption
    DEF IInv, ReleaseLock, Goto, Report, store, calls, Empty, Version, Labels, Outcomes,
        InCall, Checked
<1>1. TypeOK'
  BY DEF TypeOK, FileIsWhole
<1>2. OneWriter'
  BY DEF OneWriter, TypeOK
<1>3. FileIsWhole'
  BY DEF FileIsWhole, TypeOK, RevisionInv, TempInv
<1>4. RevisionInv'
  BY DEF RevisionInv, TypeOK, OneWriter, FileIsWhole, TempInv
<1>5. TempInv'
  BY DEF TempInv, TypeOK, OneWriter, RevisionInv
<1>6. ProgressInv'
  BY DEF ProgressInv, TypeOK
<1>7. OutcomeIsTrue'
  BY DEF OutcomeIsTrue, TypeOK, ProgressInv
<1>8. QED BY <1>1, <1>2, <1>3, <1>4, <1>5, <1>6, <1>7

(* A crash ends calls and leaves the files. *)
LEMMA CrashStep == ASSUME IInv, NEW p \in Pid, Crash(p) PROVE IInv'
BY DEF IInv, TypeOK, OneWriter, FileIsWhole, RevisionInv, TempInv, ProgressInv, OutcomeIsTrue,
       Crash, store, InCall, Checked, Empty, Version, Labels, Outcomes

(* Every step of the module keeps the invariant. *)
LEMMA NextIInv == IInv /\ [Next]_vars => IInv'
<1> SUFFICES ASSUME IInv, [Next]_vars PROVE IInv'
    OBVIOUS
<1>1. ASSUME NEW w \in Writer, Read(w) \/ Write(w) PROVE IInv'
  BY <1>1, ReadStep, AcquireLockStep, CheckRevisionStep, RemoveTempStep, CreateTempStep,
     WriteTempStep, RenameStep, VerifyStep, FailStep, ReleaseLockStep DEF Write
<1>2. ASSUME NEW p \in Pid, Crash(p) PROVE IInv'
  BY <1>2, CrashStep
<1>3. CASE UNCHANGED vars
  BY <1>3 DEF vars, store, calls, IInv, TypeOK, OneWriter, FileIsWhole, RevisionInv, TempInv,
              ProgressInv, OutcomeIsTrue, InCall
<1>4. QED
  BY <1>1, <1>2, <1>3 DEF Next

(* The inductive invariant holds of every behaviour. *)
THEOREM CheckpointInvariant == Spec => []IInv
BY InitIInv, NextIInv, PTL DEF Spec

(* One call at a time is past the lock, for any number of calls, processes *)
(* and crashes: a refused call never removes the lock of another.          *)
THEOREM CheckpointOneWriter == Spec => []OneWriter
<1>1. IInv => OneWriter
  BY DEF IInv
<1>2. QED
  BY <1>1, CheckpointInvariant, PTL

(* A call past its revision check replaces the version its controller read. *)
THEOREM CheckpointOverwritesWhatItRead == Spec => []OverwritesWhatItRead
<1>1. IInv => OverwritesWhatItRead
  BY DEF IInv, RevisionInv, Checked, OverwritesWhatItRead
<1>2. QED
  BY <1>1, CheckpointInvariant, PTL

(* The reported outcome is the truth. *)
THEOREM CheckpointOutcomeIsTrue == Spec => []OutcomeIsTrue
<1>1. IInv => OutcomeIsTrue
  BY DEF IInv
<1>2. QED
  BY <1>1, CheckpointInvariant, PTL

(* The checkpoint implements the register: the rename is the commit, the   *)
(* read is the look, and everything else is invisible.                     *)
THEOREM CheckpointImplementsRegister == Spec => RegisterSpec
<1>1. Init => Register!Init
  BY DEF Init, Register!Init, Empty, Register!Empty
<1>2. IInv /\ [Next]_vars => [Register!Next]_Register!vars
  <2> SUFFICES ASSUME IInv, [Next]_vars PROVE [Register!Next]_Register!vars
      OBVIOUS
  <2> USE DEF Register!vars
  <2>1. ASSUME NEW w \in Writer, Read(w) PROVE Register!Look(w)
    BY <2>1 DEF Read, Register!Look, store
  <2>2. ASSUME NEW w \in Writer, Rename(w) PROVE Register!Commit(w)
    <3>1. w \notin committed /\ file = basis[w]
      BY <2>2 DEF Rename, IInv, RevisionInv, ProgressInv, Checked
    <3>2. file' = [rev |-> file.rev + 1, by |-> w, whole |-> TRUE]
      BY <2>2, <3>1 DEF Rename, IInv, TempInv
    <3>3. QED
      BY <2>2, <3>1, <3>2 DEF Rename, Register!Commit
  <2>3. ASSUME NEW w \in Writer, WriteTemp(w) PROVE UNCHANGED Register!vars
    <3>1. file' = file
      BY <2>3 DEF WriteTemp, Filled, IInv, TypeOK, FileIsWhole, Version
    <3>2. QED
      BY <2>3, <3>1 DEF WriteTemp
  <2>4. ASSUME NEW w \in Writer,
               \/ AcquireLock(w) \/ CheckRevision(w) \/ RemoveTemp(w) \/ CreateTemp(w)
               \/ Verify(w) \/ Fail(w) \/ ReleaseLock(w)
        PROVE  UNCHANGED Register!vars
    BY <2>4 DEF AcquireLock, CheckRevision, RemoveTemp, CreateTemp, Verify, Fail,
                ReleaseLock, store
  <2>5. ASSUME NEW p \in Pid, Crash(p) PROVE UNCHANGED Register!vars
    BY <2>5 DEF Crash, store
  <2>6. CASE UNCHANGED vars
    BY <2>6 DEF vars, store, calls
  <2>7. QED
    BY <2>1, <2>2, <2>3, <2>4, <2>5, <2>6 DEF Next, Write, Register!Next
<1>3. QED
  BY <1>1, <1>2, CheckpointInvariant, PTL DEF Spec, RegisterSpec, Register!Spec
=============================================================================

----------------------- MODULE InvestigationJournalProofs -----------------------
(***************************************************************************)
(* Proofs about InvestigationJournal: what every reader may rely on        *)
(* however calls overlap, and, for a client that awaits its operations,    *)
(* that what is accepted was whole, that the journal only grows and that   *)
(* it keeps what was reported.                                             *)
(***************************************************************************)
EXTENDS InvestigationJournal, TLAPS

(* Appending an entry adds it to the entries and keeps the others. *)
LEMMA EntriesAppend ==
  ASSUME NEW list \in Seq(Op), NEW w \in Op
  PROVE  /\ Append(list, w) \in Seq(Op)
         /\ Len(Append(list, w)) = Len(list) + 1
         /\ Entries(Append(list, w)) = Entries(list) \cup {w}
BY DEF Entries

(* Nothing is stored and nobody has begun. *)
LEMMA InitIInv == Init => IInv
<1> SUFFICES ASSUME Init PROVE IInv
    OBVIOUS
<1> USE DEF Init
<1>1. Entries(<<>>) = {}
  BY DEF Entries
<1>2. TypeOK
  BY BoundAssumption, FlagAssumption DEF TypeOK, Labels, Unread
<1>3. CommitInv /\ RoomInv /\ AcceptedWasCommitted
  BY DEF CommitInv, RoomInv, Writing, AcceptedWasCommitted, Unread, File, Call
<1>4. ArtifactInv
  BY <1>1 DEF ArtifactInv, Unread, Call
<1>5. AwaitedInv
  BY DEF AwaitedInv, Busy, Call
<1>6. ResumeFindsArtifacts /\ PersistedStays
  BY DEF ResumeFindsArtifacts, PersistedStays, Call
<1>7. QED
  BY <1>2, <1>3, <1>4, <1>5, <1>6 DEF IInv

(* A call begins when it is its turn: with a client that awaits its        *)
(* operations no two of them are under way.                                *)
LEMMA BeginKeepsAwaited ==
  ASSUME TypeOK, AwaitedInv, awaiting, NEW c \in Call, Turn(c), Goto(c, "reading"), UNCHANGED file,
         UNCHANGED base
  PROVE  AwaitedInv'
BY DEF AwaitedInv, Turn, Goto, Busy, Extended, TypeOK, Unread, Call

(* A call that ends leaves the others' part of the invariant alone. *)
LEMMA EndKeepsAwaited ==
  ASSUME TypeOK, AwaitedInv, NEW c \in Call, NEW r, Report(c, r), UNCHANGED <<file, base>>
  PROVE  AwaitedInv'
BY DEF AwaitedInv, Report, Goto, Busy, Extended, TypeOK, Unread, Call

(* What a call that has accepted a journal knows of it. *)
LEMMA AcceptedList ==
  ASSUME IInv, NEW c \in Call, NEW list, Accepts(c, list)
  PROVE  /\ list \in Seq(Op)
         /\ Entries(list) \subseteq artifacts
         /\ awaiting => list \in committed
         /\ awaiting /\ c \in Op /\ Busy(c) => \A f \in File : file[f] = list
<1>1. \A f \in File : list \in seen[c][f]
  BY DEF Accepts
<1>2. list \in Seq(Op)
  BY <1>1 DEF IInv, TypeOK, File
<1>3. ASSUME awaiting PROVE list \in committed
  BY <1>1, <1>3 DEF IInv, CommitInv, File
<1>4. Entries(list) \subseteq artifacts
  BY <1>1 DEF IInv, ArtifactInv, File
<1>5. ASSUME awaiting, c \in Op, Busy(c) PROVE \A f \in File : file[f] = list
  BY <1>1, <1>5 DEF IInv, AwaitedInv
<1>6. QED
  BY <1>2, <1>3, <1>4, <1>5

(* Reading one of the files. *)
LEMMA ReadFileStep == ASSUME IInv, NEW c \in Call, NEW f \in File, ReadFile(c, f) PROVE IInv'
<1> USE DEF IInv, ReadFile, files
<1>1. TypeOK'
  BY DEF TypeOK
<1>2. (awaiting => CommitInv)'
  BY DEF CommitInv, TypeOK, File
<1>3. ArtifactInv'
  BY DEF ArtifactInv, TypeOK, Entries
<1>4. RoomInv' /\ AcceptedWasCommitted' /\ ResumeFindsArtifacts' /\ PersistedStays'
  BY DEF RoomInv, Writing, AcceptedWasCommitted, ResumeFindsArtifacts, PersistedStays, Entries
<1>5. (awaiting => AwaitedInv)'
  BY DEF AwaitedInv, TypeOK, Busy, Extended
<1>6. QED
  BY <1>1, <1>2, <1>3, <1>4, <1>5

(* A call ends without a word on the journal: it was refused, or failed. *)
LEMMA EndStep ==
  ASSUME IInv, NEW c \in Call, NEW r \in {"resumed", "refused", "failed", "crashed"},
         Report(c, r), UNCHANGED <<files, awaiting, base, committed>>, failures' \in Nat,
         pc[c] # "idle"
  PROVE  IInv'
<1> USE DEF IInv, files
<1>1. TypeOK'
  BY DEF TypeOK, Report, Goto, Labels, Unread
<1>2. (awaiting => CommitInv)'
  BY DEF CommitInv, TypeOK, File, Report, Goto, Unread
<1>3. ArtifactInv'
  BY DEF ArtifactInv, TypeOK, Entries, Report, Goto, Unread, Call
<1>4. RoomInv' /\ AcceptedWasCommitted' /\ ResumeFindsArtifacts' /\ PersistedStays'
  BY DEF RoomInv, Writing, AcceptedWasCommitted, ResumeFindsArtifacts, PersistedStays, Entries,
         Report, Goto, TypeOK, Call
<1>5. (awaiting => AwaitedInv)'
  BY EndKeepsAwaited
<1>6. QED
  BY <1>1, <1>2, <1>3, <1>4, <1>5

(* A call begins to read the journal; an operation has stored its artifact. *)
LEMMA BeginStep ==
  ASSUME IInv, NEW c \in Call, Turn(c), Goto(c, "reading"),
         artifacts' = artifacts \cup (Op \cap {c}),
         UNCHANGED <<file, awaiting, base, outcome, committed, failures>>
  PROVE  IInv'
<1> USE DEF IInv
<1>1. TypeOK'
  BY DEF TypeOK, Goto, Labels, Unread
<1>2. (awaiting => CommitInv)'
  BY DEF CommitInv, TypeOK, File, Goto, Unread
<1>3. ArtifactInv'
  BY DEF ArtifactInv, TypeOK, Entries, Goto, Unread, Call
<1>4. RoomInv' /\ AcceptedWasCommitted' /\ ResumeFindsArtifacts' /\ PersistedStays'
  BY DEF RoomInv, Writing, AcceptedWasCommitted, ResumeFindsArtifacts, PersistedStays, Entries,
         Goto, TypeOK, Call
<1>5. (awaiting => AwaitedInv)'
  BY BeginKeepsAwaited
<1>6. QED
  BY <1>1, <1>2, <1>3, <1>4, <1>5

(* An operation or a resume accepts the journal and goes on. *)
LEMMA AcceptStep ==
  ASSUME IInv, NEW c \in Call, NEW list, NEW l \in {"journal", "artifacts"},
         pc[c] = "reading", Accepts(c, list), Goto(c, l), base' = [base EXCEPT ![c] = list],
         l = "journal" => c \in Op /\ Len(list) < MaxEntries,
         l = "artifacts" => c \in Resumer,
         UNCHANGED <<files, awaiting, outcome, committed, failures>>
  PROVE  IInv'
<1> USE DEF IInv, files
<1>0. /\ list \in Seq(Op) /\ Entries(list) \subseteq artifacts
      /\ awaiting => list \in committed
      /\ awaiting /\ c \in Op => \A f \in File : file[f] = list
  BY AcceptedList DEF Busy
<1>1. TypeOK'
  BY <1>0 DEF TypeOK, Goto, Labels, Unread
<1>2. (awaiting => CommitInv)'
  BY DEF CommitInv, TypeOK, File, Goto, Unread
<1>3. ArtifactInv'
  <2>1. \A d \in Call : Entries(base'[d]) \subseteq artifacts
    BY <1>0 DEF ArtifactInv, TypeOK
  <2>2. \A d \in Call, f \in File : seen'[d][f] \subseteq seen[d][f]
    BY DEF TypeOK, Goto, Unread
  <2>3. QED
    BY <2>1, <2>2 DEF ArtifactInv, TypeOK, Goto, Entries, Call
<1>4. RoomInv'
  BY <1>0 DEF RoomInv, Writing, TypeOK, Goto, Call
<1>5. AcceptedWasCommitted'
  BY <1>0 DEF AcceptedWasCommitted, TypeOK
<1>6. ResumeFindsArtifacts' /\ PersistedStays'
  BY DEF ResumeFindsArtifacts, PersistedStays, Entries
<1>7. (awaiting => AwaitedInv)'
  <2> SUFFICES ASSUME awaiting PROVE AwaitedInv'
      OBVIOUS
  <2>1. /\ \A d \in Call : Busy(d)' => Busy(d)
        /\ \A d \in Call, f \in File : seen'[d][f] \subseteq seen[d][f]
    BY DEF Busy, Goto, Unread, TypeOK
  <2>2. /\ \A v, w \in Op : (Busy(v) /\ Busy(w) => v = w)'
        /\ \A w \in Op, f \in File : (Busy(w) => seen[w][f] \subseteq {file[f]})'
    BY <2>1 DEF AwaitedInv, Call
  <2>3. ASSUME NEW w \in Op
        PROVE  (/\ pc[w] = "journal" => Extended(w, {})
                /\ pc[w] = "projection" => Extended(w, {"journal"})
                /\ pc[w] = "metadata" => Extended(w, {"journal", "projection"}))'
    <3>1. CASE w = c
      BY <1>0, <3>1 DEF Goto, TypeOK, Extended, Call
    <3>2. CASE w # c
      BY <3>2 DEF AwaitedInv, Goto, TypeOK, Extended, Call
    <3>3. QED
      BY <3>1, <3>2
  <2>4. QED
    BY <2>2, <2>3 DEF AwaitedInv
<1>8. QED
  BY <1>1, <1>2, <1>3, <1>4, <1>5, <1>6, <1>7

(* The rename of one of the three files, g, by an operation w that goes on *)
(* to l: the files in F already hold the new entry.                        *)
LEMMA RenameStep ==
  ASSUME IInv, NEW w \in Op, NEW g \in File, NEW F \in SUBSET File,
         NEW l \in {"projection", "metadata", "verifying"},
         Writing(w), awaiting => Extended(w, F), g \notin F,
         Replace(w, g), Goto(w, l),
         g = "metadata" => F = {"journal", "projection"},
         l = "projection" => F \cup {g} = {"journal"},
         l = "metadata" => F \cup {g} = {"journal", "projection"},
         UNCHANGED <<artifacts, awaiting, base, outcome, failures>>
  PROVE  IInv'
<1> USE DEF IInv
<1> DEFINE new == Append(base[w], w)
<1>0. /\ new \in Seq(Op) /\ Len(new) <= MaxEntries
      /\ Entries(new) = Entries(base[w]) \cup {w}
      /\ w \in artifacts /\ Entries(base[w]) \subseteq artifacts
  <2>1. base[w] \in Seq(Op) /\ Len(base[w]) < MaxEntries
    BY DEF TypeOK, RoomInv, Call
  <2>2. w \in artifacts /\ Entries(base[w]) \subseteq artifacts
    BY DEF ArtifactInv, Writing, Call
  <2>3. Len(base[w]) \in Nat
    BY <2>1
  <2>4. QED
    BY <2>1, <2>2, <2>3, EntriesAppend, BoundAssumption
<1>1. TypeOK'
  BY <1>0 DEF TypeOK, Goto, Replace, Labels, Unread, Call
<1>2. (awaiting => CommitInv)'
  <2> SUFFICES ASSUME awaiting PROVE CommitInv'
      OBVIOUS
  <2>1. \A f \in File : file'[f] = IF f \in F \cup {g} THEN new ELSE base[w]
    BY DEF Extended, Replace, TypeOK
  <2>2. CASE g = "metadata"
    <3>1. \A f \in File : file'[f] = new
      BY <2>1, <2>2 DEF File
    <3>2. "metadata" \in File
      BY DEF File
    <3>3. new \in Whole(file')
      BY <3>1, <3>2 DEF Whole
    <3>4. committed' = committed \cup Whole(file')
      BY DEF Replace
    <3>5. file'["metadata"] = new
      BY <3>1, <3>2
    <3>6. file'["metadata"] \in committed'
      BY <3>3, <3>4, <3>5
    <3>7. QED
      BY <3>4, <3>6 DEF CommitInv, Goto, TypeOK, Unread, File, Call
  <2>3. CASE g # "metadata"
    BY <2>3 DEF CommitInv, TypeOK, File, Goto, Replace, Unread, Call
  <2>4. QED
    BY <2>2, <2>3
<1>3. ArtifactInv'
  <2>1. \A f \in File : Entries(file'[f]) \subseteq artifacts
    BY <1>0 DEF ArtifactInv, TypeOK, Replace
  <2>2. \A d \in Call, f \in File : seen'[d][f] \subseteq seen[d][f]
    BY DEF TypeOK, Goto, Unread
  <2>3. QED
    BY <1>0, <2>1, <2>2 DEF ArtifactInv, TypeOK, Goto, Entries, Call
<1>4. RoomInv'
  BY DEF RoomInv, Writing, TypeOK, Goto, Call
<1>5. AcceptedWasCommitted' /\ ResumeFindsArtifacts'
  BY DEF AcceptedWasCommitted, ResumeFindsArtifacts, Replace
<1>6. PersistedStays'
  <2> SUFFICES ASSUME awaiting, NEW v \in Op, outcome[v] = "persisted", NEW f \in File
               PROVE  v \in Entries(file'[f])
      BY DEF PersistedStays, Entries
  <2>1. \A h \in File : v \in Entries(file[h])
    BY DEF PersistedStays
  <2>2. file[g] = base[w]
    BY DEF Extended
  <2>3. QED
    BY <1>0, <2>1, <2>2 DEF Replace, TypeOK
<1>7. (awaiting => AwaitedInv)'
  <2> SUFFICES ASSUME awaiting PROVE AwaitedInv'
      OBVIOUS
  <2>1. w \in Call /\ \A v \in Op : Busy(v) => v = w
    BY DEF AwaitedInv, Busy, Writing, Call
  <2>2. \A v \in Op : pc'[v] \notin {"idle", "done"} => v = w
    BY <2>1 DEF Busy, Goto, TypeOK, Call
  <2>3. \A f \in File : seen'[w][f] = {}
    BY <2>1 DEF Goto, Unread, TypeOK
  <2>4. pc'[w] = l
    BY <2>1 DEF Goto, TypeOK
  <2>5. \A f \in File : file'[f] = IF f \in F \cup {g} THEN new ELSE base[w]
    BY DEF Extended, Replace, TypeOK
  <2>6. QED
    BY <2>1, <2>2, <2>3, <2>4, <2>5 DEF AwaitedInv, Busy, Extended, Call
<1>8. QED
  BY <1>1, <1>2, <1>3, <1>4, <1>5, <1>6, <1>7

(* The read-back: the entry of an operation that reports success is in all *)
(* three files.                                                            *)
LEMMA VerifyStep == ASSUME IInv, NEW w \in Op, Verify(w) PROVE IInv'
<1> USE DEF IInv, files
<1>1. w \in Call
  BY DEF Call
<1>2. PICK list \in seen[w]["journal"] :
          /\ pc[w] = "verifying"
          /\ Accepts(w, list)
          /\ Report(w, IF list = Append(base[w], w) THEN "persisted" ELSE "refused")
          /\ UNCHANGED <<files, awaiting, base, committed, failures>>
  BY DEF Verify
<1>3. CASE list # Append(base[w], w)
  BY <1>1, <1>2, <1>3, EndStep DEF TypeOK
<1>4. CASE list = Append(base[w], w)
  <2>0. Report(w, "persisted")
    BY <1>2, <1>4
  <2>1. TypeOK'
    BY <1>1, <1>2, <2>0 DEF TypeOK, Report, Goto, Labels, Unread
  <2>2. (awaiting => CommitInv)'
    BY <1>1, <1>2, <2>0 DEF CommitInv, TypeOK, File, Report, Goto, Unread
  <2>3. ArtifactInv'
    <3>1. \A d \in Call, f \in File : seen'[d][f] \subseteq seen[d][f]
      BY <1>1, <2>0 DEF TypeOK, Report, Goto, Unread
    <3>2. \A v \in Op : pc'[v] # "idle" => pc[v] # "idle"
      BY <1>1, <1>2, <2>0 DEF TypeOK, Report, Goto, Call
    <3>3. QED
      BY <1>2, <3>1, <3>2 DEF ArtifactInv, Entries
  <2>4. RoomInv' /\ AcceptedWasCommitted'
    BY <1>2, <2>0 DEF RoomInv, Writing, AcceptedWasCommitted, Report, Goto, TypeOK, Call
  <2>5. ResumeFindsArtifacts'
    BY <2>0, CallAssumption DEF ResumeFindsArtifacts, Report, TypeOK, Call
  <2>6. PersistedStays'
    <3>1. ASSUME awaiting PROVE \A f \in File : w \in Entries(file[f])
      <4>1. \A f \in File : file[f] = Append(base[w], w)
        BY <1>1, <1>2, <1>4, <3>1, AcceptedList DEF Busy
      <4>2. w \in Entries(Append(base[w], w))
        BY <1>1, EntriesAppend DEF TypeOK
      <4>3. QED
        BY <4>1, <4>2
    <3>2. QED
      BY <1>1, <1>2, <2>0, <3>1 DEF PersistedStays, Report, TypeOK, Entries
  <2>7. (awaiting => AwaitedInv)'
    BY <1>1, <1>2, <2>0, EndKeepsAwaited
  <2>8. QED
    BY <2>1, <2>2, <2>3, <2>4, <2>5, <2>6, <2>7
<1>5. QED
  BY <1>3, <1>4

(* The artifacts of an accepted journal are all stored. *)
LEMMA ReadArtifactsStep == ASSUME IInv, NEW r \in Resumer, ReadArtifacts(r) PROVE IInv'
<1>1. r \in Call /\ Entries(base[r]) \subseteq artifacts
  BY DEF IInv, ArtifactInv, Call
<1>2. Report(r, "resumed") /\ pc[r] # "idle"
  BY <1>1 DEF ReadArtifacts
<1>3. QED
  BY <1>1, <1>2, EndStep DEF ReadArtifacts, IInv, TypeOK

(* Every step of an operation keeps the invariant. *)
LEMMA OperateStep == ASSUME IInv, NEW w \in Op, Operate(w) PROVE IInv'
<1>0. w \in Call
  BY DEF Call
<1>1. CASE PersistArtifact(w)
  BY <1>0, <1>1, BeginStep DEF PersistArtifact
<1>2. CASE CheckCurrent(w)
  <2>1. PICK list \in seen[w]["journal"] :
            /\ pc[w] = "reading"
            /\ Accepts(w, list)
            /\ IF Len(list) >= MaxEntries
               THEN Report(w, "refused") /\ UNCHANGED base
               ELSE Goto(w, "journal") /\ base' = [base EXCEPT ![w] = list] /\ UNCHANGED outcome
            /\ UNCHANGED <<files, awaiting, committed, failures>>
    BY <1>2 DEF CheckCurrent
  <2>2. list \in Seq(Op)
    BY <1>0, <2>1, AcceptedList
  <2>3. CASE Len(list) >= MaxEntries
    BY <1>0, <2>1, <2>3, EndStep DEF IInv, TypeOK
  <2>4. CASE ~(Len(list) >= MaxEntries)
    <3>1. Len(list) < MaxEntries
      BY <2>2, <2>4, BoundAssumption
    <3>2. QED
      BY <1>0, <2>1, <2>4, <3>1, AcceptStep
  <2>5. QED
    BY <2>3, <2>4
<1>3. CASE RenameJournal(w)
  <2>1. Writing(w) /\ (awaiting => Extended(w, {}))
    BY <1>3 DEF RenameJournal, Writing, IInv, AwaitedInv
  <2>2. QED
    BY <1>3, <2>1, RenameStep DEF RenameJournal, File
<1>4. CASE RenameProjection(w)
  <2>1. Writing(w) /\ (awaiting => Extended(w, {"journal"}))
    BY <1>4 DEF RenameProjection, Writing, IInv, AwaitedInv
  <2>2. QED
    BY <1>4, <2>1, RenameStep DEF RenameProjection, File
<1>5. CASE RenameMetadata(w)
  <2>1. Writing(w) /\ (awaiting => Extended(w, {"journal", "projection"}))
    BY <1>5 DEF RenameMetadata, Writing, IInv, AwaitedInv
  <2>2. QED
    BY <1>5, <2>1, RenameStep DEF RenameMetadata, File
<1>6. CASE Verify(w)
  BY <1>6, VerifyStep
<1>7. QED
  BY <1>1, <1>2, <1>3, <1>4, <1>5, <1>6 DEF Operate

(* Every step keeps the invariant. *)
LEMMA NextIInv == IInv /\ [Next]_vars => IInv'
<1> SUFFICES ASSUME IInv, [Next]_vars PROVE IInv'
    OBVIOUS
<1>1. ASSUME NEW w \in Op, Operate(w) PROVE IInv'
  BY <1>1, OperateStep
<1>2. ASSUME NEW r \in Resumer, Resume(r) PROVE IInv'
  <2>1. r \in Call /\ Op \cap {r} = {}
    BY CallAssumption DEF Call
  <2>2. artifacts' = artifacts \cup (Op \cap {r})
    BY <1>2, <2>1 DEF Resume, files
  <2>3. QED
    BY <1>2, <2>1, <2>2, BeginStep DEF Resume, files
<1>3. ASSUME NEW r \in Resumer, AcceptJournal(r) PROVE IInv'
  BY <1>3, AcceptStep DEF AcceptJournal, Call
<1>4. ASSUME NEW r \in Resumer, ReadArtifacts(r) PROVE IInv'
  BY <1>4, ReadArtifactsStep
<1>5. ASSUME NEW c \in Call, NEW f \in File, ReadFile(c, f) PROVE IInv'
  BY <1>5, ReadFileStep
<1>6. ASSUME NEW c \in Call, Inconsistent(c) PROVE IInv'
  BY <1>6, EndStep DEF Inconsistent, Reading, IInv, TypeOK
<1>7. ASSUME NEW c \in Call, NEW how \in {"failed", "crashed"}, Fail(c, how) PROVE IInv'
  BY <1>7, EndStep DEF Fail, Busy, IInv, TypeOK
<1>8. CASE UNCHANGED vars
  BY <1>8 DEF vars, files, IInv, TypeOK, CommitInv, ArtifactInv, RoomInv, Writing, AwaitedInv,
              Extended, Busy, Entries, AcceptedWasCommitted, ResumeFindsArtifacts,
              PersistedStays
<1>9. QED
  BY <1>1, <1>2, <1>3, <1>4, <1>5, <1>6, <1>7, <1>8 DEF Next

(* The invariant holds in every reachable state. *)
THEOREM JournalInvariant == Spec => []IInv
BY InitIInv, NextIInv, PTL DEF Spec

(* What is accepted as the journal was in all three files at one moment,   *)
(* however its reads interleave with the renames of the operation under    *)
(* way and whatever fails between them, for a client that awaits its       *)
(* operations.                                                             *)
THEOREM JournalAcceptedWasCommitted == Spec => []AcceptedWasCommitted
<1>1. IInv => AcceptedWasCommitted
  BY DEF IInv
<1>2. QED
  BY <1>1, JournalInvariant, PTL

(* A resume finds the artifact of every operation in the journal. *)
THEOREM JournalResumeFindsArtifacts == Spec => []ResumeFindsArtifacts
<1>1. IInv => ResumeFindsArtifacts
  BY DEF IInv
<1>2. QED
  BY <1>1, JournalInvariant, PTL

(* What was reported as persisted stays, for a client that awaits. *)
THEOREM JournalPersistedStays == Spec => []PersistedStays
<1>1. IInv => PersistedStays
  BY DEF IInv
<1>2. QED
  BY <1>1, JournalInvariant, PTL

(* The journal grows by one completed operation at a time, whatever fails  *)
(* or crashes between the renames: the metadata is replaced only when it   *)
(* still is what the operation began from and the other two files hold     *)
(* its entry.                                                              *)
THEOREM JournalAppendOnly == Spec => AppendOnly
<1> DEFINE Grows == awaiting /\ file'["metadata"] # file["metadata"] =>
                        \E w \in Op : \A f \in File : file'[f] = Append(file["metadata"], w)
<1>1. IInv /\ [Next]_vars => [Grows]_vars
  <2> SUFFICES ASSUME IInv, Next, awaiting PROVE Grows
      BY DEF vars
  <2>1. ASSUME NEW w \in Op, RenameMetadata(w) PROVE Grows
    <3>1. Extended(w, {"journal", "projection"})
      BY <2>1 DEF IInv, AwaitedInv, RenameMetadata
    <3>2. \A f \in File : file'[f] = Append(file["metadata"], w)
      BY <2>1, <3>1 DEF Extended, RenameMetadata, Replace, IInv, TypeOK, File
    <3>3. QED
      BY <3>2
  <2>2. ASSUME NEW w \in Op, Operate(w), ~RenameMetadata(w)
        PROVE  file'["metadata"] = file["metadata"]
    BY <2>2 DEF Operate, PersistArtifact, CheckCurrent, RenameJournal, RenameProjection, Verify,
                Replace, files, IInv, TypeOK, File
  <2>3. ASSUME ~ \E w \in Op : Operate(w) PROVE file' = file
    BY <2>3 DEF Next, Resume, AcceptJournal, ReadArtifacts, ReadFile, Inconsistent, Fail, files
  <2>4. QED
    BY <2>1, <2>2, <2>3
<1>2. QED
  BY <1>1, JournalInvariant, PTL DEF Spec, AppendOnly
=============================================================================

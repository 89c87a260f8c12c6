---------------------------- MODULE AnalysisBundle ----------------------------
(***************************************************************************)
(* Extracting the analysis bundle of one ROM: every call builds the bundle *)
(* in a temporary directory of its own and promotes it to the one          *)
(* directory of the ROM, moving the directory that is there aside first.   *)
(* No lock is taken, so calls of one server or of several overlap.         *)
(*                                                                         *)
(* A directory holds the bundle, whole or not, and what other tools have   *)
(* put beside it, which moves and dies with it.                            *)
(***************************************************************************)
EXTENDS Naturals

CONSTANTS Calls,      \* the calls that extract
          Insides,    \* what may lie in the directory beside the bundle
          Nothing,    \* ... when nothing does
          MaxFaults   \* file operations that fail, and crashes

VARIABLES final,         \* the directory of the ROM
          temp, back,    \* the temporary directory of each call and what it moved aside
          rom,           \* the ROM has the content its map was read from
          pc, faults,
          had            \* history: the directory was whole when the call began, and nothing
                         \* BundleSurvives leaves out has happened since
bundleVars == <<final, temp, back, rom, pc, faults, had>>

Directories == [there : BOOLEAN, whole : BOOLEAN, inside : Insides]
Absent == [there |-> FALSE, whole |-> FALSE, inside |-> Nothing]
Bare == [Absent EXCEPT !.there = TRUE]

Extracting == {"asked", "making", "filling", "comparing", "dropping", "looking", "moving",
               "promoting", "discarding", "undoing", "restoring"}
BundleOK ==
    /\ final \in Directories
    /\ temp \in [Calls -> Directories] /\ back \in [Calls -> Directories]
    /\ rom \in BOOLEAN
    /\ faults \in 0..MaxFaults
    /\ had \in [Calls -> BOOLEAN]

BundleInit ==
    /\ final = Absent
    /\ temp = [c \in Calls |-> Absent] /\ back = [c \in Calls |-> Absent]
    /\ rom = TRUE
    /\ pc = [c \in Calls |-> "idle"]
    /\ faults = 0
    /\ had = [c \in Calls |-> FALSE]

At(c, here) == pc[c] = here
Goto(c, there) == pc' = [pc EXCEPT ![c] = there]
\* A step of a call that changes at most the directories, and one that changes nothing.
Move(c, there) == Goto(c, there) /\ UNCHANGED <<rom, faults, had>>
Only(c, there) == Move(c, there) /\ UNCHANGED <<final, temp, back>>

\* A call starts to extract, with directory names of its own: it ends what
\* others could count on.
Enter(c) ==
    /\ temp' = [temp EXCEPT ![c] = Absent] /\ back' = [back EXCEPT ![c] = Absent]
    /\ Goto(c, "asked")
    /\ had' = [d \in Calls |-> d = c /\ final.whole /\ \A e \in Calls \ {c} : pc[e] \notin Extracting]
    /\ UNCHANGED <<final, rom, faults>>
BeginExtract(c) == At(c, "idle") /\ Enter(c)

\* The source is hashed against the map.
AssertSourceIdentity(c) ==
    /\ At(c, "asked")
    /\ Only(c, IF rom THEN "making" ELSE "failed")

MakeTemporary(c) ==
    /\ At(c, "making")
    /\ temp' = [temp EXCEPT ![c] = Bare]
    /\ Move(c, "filling") /\ UNCHANGED <<final, back>>

\* Components, overlays, derived images, maps and at last the manifest.
Generate(c) ==
    /\ At(c, "filling")
    /\ temp' = [temp EXCEPT ![c] = [@ EXCEPT !.whole = rom]]
    /\ Move(c, "comparing") /\ UNCHANGED <<final, back>>

\* The source must still be the one that was mapped.
CompareSource(c) ==
    /\ At(c, "comparing")
    /\ Only(c, IF rom THEN "looking" ELSE "dropping")

DropTemporary(c) ==
    /\ At(c, "dropping")
    /\ temp' = [temp EXCEPT ![c] = Absent]
    /\ Move(c, "failed") /\ UNCHANGED <<final, back>>

LookForFinal(c) ==
    /\ At(c, "looking")
    /\ Only(c, IF final.there THEN "moving" ELSE "promoting")

\* Renaming a directory another call has moved in the meantime fails.
MoveAside(c) ==
    /\ At(c, "moving")
    /\ IF final.there
       THEN /\ back' = [back EXCEPT ![c] = final]
            /\ final' = Absent
            /\ Move(c, "promoting") /\ UNCHANGED temp
       ELSE Only(c, "undoing")

\* Renaming onto a directory that has come back fails.
Promote(c) ==
    /\ At(c, "promoting")
    /\ IF final.there
       THEN Only(c, "undoing")
       ELSE /\ final' = temp[c]
            /\ temp' = [temp EXCEPT ![c] = Absent]
            /\ Move(c, IF back[c].there THEN "discarding" ELSE "extracted") /\ UNCHANGED back

DiscardBackup(c) ==
    /\ At(c, "discarding")
    /\ back' = [back EXCEPT ![c] = Absent]
    /\ Move(c, "extracted") /\ UNCHANGED <<final, temp>>

\* The handler of a failed promotion removes whatever has the final name ...
RemoveFinal(c) ==
    /\ At(c, "undoing")
    /\ final' = Absent
    /\ Move(c, IF back[c].there THEN "restoring" ELSE "dropping") /\ UNCHANGED <<temp, back>>
\* Mutant: ... and leaves the backup where it is.
LeaveBackup(c) == At(c, "restoring") /\ Only(c, "dropping")
\* ... and renames its backup to it.
RestoreBackup(c) ==
    /\ At(c, "restoring")
    /\ IF final.there
       THEN Only(c, "dropping")
       ELSE /\ final' = back[c]
            /\ back' = [back EXCEPT ![c] = Absent]
            /\ Move(c, "dropping") /\ UNCHANGED temp

\* Where a call goes on when the file operation of its place fails.
AfterFault(c) ==
    CASE pc[c] \in {"asked", "making", "dropping"} -> "failed"
      [] pc[c] \in {"filling", "comparing", "undoing", "restoring"} -> "dropping"
      [] pc[c] \in {"moving", "promoting", "discarding"} -> "undoing"
\* A directory being removed may be left without part of it.
Torn(d, torn) == [d EXCEPT !.whole = @ /\ ~torn]
FileFails(c) ==
    /\ pc[c] \in Extracting \ {"looking"}
    /\ faults < MaxFaults /\ faults' = faults + 1
    /\ \E torn \in BOOLEAN :
        /\ torn => pc[c] \in {"discarding", "undoing"}
        /\ back' = [back EXCEPT ![c] = Torn(@, torn /\ At(c, "discarding"))]
        /\ final' = Torn(final, torn /\ At(c, "undoing"))
        /\ had' = [had EXCEPT ![c] = @ /\ pc[c] \notin {"moving", "discarding", "undoing", "restoring"}]
    /\ Goto(c, AfterFault(c))
    /\ UNCHANGED <<temp, rom>>

ExtractStep(c) ==
    \/ AssertSourceIdentity(c) \/ MakeTemporary(c) \/ Generate(c) \/ CompareSource(c)
    \/ DropTemporary(c) \/ LookForFinal(c) \/ MoveAside(c) \/ Promote(c)
    \/ DiscardBackup(c) \/ RemoveFinal(c) \/ RestoreBackup(c)

BundleNext == \E c \in Calls : BeginExtract(c) \/ ExtractStep(c) \/ FileFails(c)
BundleSpec == BundleInit /\ [][BundleNext]_bundleVars

-----------------------------------------------------------------------------
(* Properties *)

\* A call that ends, however it ends, leaves the bundle that was there when it
\* began: the handler of the promotion (extraction.ts 514 to 523) restores it.
\* Calls that overlap are left out, and so are a server that dies and a first rename, a
\* removal of the backup and a step of the handler that fail.
BundleSurvives ==
    \A c \in Calls : pc[c] \in {"failed", "extracted"} /\ had[c] => final.whole

\* When every call has ended and one has reported success, the ROM has its
\* bundle: a promotion that fails restores what it has moved (extraction.ts 514 to 523).
SuccessHasBundle ==
    /\ \A c \in Calls : pc[c] \in {"failed", "extracted"}
    /\ \E c \in Calls : pc[c] = "extracted"
    => final.whole
=============================================================================

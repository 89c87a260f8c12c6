-------------------------- MODULE CheckpointRegister --------------------------
(***************************************************************************)
(* What the controller checkpoint of                                       *)
(* src/src/services/controller-checkpoint.ts promises its controllers: a   *)
(* register that a write replaces only if it still holds the very version  *)
(* the controller based the write on.  No locks, files, processes or       *)
(* failures.                                                               *)
(***************************************************************************)
EXTENDS Integers

CONSTANTS
    Writer,   \* write calls, one controller each
    NoWriter  \* the writer of the empty register

VARIABLES
    value,     \* the version held: its revision, its writer, whether it is whole
    basis,     \* per write, the version its controller has read
    committed  \* the writes that took effect

vars == <<value, basis, committed>>

Empty == [rev |-> 0, by |-> NoWriter, whole |-> TRUE]

Init ==
    /\ value = Empty
    /\ basis = [w \in Writer |-> Empty]
    /\ committed = {}

Look(w) ==
    /\ basis' = [basis EXCEPT ![w] = value]
    /\ UNCHANGED <<value, committed>>

(* The version replaced is the version read, not merely one that bears the *)
(* same number.                                                            *)
Commit(w) ==
    /\ w \notin committed
    /\ value = basis[w]
    /\ value' = [rev |-> value.rev + 1, by |-> w, whole |-> TRUE]
    /\ committed' = committed \cup {w}
    /\ UNCHANGED basis

Next == \E w \in Writer : Look(w) \/ Commit(w)

Spec == Init /\ [][Next]_vars
=============================================================================

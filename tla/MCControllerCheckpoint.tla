----------------------- MODULE MCControllerCheckpoint -----------------------
(* Instances of ControllerCheckpoint for TLC. *)
EXTENDS ControllerCheckpoint, TLC

Symmetry == Permutations(Writer) \cup Permutations(Pid)
=============================================================================

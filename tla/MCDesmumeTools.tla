--------------------------- MODULE MCDesmumeTools ---------------------------
(* Instances of DesmumeTools for TLC. *)
EXTENDS DesmumeTools, TLC

Symmetry == Permutations(Starter) \cup Permutations(Stopper)
=============================================================================

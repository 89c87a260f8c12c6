---------------------------- MODULE MCGdbSession ----------------------------
(* Instances of GdbSession for TLC. *)
EXTENDS GdbSession, TLC

Symmetry == Permutations(Req) \cup Permutations(Sock)
=============================================================================

--------------------------- MODULE MCGhidraProject ---------------------------
EXTENDS GhidraProject, TLC

CONSTANTS c1, c2

MCCalls == {c1, c2}
MCManifests == {"m1", "m2"}
Symmetry == Permutations(MCCalls)
=============================================================================

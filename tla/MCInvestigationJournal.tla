------------------------ MODULE MCInvestigationJournal ------------------------
(* InvestigationJournal for TLC: the calls of one kind are interchangeable. *)
EXTENDS InvestigationJournal, TLC

Symmetry == Permutations(Op) \cup Permutations(Resumer)
=============================================================================

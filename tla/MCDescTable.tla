----------------------------- MODULE MCDescTable -----------------------------
(* Symmetry for the run of DescTable.                                       *)
EXTENDS DescTable, TLC

Symm == Permutations(Threads) \cup Permutations(Objs)
=============================================================================

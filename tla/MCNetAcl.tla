------------------------------- MODULE MCNetAcl -------------------------------
(* Symmetry for the runs of NetAcl.                                         *)
EXTENDS NetAcl, TLC

Symm == Permutations(Threads) \cup Permutations(Ips)
=============================================================================

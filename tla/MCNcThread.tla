----------------------------- MODULE MCNcThread -----------------------------
(* The programs of the runs of NcThread, and the symmetry of those in      *)
(* which every thread but the main one stands for every other.             *)
EXTENDS NcThread, TLC

Others == Threads \ {Main}
Program(children, creators, targets, one_claim) ==
  [children |-> children, creators |-> creators, targets |-> targets,
   one_claim |-> one_claim]

(* The main thread creates all the others.                                 *)
MainCreates == {Program(Others, {Main}, Others, TRUE)}

Pairs == {s \in SUBSET Others : Cardinality(s) = 2}

(* Or it and two others create each other, and join and detach anybody, as *)
(* often as they like.                                                     *)
Misuses ==
  {Program(two, two \cup {Main}, two \cup {Main}, FALSE) : two \in Pairs}

AnyProgram == MainCreates \cup Misuses

(* A thread that main created creates another one.                         *)
Nested ==
  {Program(Others, {Main, t}, Others, TRUE) : t \in Others}

Symm == Permutations(Others) \cup Permutations(Blocks)
=============================================================================

------------------------------ MODULE MCValues ------------------------------
(* Two variables and four blocks, one for each string of two functions.     *)
EXTENDS Values, TLC

\* Bound: what follows a fourth oddity is not explored.
FewOddities == Cardinality(odd) <= 3
Symmetry == Permutations(Vars) \cup Permutations(Blocks)
=============================================================================

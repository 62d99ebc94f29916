-------------------------------- MODULE MCRc --------------------------------
(* Rc.tla on two variables and three objects with one member each: lists    *)
(* and cycles of up to three, assigned, shared and taken down.              *)
EXTENDS Rc, TLC

CONSTANTS r1, r2, o1, o2, o3
Symmetry == Permutations(Roots) \cup Permutations(Objects)
============================================================================

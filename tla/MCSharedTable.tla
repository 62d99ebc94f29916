---------------------------- MODULE MCSharedTable ----------------------------
(* Instances of SharedTable for TLC. *)
EXTENDS SharedTable, TLC

Symmetry == Permutations(Threads)
=============================================================================

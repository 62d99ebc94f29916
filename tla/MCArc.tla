------------------------------- MODULE MCArc -------------------------------
(* Instances of Arc for TLC.  Threads, variables and headers are           *)
(* interchangeable; the runs that check liveness do not use the symmetry.  *)
EXTENDS Arc, TLC

Symmetry ==
    Permutations(Threads) \cup Permutations(Vars) \cup Permutations(Headers)
============================================================================

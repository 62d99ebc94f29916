----------------------------- MODULE MCLuaTable -----------------------------
(* Instances of LuaTable for TLC. *)
EXTENDS LuaTable, TLC

Symmetry == Permutations(Tables)
=============================================================================

---------------------------- MODULE MCLuauResume ----------------------------
(* Instances of LuauResume for TLC. *)
EXTENDS LuauResume
=============================================================================

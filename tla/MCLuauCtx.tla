----------------------------- MODULE MCLuauCtx -----------------------------
(* Instances of LuauCtx for TLC. *)
EXTENDS LuauCtx

\* Bound: the deepest frame goes on, and is left, with no odd frame around,
\* and only if raises unwind: with longjmp a raise does the same at any depth.
SoundBelow == Depth = MaxFrames => unwinds /\ \A i \in DOMAIN frames : ~frames[i].odd
============================================================================

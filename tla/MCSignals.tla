----------------------------- MODULE MCSignals -----------------------------
(* Instances of Signals for TLC. *)
EXTENDS Signals

AsIsAndMended == {{}, {"count"}, {"count", "wrapper"}}
=============================================================================

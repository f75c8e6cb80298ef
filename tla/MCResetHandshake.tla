--------------------------- MODULE MCResetHandshake ---------------------------
(***************************************************************************)
(* TLC instances of ResetHandshake.  Liveness is checked with room for two *)
(* commands, the counterexamples with room for a tick that sends three.    *)
(***************************************************************************)
EXTENDS ResetHandshake
==============================================================================

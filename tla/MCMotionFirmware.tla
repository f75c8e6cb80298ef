--------------------------- MODULE MCMotionFirmware ---------------------------
(***************************************************************************)
(* TLC instances of MotionFirmware.  Times are scaled: one tick is about   *)
(* 300 ms, so that 600 ms < 750 ms < one blocking ACTION keep their order. *)
(***************************************************************************)
EXTENDS MotionFirmware
==============================================================================

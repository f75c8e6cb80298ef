------------------------------ MODULE RobotView ------------------------------
(***************************************************************************)
(* The robot as far as the host can tell: a latch, and legs that move or   *)
(* do not.  MotionFirmware is shown to answer each command the way it is   *)
(* stated here, and ResetHandshake is built on it in place of the firmware. *)
(***************************************************************************)
VARIABLES
    latched,    \* the safety latch
    walking     \* the legs move

vars == <<latched, walking>>

Init == latched = TRUE /\ walking = FALSE

\* Nothing changes.
Ignores == UNCHANGED vars

\* The legs stop, the latch stays as it was.
Stops == walking' = FALSE /\ UNCHANGED latched

\* The legs start; a closed latch forbids it.
Starts == ~latched /\ walking' = TRUE /\ UNCHANGED latched

\* The latch closes, which always stops the legs.
Latches == latched' = TRUE /\ walking' = FALSE

\* The latch opens, and the robot stands.
Releases == latched' = FALSE /\ walking' = FALSE

\* The intent and the orders a host sends.  MOVE and RESET_SAFE may be refused.
Obeys(order) ==
    \/ order = "STOP" /\ Stops
    \/ order = "MOVE" /\ (Starts \/ Ignores)
    \/ order = "ESTOP" /\ Latches
    \/ order = "RESET_SAFE" /\ (Releases \/ Ignores)

\* What the robot does on its own: a reflex stop, a fault or a restart.
Reacts == Stops \/ Latches
==============================================================================

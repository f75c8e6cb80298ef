----------------------------- MODULE SafetyLatch -----------------------------
(***************************************************************************)
(* What the robot promises about its legs, whatever happens around it: the *)
(* contract behind the safety rules of docs/PROTOCOL.md and the priority   *)
(* list of safety_monitor.h ("E-Stop, command timeout, link loss, low      *)
(* battery > obstacle stop > host command").                               *)
(*                                                                         *)
(* MotionFirmware is shown to implement it.                                *)
(***************************************************************************)

\* "other" is a gait that does not go forward: backwards or turning in place.
Gait == {"stop", "forward", "other"}

VARIABLES
    gait,       \* what the legs were last told to do
    latched,    \* the safety latch
    obstacle,   \* the reflex stop is engaged
    critical    \* the battery is below its shutdown line

vars == <<gait, latched, obstacle, critical>>

Init ==
    /\ gait = "stop" /\ latched = TRUE
    /\ obstacle = FALSE /\ critical = FALSE

\* A gait starts only when unlatched, and never forward at an obstacle.
Walk(g) ==
    /\ ~latched
    /\ ~(obstacle /\ g = "forward")
    /\ gait' = g
    /\ UNCHANGED <<latched, obstacle, critical>>

\* Any fault, order or restart may latch; latching always stops the legs, and a
\* battery that becomes critical latches in the same step.
Latch ==
    /\ gait' = "stop" /\ latched' = TRUE
    /\ obstacle' \in BOOLEAN /\ critical' \in BOOLEAN

\* Only a released cause can be reset, and the reset itself does not walk.
Release ==
    /\ latched /\ ~critical
    /\ gait' = "stop" /\ latched' = FALSE
    /\ UNCHANGED <<obstacle, critical>>

\* New samples: an obstacle that appears stops the legs, a battery recovers.
Observe ==
    /\ obstacle' \in BOOLEAN
    /\ critical' => critical
    /\ gait' = IF obstacle' /\ ~obstacle THEN "stop" ELSE gait
    /\ critical' \in BOOLEAN
    /\ UNCHANGED latched

\* The host or the operator stops the legs without latching.
Halt ==
    /\ gait' = "stop"
    /\ UNCHANGED <<latched, obstacle, critical>>

Next == \/ \E g \in Gait : Walk(g)
        \/ Latch \/ Release \/ Observe \/ Halt

Spec == Init /\ [][Next]_vars

------------------------------------------------------------------------------
\* The contract in one formula: no leg moves under the latch, no forward step
\* at an obstacle, and no unlatched robot on a critical battery.
Safe ==
    /\ latched  => gait = "stop"
    /\ obstacle => gait # "forward"
    /\ critical => latched
==============================================================================

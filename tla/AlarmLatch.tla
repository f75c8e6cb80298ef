------------------------------ MODULE AlarmLatch ------------------------------
(***************************************************************************)
(* What the host promises about an alarm (src/host/behavior/escalation.py, *)
(* head comment; docs/DECISIONS.md ADR-26): it stays until a person has    *)
(* confirmed it, an emergency stop in between does not erase it, and the   *)
(* failsafe that seals it is left by a reset that a person asked for.      *)
(*                                                                         *)
(* HostAlarm is shown to implement it.                                     *)
(***************************************************************************)

VARIABLES
    alarm,      \* an alarm waits for its confirmation
    sealed,     \* the host is in the failsafe
    asked,      \* a person has asked to confirm the alarm
    wanted      \* a person has asked for the reset, the robot has not followed yet

Init == alarm = FALSE /\ sealed = FALSE /\ asked = FALSE /\ wanted = FALSE

\* Anything may raise; a person may press either button.
Raise ==
    /\ alarm' \in BOOLEAN /\ (alarm => alarm')
    /\ sealed' \in BOOLEAN /\ (sealed => sealed')
    /\ asked' \in BOOLEAN /\ (asked => asked')
    /\ wanted' \in BOOLEAN /\ (wanted => wanted')

\* The answer to a confirmation; under the failsafe it changes nothing.
Confirm ==
    /\ asked /\ asked' = FALSE
    /\ alarm' = (alarm /\ sealed)
    /\ sealed' = sealed
    /\ wanted' \in BOOLEAN /\ (wanted => wanted')

\* The robot has followed the reset; the alarm underneath is still there.
Unseal ==
    /\ wanted /\ wanted' = FALSE
    /\ sealed' \in BOOLEAN
    /\ UNCHANGED <<alarm, asked>>

Next == Raise \/ Confirm \/ Unseal

Spec == Init /\ [][Next]_<<alarm, sealed, asked, wanted>>
==============================================================================

-------------------------------- MODULE MCHost --------------------------------
(***************************************************************************)
(* The four models of the host in one run: a behaviour is one of           *)
(* HostAlarm, of Readings, of Control or of Patrol, as part says; the      *)
(* variables of the others keep their initial values.  Nothing is shared   *)
(* between the four, so this checks each as a run of its own would.        *)
(***************************************************************************)
EXTENDS HostAlarm, Readings, Control, Patrol

VARIABLE part

hostVars == <<alarmVars, readsVars, controlVars, nav, part>>

HostInit == /\ AlarmInit /\ ReadsInit /\ ControlInit /\ PatrolInit
            /\ part \in {"alarm", "readings", "control", "patrol"}
            /\ part # "alarm" => mode = "guard"

HostNext ==
    \/ part = "alarm"    /\ AlarmNext   /\ UNCHANGED <<readsVars, controlVars, nav, part>>
    \/ part = "readings" /\ ReadsNext   /\ UNCHANGED <<alarmVars, controlVars, nav, part>>
    \/ part = "control"  /\ ControlNext /\ UNCHANGED <<alarmVars, readsVars, nav, part>>
    \/ part = "patrol"   /\ PatrolNext  /\ UNCHANGED <<alarmVars, readsVars, controlVars, part>>

HostSpec ==
    /\ HostInit /\ [][HostNext]_hostVars
    /\ WF_hostVars(part = "alarm" /\ Pieces /\ UNCHANGED <<readsVars, controlVars, nav, part>>)
==============================================================================

------------------------------- MODULE Control -------------------------------
(***************************************************************************)
(* Who walks the robot: the loop, which sets the intent of the commander   *)
(* once per tick (src/host/behavior/fsm.py, commander.py), and the people  *)
(* at the dashboard, who take over, stop, and ask for goals, routes and    *)
(* patrols (dashboard/commands.py, behavior/nav_requests.py, runtime.py).  *)
(*                                                                         *)
(* A tick is cut where the dashboard's thread may act: requests are taken, *)
(* a cancellation is settled, the goal is handed to the navigator, the     *)
(* patrol started, the events judged, the directive read, and the sequence *)
(* of the state run.  Commands run one after the other in one thread;      *)
(* manual_on and manual_off have two steps.  StopMission takes the send    *)
(* lock, which a tick holds from end to end.                               *)
(***************************************************************************)
EXTENDS HostFsm

VARIABLES
    state,      \* Fsm._state
    intent,     \* Commander._intent: "stop" or "walk"
    requests,   \* NavRequests: want (goto_asked, route_asked), cancel
                \* (_goal_cancel_asked), feedback (goal_feedback); patrol (_patrol_asked)
    goal,       \* the navigator's goal or route; old: set before the last StopMission
    tick,       \* the piece of the tick that is next, and the request drain has taken
    desk,       \* the command under way; current: the epoch a route was read under
    stopped,    \* StopMission was the last thing anybody asked for
    hands       \* the operator has driven since manual_on

controlVars == <<state, intent, requests, goal, tick, desk, stopped, hands>>

NoGoal == [at |-> "none", old |-> FALSE]

ControlInit ==
    /\ state = "IDLE" /\ intent = "stop"
    /\ requests = [want |-> "none", patrol |-> FALSE, cancel |-> FALSE, feedback |-> FALSE]
    /\ goal = NoGoal /\ tick = [at |-> "rest", taken |-> "none"]
    /\ desk = [at |-> "idle", current |-> FALSE]
    /\ stopped = FALSE /\ hands = FALSE

\* DIRECTIVES.
Yields == {"MANUAL"}
Halts  == {"IDLE", "FAILSAFE", "LOST"}

Target(s, e) == IF Can(s, e) THEN Table[<<s, e>>] ELSE s

\* A cancellation that leaves the patrol booked.
CancelledButPatrol(q) == [q EXCEPT !.want = "none", !.cancel = TRUE]

\* NavRequests.cancel forgets what was asked for before.
Cancelled(q) == [q EXCEPT !.want = "none", !.patrol = FALSE, !.cancel = TRUE]

\* mark_goal_cancel, the exit hook of PATROL and MANUAL.
EndsMission(from, to) ==
    \/ from = "PATROL" /\ (to = "MANUAL" \/ (to = "IDLE" /\ goal.at # "blocked"))
    \/ from = "MANUAL" /\ to = "IDLE"

\* Runtime._apply: an event with the hooks of its transition.
Fire(e) ==
    LET ends == EndsMission(state, Target(state, e))
    IN  /\ state' = Target(state, e)
        /\ requests' = IF ends THEN Cancelled(requests) ELSE requests

------------------------------------------------------------------------------
\* The loop.  A tick starts with the send lock taken.

GoTo(at) == tick' = [tick EXCEPT !.at = at]

\* drain: goto_asked and route_asked are taken.
TakeRequest ==
    /\ tick.at = "rest" /\ tick' = [at |-> "settle", taken |-> requests.want]
    /\ requests' = [requests EXCEPT !.want = "none"]
    /\ UNCHANGED <<state, intent, goal, desk, stopped, hands>>

\* drain: a stop drops the goal, what was taken, and the patrol a goal has asked for.
SettleCancel ==
    /\ tick.at = "settle"
    /\ IF requests.cancel
       THEN /\ requests' = [requests EXCEPT !.cancel = FALSE,
                              !.patrol = @ /\ tick.taken = "none" /\ ~requests.feedback]
            /\ goal' = NoGoal /\ tick' = [at |-> "go", taken |-> "none"]
       ELSE GoTo("go") /\ UNCHANGED <<requests, goal>>
    /\ UNCHANGED <<state, intent, desk, stopped, hands>>

\* drain: start_route or goto, which may refuse, and ask_patrol.
HandOver(accepted) ==
    /\ tick.at = "go" /\ tick' = [at |-> "start", taken |-> "none"]
    /\ LET takes == CASE tick.taken = "route" -> accepted /\ state \in {"IDLE", "PATROL"}
                      [] tick.taken = "goto" -> accepted
                      [] OTHER -> FALSE
       IN  /\ goal' = IF takes THEN [at |-> "going", old |-> FALSE] ELSE goal
           /\ requests' = [requests EXCEPT !.patrol = @ \/ (takes /\ state # "PATROL"),
                                           !.feedback = @ \/ tick.taken = "goto"]
    /\ UNCHANGED <<state, intent, desk, stopped, hands>>

\* _drain_confirmations: a patrol leaves the place of a reached goal, and starts unless
\* a reset has not settled yet or the picture model is being loaded ("deferred"); the
\* motion lock or a held alarm may refuse the start, and the request is gone.
StartAsked(answer) ==
    /\ tick.at = "start" /\ GoTo("judge")
    /\ LET leaves == requests.patrol /\ goal.at \in {"reached", "blocked"} /\ state \in {"IDLE", "PATROL"}
           stays  == leaves /\ state = "PATROL"
           takes  == requests.patrol /\ ~stays /\ answer # "deferred" /\ Can(state, "START_PATROL")
       IN  /\ goal' = IF leaves THEN NoGoal ELSE goal
           /\ requests' = [requests EXCEPT !.patrol = @ /\ ~stays /\ ~takes]
           /\ state' = IF takes /\ answer = "started" THEN Target(state, "START_PATROL") ELSE state
    /\ UNCHANGED <<intent, desk, stopped, hands>>

\* Events of the tick: persons, timers, and a goal that cannot be reached.
Occur(e) ==
    /\ tick.at = "judge" /\ GoTo("behave")
    /\ e = "GOAL_UNREACHABLE" => goal.at = "blocked"
    /\ Fire(e)
    /\ UNCHANGED <<intent, goal, desk, stopped, hands>>

\* Behavior.tick; "held" is a latched alarm that holds the robot.
Direct(held) ==
    /\ tick.at = "behave"
    /\ IF held \/ state \in Halts
       THEN intent' = "stop" /\ GoTo("rest")
       ELSE intent' = intent /\ GoTo(CASE state \in Yields -> "rest"
                                         [] state = "PATROL" -> "patrol"
                                         [] state \in {"AVOID", "TRACK", "ZONE_INSPECT"} -> "walk"
                                         [] OTHER -> "stand")
    /\ UNCHANGED <<state, requests, goal, desk, stopped, hands>>

\* The sequence of another state (actions.py): AVOID, TRACK and ZONE_INSPECT
\* may walk or turn.
Sequence(walks) ==
    /\ tick.at = "walk" \/ (tick.at = "stand" /\ ~walks)
    /\ GoTo("rest")
    /\ intent' = IF walks THEN "walk" ELSE "stop"
    /\ UNCHANGED <<state, requests, goal, desk, stopped, hands>>

\* _patrol_sequence and PatrolController.steer; a goal may be reached or be out of
\* reach, which ends the mission in the same tick.  At a badge or a face it "waits".
Steer(walks, at, waits) ==
    /\ tick.at = "patrol" /\ GoTo("rest")
    /\ at = goal.at \/ (goal.at = "going" /\ at \in {"reached", "blocked"} /\ ~waits)
    /\ walks => at \in {"none", "going"} /\ ~waits
    /\ goal' = [goal EXCEPT !.at = at]
    /\ intent' = IF walks THEN "walk" ELSE "stop"
    /\ state' = IF at = "blocked" /\ ~waits THEN Target(state, "GOAL_UNREACHABLE") ELSE state
    /\ UNCHANGED <<requests, desk, stopped, hands>>

\* Runtime.ingest: what the robot reports, between two ticks.
Ingest(e) ==
    /\ tick.at = "rest" /\ Fire(e)
    /\ UNCHANGED <<intent, goal, tick, desk, stopped, hands>>

------------------------------------------------------------------------------
\* The dashboard.

\* manual_on and manual_off: the event first, then, without a lock, the halt.
Manual(e, at) ==
    /\ desk.at = "idle" /\ Can(state, e) /\ Fire(e)
    /\ desk' = [desk EXCEPT !.at = at]
    /\ stopped' = FALSE /\ hands' = FALSE
    /\ UNCHANGED <<intent, goal, tick>>

ManualHalt ==
    /\ desk.at = "halt" /\ desk' = [desk EXCEPT !.at = "idle"]
    /\ intent' = "stop"
    /\ UNCHANGED <<state, requests, goal, tick, stopped, hands>>

Drive(walks) ==
    /\ desk.at = "idle" /\ state = "MANUAL"
    /\ intent' = (IF walks THEN "walk" ELSE "stop")
    /\ stopped' = FALSE /\ hands' = TRUE
    /\ UNCHANGED <<state, requests, goal, tick, desk>>

AskPatrol ==
    /\ desk.at = "idle" /\ requests' = [requests EXCEPT !.patrol = TRUE]
    /\ stopped' = FALSE
    /\ UNCHANGED <<state, intent, goal, tick, desk, hands>>

AskGoto ==
    /\ desk.at = "idle" /\ requests' = [requests EXCEPT !.want = "goto", !.feedback = FALSE]
    /\ stopped' = FALSE
    /\ UNCHANGED <<state, intent, goal, tick, desk, hands>>

\* ask_route reads the stored route between two looks at the requests.
ReadRoute ==
    /\ desk.at = "idle" /\ state \in {"IDLE", "PATROL"} /\ ~requests.cancel
    /\ desk' = [at |-> "route", current |-> TRUE]
    /\ UNCHANGED <<state, intent, requests, goal, tick, stopped, hands>>

BookRoute(found) ==
    /\ desk.at = "route" /\ desk' = [at |-> "idle", current |-> FALSE]
    /\ requests' = IF found /\ desk.current THEN [requests EXCEPT !.want = "route"] ELSE requests
    /\ stopped' = (stopped /\ ~(found /\ desk.current))
    /\ UNCHANGED <<state, intent, goal, tick, hands>>

\* ask_route_stop.  It is written for a call from any thread, also while another one
\* reads a route; MANUAL_ON and MANUAL_OFF end the mission in two transitions.
StopMission ==
    /\ tick.at = "rest" /\ desk.at \in {"idle", "route"}
    /\ state' = IF state # "IDLE" /\ Can(state, "MANUAL_ON") THEN "IDLE" ELSE state
    /\ requests' = Cancelled(requests)
    /\ intent' = "stop" /\ desk' = [desk EXCEPT !.current = FALSE]
    /\ goal' = [goal EXCEPT !.old = goal.at # "none"]
    /\ stopped' = TRUE
    /\ UNCHANGED <<tick, hands>>

\* estop: the message goes out under the lock, the event follows.
SendEstop ==
    /\ tick.at = "rest" /\ desk.at = "idle" /\ desk' = [desk EXCEPT !.at = "estop"]
    /\ intent' = "stop"
    /\ UNCHANGED <<state, requests, goal, tick, stopped, hands>>

Estop ==
    /\ desk.at = "estop" /\ desk' = [desk EXCEPT !.at = "idle"] /\ Fire("ESTOP")
    /\ UNCHANGED <<intent, goal, tick, stopped, hands>>

------------------------------------------------------------------------------
OfTick  == {"none", "PERSON_FOUND", "TARGET_OFF_CENTER", "TARGET_LOST", "SCAN_DUE", "SCAN_DONE",
            "GOAL_UNREACHABLE", "LINK_LOST"}
OfRobot == {"ONBOARD_FAILSAFE", "ONBOARD_AVOID", "AVOID_CLEARED", "RESET_CONFIRMED"}

ControlNext ==
    \/ TakeRequest \/ SettleCancel
    \/ \E a \in BOOLEAN : HandOver(a)
    \/ \E a \in {"started", "deferred", "refused"} : StartAsked(a)
    \/ \E e \in OfTick : Occur(e)
    \/ \E h \in BOOLEAN : Direct(h)
    \/ \E w \in BOOLEAN : Sequence(w)
    \/ \E w, s \in BOOLEAN, at \in {"none", "going", "reached", "blocked"} : Steer(w, at, s)
    \/ \E e \in OfRobot : Ingest(e)
    \/ Manual("MANUAL_ON", "halt") \/ Manual("MANUAL_OFF", "halt") \/ ManualHalt
    \/ \E w \in BOOLEAN : Drive(w)
    \/ AskPatrol \/ AskGoto \/ ReadRoute
    \/ \E f \in BOOLEAN : BookRoute(f)
    \/ StopMission \/ SendEstop \/ Estop

ControlSpec == ControlInit /\ [][ControlNext]_controlVars

------------------------------------------------------------------------------
ControlTypeOK ==
    /\ state \in States /\ intent \in {"stop", "walk"}
    /\ requests \in [want : {"none", "goto", "route"}, patrol : BOOLEAN, cancel : BOOLEAN, feedback : BOOLEAN]
    /\ goal \in [at : {"none", "going", "reached", "blocked"}, old : BOOLEAN]
    /\ tick \in [at : {"rest", "settle", "go", "start", "judge", "behave", "walk", "stand", "patrol"},
                 taken : {"none", "goto", "route"}]
    /\ desk \in [at : {"idle", "halt", "route", "estop"}, current : BOOLEAN]
    /\ stopped \in BOOLEAN /\ hands \in BOOLEAN

\* A stop is final (nav_requests.py, cancel): until somebody asks again the robot
\* stands and no mission starts, whatever was under way in the loop or in a thread
\* that reads a route; and no later patrol steers to a goal from before the stop.
StopIsFinal ==
    /\ stopped => state \in {"IDLE", "MANUAL", "FAILSAFE"} /\ intent = "stop"
    /\ tick.at = "patrol" => ~goal.old

\* "It is to stand still until the operator takes the joystick" (commands.py:141).
ManualStandsStill ==
    state = "MANUAL" /\ desk.at = "idle" /\ tick.at = "rest" /\ ~hands => intent = "stop"
==============================================================================

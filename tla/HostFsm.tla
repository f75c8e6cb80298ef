------------------------------- MODULE HostFsm -------------------------------
(***************************************************************************)
(* The behaviour FSM of the host (src/host/behavior/fsm.py): its table,    *)
(* the seal on FAILSAFE, the time a state has been stayed in, and the hold *)
(* that a latched alarm puts on it.  Pure operators over a record; the     *)
(* modules that EXTEND this one say who hands in which event.              *)
(*                                                                         *)
(*   state     Fsm._state                                                  *)
(*   stay      ticks since Behavior._state_since_ms, counted while a       *)
(*             timer of the state runs                                     *)
(*   fired     the state is in Behavior._fired                             *)
(*   deferred  Behavior._timer_deferred_ms                                 *)
(***************************************************************************)
EXTENDS Integers

States == {"IDLE", "PATROL", "SCAN", "AVOID", "ALERT", "TRACK", "AUTH_WAIT", "MANUAL",
           "FAILSAFE", "LOST", "HAZARD_DISPATCH", "HAZARD_SCAN", "ZONE_INSPECT"}

STANDBY == {"IDLE", "MANUAL"}

\* TRANSITIONS: <<src, event, dst>>.
Rows ==
    { <<"IDLE", "START_PATROL", "PATROL">>,
      <<"PATROL", "SCAN_DUE", "SCAN">>, <<"SCAN", "SCAN_DONE", "PATROL">>,
      <<"PATROL", "ONBOARD_AVOID", "AVOID">>, <<"AVOID", "AVOID_CLEARED", "PATROL">>,
      <<"PATROL", "PERSON_FOUND", "ALERT">>, <<"ZONE_INSPECT", "PERSON_FOUND", "ALERT">>,
      <<"ALERT", "TARGET_OFF_CENTER", "TRACK">>, <<"TRACK", "TARGET_CENTERED", "ALERT">>,
      <<"TRACK", "PPE_VIOLATION", "ALERT">>, <<"ALERT", "PPE_SETTLED", "PATROL">>,
      <<"PATROL", "FALL_SUSPECTED", "ALERT">>, <<"ZONE_INSPECT", "FALL_SUSPECTED", "ALERT">>,
      <<"AUTH_WAIT", "ALARM_CONFIRMED", "PATROL">>,
      <<"ALERT", "AUTH_REQUIRED", "AUTH_WAIT">>, <<"AUTH_WAIT", "AUTH_OK", "PATROL">>,
      <<"AUTH_WAIT", "AUTH_FAILED", "ALERT">>,
      <<"MANUAL", "MANUAL_OFF", "IDLE">>, <<"FAILSAFE", "RESET_CONFIRMED", "IDLE">>,
      <<"HAZARD_DISPATCH", "HAZARD_ARRIVED", "HAZARD_SCAN">>,
      <<"HAZARD_SCAN", "HAZARD_SCAN_DONE", "PATROL">>, <<"LOST", "POSE_REACQUIRED", "PATROL">>,
      <<"PATROL", "ZONE_ARRIVED", "ZONE_INSPECT">>, <<"ZONE_INSPECT", "ZONE_CLEAR", "PATROL">>,
      <<"ZONE_INSPECT", "ZONE_CHANGED", "ALERT">>, <<"ALERT", "ZONE_ALARM_CONFIRMED", "PATROL">> }
    \cup { <<s, "GOAL_UNREACHABLE", "IDLE">> : s \in {"PATROL", "SCAN", "AVOID", "LOST"} }
    \cup { <<s, e, "PATROL">> : s \in {"ALERT", "TRACK"},
                                e \in {"TARGET_LOST", "FALL_RESOLVED", "ALARM_CONFIRMED"} }
    \cup { <<s, "MANUAL_ON", "MANUAL">> : s \in States }
    \cup { <<s, e, "FAILSAFE">> : s \in States, e \in {"ONBOARD_FAILSAFE", "LINK_LOST", "ESTOP"} }
    \cup { <<s, "HAZARD_ALARM", "HAZARD_DISPATCH">> : s \in States }
    \cup { <<s, "POSE_STALE", "LOST">> : s \in States }

\* EXCLUSIVE: the only event that FAILSAFE listens to.
Sealed(s, e) == s = "FAILSAFE" /\ e # "RESET_CONFIRMED"

\* Fsm._table.
Table == [k \in { <<r[1], r[2]>> : r \in Rows } |-> (CHOOSE r \in Rows : <<r[1], r[2]>> = k)[3]]

\* Fsm._target_for: a transition into the same state is none.
Can(s, e) == ~Sealed(s, e) /\ <<s, e>> \in DOMAIN Table /\ Table[<<s, e>>] # s

\* Behavior._handle: these pass while a latched alarm holds the robot.
PassesHold == {"ONBOARD_FAILSAFE", "LINK_LOST", "ESTOP", "RESET_CONFIRMED", "MANUAL_ON", "MANUAL_OFF"}

At(s) == [state |-> s, stay |-> 0, fired |-> FALSE, deferred |-> 0]

\* Behavior._handle with _mark_state: a new state starts a new stay.
Handle(f, holding, e) ==
    IF Can(f.state, e) /\ (holding => e \in PassesHold) THEN At(Table[<<f.state, e>>]) ELSE f

\* TIMERS, and the time-out of the configuration.
TimerEvent(s) == CASE s = "PATROL" -> "SCAN_DUE" [] s = "SCAN" -> "SCAN_DONE"
                   [] s = "AUTH_WAIT" -> "AUTH_FAILED" [] OTHER -> "none"

\* A deferral that switches the timer off.
DueUnlessDeferred(f, after) ==
    TimerEvent(f.state) # "none" /\ ~f.fired /\ f.stay >= after /\ f.deferred = 0

\* Behavior._watch_timers: at most once per stay, whether or not it is heard.
Due(f, after) == TimerEvent(f.state) # "none" /\ ~f.fired /\ f.stay >= after + f.deferred

WatchTimers(f, holding, after) ==
    IF Due(f, after) THEN Handle([f EXCEPT !.fired = TRUE], holding, TimerEvent(f.state)) ELSE f

\* Behavior.defer_timer: the total of one stay never exceeds the cap.
Defer(f, by, cap) ==
    [f EXCEPT !.deferred = IF cap <= @ THEN @ ELSE IF by < cap - @ THEN @ + by ELSE cap]

\* One tick passes.
Elapse(f, most) == [f EXCEPT !.stay = IF TimerEvent(f.state) = "none" \/ @ >= most THEN @ ELSE @ + 1]

FsmType(most) == [state : States, stay : 0..most, fired : BOOLEAN, deferred : 0..most]
==============================================================================

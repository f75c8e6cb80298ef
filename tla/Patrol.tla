------------------------------- MODULE Patrol -------------------------------
(***************************************************************************)
(* PatrolController of src/host/behavior/patrol.py with its helpers        *)
(* (recovery.py, avoidance.py, arrival.py, nav_state.py): where a patrol   *)
(* goes next, and what it does when the way is blocked.                    *)
(*                                                                         *)
(* Only the controller's own decisions are state.  What the map, the scan  *)
(* and the pose say is a choice: a step of the code that asks them is the  *)
(* set of its possible results.  A tick of the loop is atomic, and so is   *)
(* each request of a person, which the loop takes between two ticks.       *)
(* Explicit routes, which follow other rules (relaxed_follow.py), are not  *)
(* modelled, nor is the state HALTED, which the runtime never enters.      *)
(***************************************************************************)
EXTENDS FiniteSets

CONSTANTS Zones,    \* ZoneStore.labels
          Aimed     \* the zones with a direction to look at (aim_deg)

ASSUME ZonesAssumption == Zones # {} /\ IsFiniteSet(Zones) /\ Aimed \subseteq Zones
                          /\ {"GOAL", "HOME", "none"} \cap Zones = {}

VARIABLE nav
    \* phase     Phase, how far the patrol is
    \* plan      to: its label; path: it has a way to walk
    \* picked    GoalState: "none", "set", or held: "reached", "blocked"
    \* visited, skipped    the zones seen, and given up, in this cycle
    \* zone      ZoneArrival.zone, the visit the camera may still ask for
    \* home, waiting       BlockageRecovery.returning_home, waiting
    \* attempt   BlockageRecovery.active: at and to
    \* avoiding  LocalAvoidance.active
    \* required  ReplanGate.required: a stop is to be confirmed
    \* sent      what the robot was told last: "fresh" is nothing yet
    \* walks     the intent of the commander: a MOVE that is not zero
    \* on        the FSM is in PATROL; resume: Runtime._navigator_resume
    \* dead      the loop's thread ended with an exception
    \* owed      since the last blockage the robot was not known to stand

NoPlan    == [to |-> "none", path |-> FALSE]
NoAttempt == [at |-> "none", to |-> "none"]

Start == [phase |-> "IDLE", plan |-> NoPlan, picked |-> "none", visited |-> {}, skipped |-> {},
          zone |-> "none", home |-> FALSE, waiting |-> FALSE, attempt |-> NoAttempt,
          avoiding |-> FALSE, required |-> FALSE, sent |-> "fresh", walks |-> FALSE,
          on |-> FALSE, resume |-> FALSE, dead |-> FALSE, owed |-> FALSE]

PatrolInit == nav = Start

\* commander.halt and commander.drive.
Stand(p) == [p EXCEPT !.walks = FALSE]
Walk(p)  == [p EXCEPT !.walks = TRUE]

\* An exception leaves the loop: serve has no handler.
Crash(p) == [p EXCEPT !.dead = TRUE]

Left(p) == Zones \ (p.visited \cup p.skipped)

\* The target an attempt is made for when there is no plan.
Heading(p) == IF p.plan.to # "none" THEN p.plan.to
              ELSE IF p.picked = "set" THEN "GOAL"
              ELSE IF Left(p) # {} THEN CHOOSE z \in Left(p) : TRUE
              ELSE "HOME"

\* require_replan_stop.
Require(p) == Stand([p EXCEPT !.required = TRUE, !.owed = @ \/ p.sent # "stopped"])

\* BlockageRecovery.begin.
Begin(p) ==
    IF p.attempt.at # "none" THEN Stand([p EXCEPT !.avoiding = FALSE])
    ELSE Require([p EXCEPT !.avoiding = FALSE, !.phase = "PLANNING",
                           !.attempt = [at |-> "confirm", to |-> Heading(p)]])

\* wait_patrol and return_home.
WaitPatrol(p) == Stand([p EXCEPT !.home = FALSE, !.waiting = TRUE, !.plan = NoPlan])
ReturnHome(p) == Stand([p EXCEPT !.home = TRUE, !.plan = [to |-> "HOME", path |-> FALSE],
                                 !.picked = IF @ = "set" THEN "none" ELSE @, !.phase = "PLANNING"])

\* complete_cycle.
CloseCycle(p) == [p EXCEPT !.visited = {}, !.skipped = {}]

\* fail that leaves the plan to the zone it gives up.
FailKeepsPlan(p) ==
    LET q == Stand([p EXCEPT !.attempt = NoAttempt, !.avoiding = FALSE, !.required = p.sent # "stopped"])
    IN  IF p.attempt.to = "HOME" THEN WaitPatrol(q)
        ELSE IF p.picked = "set" THEN [q EXCEPT !.picked = "blocked", !.plan = NoPlan, !.phase = "IDLE"]
        ELSE [q EXCEPT !.skipped = @ \cup {p.attempt.to}, !.phase = "PLANNING"]

\* BlockageRecovery.fail.
Fail(p) ==
    LET q == Stand([p EXCEPT !.attempt = NoAttempt, !.avoiding = FALSE, !.required = p.sent # "stopped"])
    IN  IF p.attempt.to = "HOME" THEN WaitPatrol(q)
        ELSE IF p.picked = "set" THEN [q EXCEPT !.picked = "blocked", !.plan = NoPlan, !.phase = "IDLE"]
        ELSE [q EXCEPT !.skipped = @ \cup {p.attempt.to}, !.plan = NoPlan, !.phase = "PLANNING"]

\* BlockageRecovery.expire, when a time limit has passed.
Expired(p) ==
    IF p.attempt.at = "none" THEN p
    ELSE [Fail(p) EXCEPT !.phase = IF p.phase = "LOST" THEN "LOST" ELSE @]

------------------------------------------------------------------------------
\* Planning.  A way to the target exists or not.

Towards(p, to) == {[p EXCEPT !.plan = [to |-> to, path |-> TRUE]],
                   Begin([p EXCEPT !.plan = [to |-> to, path |-> FALSE]])}

\* _select_zone and select_next.
SelectZone(p) ==
    IF Left(p) # {} THEN UNION {Towards(p, z) : z \in Left(p)}
    ELSE IF p.visited = {} THEN {ReturnHome(p)}
    ELSE {CloseCycle([p EXCEPT !.plan = NoPlan])}

\* _replan; candidates holds zones only.
Replan(p) ==
    LET q == [p EXCEPT !.zone = "none"]
    IN  IF q.home THEN {[q EXCEPT !.plan = [to |-> "HOME", path |-> TRUE]], WaitPatrol(q)}
        ELSE IF q.picked = "set"
             THEN Towards(q, "GOAL")
                  \cup {Stand([q EXCEPT !.picked = "blocked", !.plan = NoPlan])}   \* outside the map
        ELSE IF q.plan.to \notin {"none"} \cup q.visited \cup q.skipped
             THEN IF q.plan.to \in Zones THEN Towards(q, q.plan.to) ELSE {Crash(q)}
        ELSE SelectZone(q)

------------------------------------------------------------------------------
\* Arrival.

\* ZoneArrival.finish.
ZoneReached(p, z) ==
    LET q == [p EXCEPT !.phase = "INSPECT", !.zone = z, !.visited = @ \cup {z}, !.plan = NoPlan]
    IN  IF Zones \subseteq q.visited THEN CloseCycle(q) ELSE q

\* ZoneArrival.arrive, and a walk home that has ended.
TargetReached(p) ==
    CASE p.plan.to = "HOME" -> WaitPatrol(p)
      [] p.plan.to = "GOAL" -> Stand([p EXCEPT !.picked = "reached", !.plan = NoPlan, !.phase = "PLANNING"])
      [] p.plan.to \in Aimed -> Stand([p EXCEPT !.phase = "AIMING"])
      [] OTHER -> Stand(ZoneReached(p, p.plan.to))

\* ZoneArrival.aim: the robot is pushed away, turns, or looks the right way.
Aim(p) == {Stand([p EXCEPT !.phase = "PLANNING", !.plan.path = FALSE]), Walk(p),
           Stand(ZoneReached(p, p.plan.to))}

\* _follow: there, or something on the way, or a step.
Follow(p) == {TargetReached(p), Begin(p), Walk(p)}

------------------------------------------------------------------------------
\* A blockage.

\* LocalAvoidance.start, when a gap was measured.
Avoid(p) == Stand([p EXCEPT !.avoiding = TRUE])

\* LocalAvoidance.step: far enough, closed, too near, or a step.
AvoidStep(p) ==
    LET ended == [p EXCEPT !.avoiding = FALSE]
    IN  Replan(Require([ended EXCEPT !.plan.path = FALSE, !.phase = "PLANNING"]))
        \cup {Begin(ended), Stand(ended), Walk(p)}

\* BlockageRecovery.step: stand and wait, look around, stand, then decide.
Attempt(p) ==
    LET at(s)  == [p EXCEPT !.attempt.at = s]
        ended  == [Stand(p) EXCEPT !.attempt = NoAttempt, !.required = FALSE]
        to     == p.attempt.to
        found  == [ended EXCEPT !.plan = [to |-> to, path |-> TRUE], !.phase = "MOVING"]
        around == [ended EXCEPT !.plan = [to |-> to, path |-> FALSE]]
    IN  {Expired(p), Stand(p)}
        \cup (IF p.attempt.at = "confirm" /\ p.sent = "stopped"
              THEN {Walk(at("scan")), Stand(at("settle"))} ELSE {})
        \cup (IF p.attempt.at = "scan" THEN {Walk(p), Stand(at("settle"))} ELSE {})
        \cup (IF p.attempt.at = "settle" /\ p.sent # "moving"
              THEN {found, Avoid(around), Fail([around EXCEPT !.attempt = p.attempt]),
                    [around EXCEPT !.attempt = p.attempt]}
              ELSE {})

------------------------------------------------------------------------------
\* One tick.

\* _lose.
Lose(p) == Stand([p EXCEPT !.avoiding = FALSE, !.phase = "LOST"])

\* rebuild_masks: a new mask may cover the way of the plan.
Remasked(p) ==
    LET q == [p EXCEPT !.plan.path = FALSE]
    IN  IF ~p.plan.path THEN {p}
        ELSE CASE p.phase \in {"MOVING", "AIMING"} -> {p, Require([q EXCEPT !.phase = "PLANNING"])}
               [] p.phase = "PLANNING" -> {p, q, Require(q)}
               [] OTHER -> {p, q}

\* The required stop is forgotten when it was never sent.
PassedUnconfirmed(p) == {[p EXCEPT !.required = FALSE, !.phase = IF @ = "LOST" THEN "PLANNING" ELSE @]}

\* _guard_localization lets a patrol go on: a required stop was sent, and confirmed by
\* a settled scan or given up after its time limit.
Passed(p) ==
    IF p.required /\ p.sent # "stopped" THEN {}
    ELSE {[p EXCEPT !.required = FALSE, !.phase = IF @ = "LOST" THEN "PLANNING" ELSE @]}

\* The end of _advance: plan if there is no way, and go.
Proceed(p) ==
    IF p.phase = "AIMING" THEN Aim(p)
    ELSE IF p.phase \in {"PLANNING", "INSPECT"} \/ ~p.plan.path
         THEN UNION {IF q.dead THEN {q}
                     ELSE IF q.plan.path THEN Follow([q EXCEPT !.phase = "MOVING"])
                     ELSE IF q.picked \in {"reached", "blocked"} THEN {Stand(q)}
                     ELSE IF q.attempt.at = "none" /\ ~q.waiting THEN {Begin(q)}
                     ELSE {q} : q \in Replan([p EXCEPT !.phase = IF @ = "INSPECT" THEN "PLANNING" ELSE @])}
    ELSE Follow(p)

\* _end_recovery_wait, when the wait is over.
WaitOver(p) == [CloseCycle(p) EXCEPT !.waiting = FALSE, !.phase = "PLANNING"]

\* _advance.
Advance(p) ==
    IF p.picked \in {"reached", "blocked"} THEN {Stand(p)}
    ELSE UNION {IF q.waiting THEN {Stand(q)}
                ELSE IF q.attempt.at # "none" THEN Attempt(q)
                ELSE IF q.avoiding THEN AvoidStep(q)
                ELSE {Avoid(q), Begin(q)}                            \* needs_escape
                     \cup (IF q.picked = "none" /\ q.zone \in Aimed   \* the camera has not looked yet
                           THEN {Walk([q EXCEPT !.phase = "INSPECT"]), Stand([q EXCEPT !.phase = "INSPECT"])}
                           ELSE {})
                     \cup Proceed(q)
                : q \in IF p.waiting THEN {p, WaitOver(p)} ELSE {p}}

\* steer.  Where the patrol only stands: a gate that has just timed out, an obstacle
\* the robot reports, a pose nobody has confirmed.
Steered(p) ==
    IF p.phase = "IDLE" THEN {Stand(p)}
    ELSE UNION {{Lose(q)} \cup UNION {{Stand(r)} \cup Advance(r) : r \in Passed(q)} : q \in Remasked(p)}

\* resume.
Resumed(p) == IF ~p.resume THEN p
              ELSE [p EXCEPT !.resume = FALSE, !.plan.path = FALSE, !.zone = "none", !.phase = "PLANNING"]

\* _patrol_sequence while a badge, a face or a helmet is judged: it halts, and keeps
\* the resume for later.
PatrolHeld == nav.on /\ ~nav.dead /\ nav' = Stand(nav)

\* _settle_unreachable_goal: GOAL_UNREACHABLE ends the mission.
Settled(p) == [p EXCEPT !.on = @ /\ p.picked # "blocked"]

\* _patrol_sequence otherwise: resume, the time limit, and steer.
PatrolTick ==
    /\ nav.on /\ ~nav.dead
    /\ \E q \in {Resumed(nav), Expired(Resumed(nav))} : \E r \in Steered(q) : nav' = Settled(r)

\* expire_recovery, which a tick in any state of the FSM starts with.
ExpireAnywhere == nav.attempt.at # "none" /\ ~nav.dead /\ nav' = Settled(Expired(nav))

------------------------------------------------------------------------------
\* Around the controller.

\* What the robot was told: a walk, or to stand.
Told(p, moving) == IF moving THEN [p EXCEPT !.sent = "moving"]
                   ELSE [p EXCEPT !.sent = "stopped", !.owed = FALSE]

\* note_sent; in another state it is another sequence, or a person, that walks.
Sent(moving) == /\ ~nav.dead /\ (nav.on => moving = nav.walks)
                /\ nav' = Told(nav, moving)

\* observe_telemetry: the robot stands by itself.
Reports == ~nav.dead /\ nav' = Told(nav, FALSE)

\* The FSM leaves PATROL and comes back.
LeavePatrol == nav.on /\ ~nav.dead /\ nav' = Stand([nav EXCEPT !.on = FALSE])
EnterPatrol == ~nav.on /\ ~nav.dead /\ nav' = [nav EXCEPT !.on = TRUE, !.resume = TRUE]

\* What a request of a person forgets (RouteFollower.cancel and the two below).
Dropped(p) == [p EXCEPT !.avoiding = FALSE, !.attempt = NoAttempt, !.waiting = FALSE,
                        !.home = FALSE, !.required = FALSE, !.owed = FALSE]

\* cancel_goal, after a person stopped the patrol, or to leave a picked place.
CancelGoal ==
    /\ ~nav.dead /\ (nav.on => nav.picked \in {"reached", "blocked"})
    /\ nav' = LET q == Dropped(nav)
              IN  IF q.picked = "none" THEN q
                  ELSE [q EXCEPT !.picked = "none", !.phase = "PLANNING",
                                 !.plan = IF @.to = "GOAL" THEN NoPlan ELSE @]

\* goto, when it accepts the place.
Going(p) == [Dropped(p) EXCEPT !.zone = "none", !.picked = "set", !.phase = "PLANNING",
                              !.plan = [to |-> "GOAL", path |-> FALSE]]
PickGoal == ~nav.dead /\ nav' = Going(nav)

\* The program is started again.
StartAgain == nav.dead /\ nav' = Start

PatrolNext == \/ PatrolHeld \/ PatrolTick \/ ExpireAnywhere
              \/ \E m \in BOOLEAN : Sent(m)
              \/ Reports \/ LeavePatrol \/ EnterPatrol \/ CancelGoal \/ PickGoal \/ StartAgain

PatrolSpec == PatrolInit /\ [][PatrolNext]_nav

------------------------------------------------------------------------------
PatrolTypeOK ==
    nav \in [phase : {"IDLE", "PLANNING", "MOVING", "AIMING", "INSPECT", "LOST"},
             plan : [to : Zones \cup {"none", "GOAL", "HOME"}, path : BOOLEAN],
             picked : {"none", "set", "reached", "blocked"},
             visited : SUBSET Zones, skipped : SUBSET Zones, zone : Zones \cup {"none"},
             home : BOOLEAN, waiting : BOOLEAN,
             attempt : [at : {"none", "confirm", "scan", "settle"}, to : Zones \cup {"none", "GOAL", "HOME"}],
             avoiding : BOOLEAN, required : BOOLEAN, sent : {"fresh", "moving", "stopped"},
             walks : BOOLEAN, on : BOOLEAN, resume : BOOLEAN, dead : BOOLEAN, owed : BOOLEAN]

\* A blockage stops the robot before anything is planned around it: from the moment
\* it is noticed until a stop was sent or reported, or a person asks for something
\* else, the patrol has no intent to walk (patrol.py:1051, nav_state.py).
StopBeforeDetour == nav.owed /\ nav.on => ~nav.walks

\* What a plan or an attempt heads for is still wanted: not a zone that was visited or
\* given up in this cycle, and a picked place only while it is picked; no zone is both
\* visited and given up (recovery.py, fail; the assertion of target_xy).
TargetsStand ==
    LET heads == {nav.plan.to, nav.attempt.to}
    IN  /\ nav.visited \cap nav.skipped = {} /\ heads \cap (nav.visited \cup nav.skipped) = {}
        /\ "GOAL" \in heads => nav.picked = "set"

\* "All blocked: return home and wait" (recovery.py:7): whatever the patrol was doing
\* when it is told to plan, it plans, and its thread goes on.
PatrolSurvives == ~nav.dead
==============================================================================

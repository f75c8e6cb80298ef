---------------------------- MODULE SafetyMonitor ----------------------------
(***************************************************************************)
(* The onboard judgement of src/firmware/mechdog_motion/src/safety_monitor *)
(* (class SafetyMonitor): two hysteresis counters over DISTINCT sensor     *)
(* samples.  An obstacle is declared after ObstacleSamples near samples in *)
(* a row and cleared after ClearSamples clear ones; the battery is         *)
(* critical after ShutdownSamples low samples and re-armed by one sample   *)
(* above the warning line.                                                 *)
(*                                                                         *)
(* A measurement is abstracted to the interval of the thresholds it falls  *)
(* in.  `lowbatt_` (a display flag that gates nothing) is left out.        *)
(*                                                                         *)
(* This module holds the state and the operators; SampleHistory checks     *)
(* them against a definition by history, SensorPath adds the clock and the *)
(* sensor task, MotionFirmware the rest of the robot's loop.               *)
(***************************************************************************)
EXTENDS Integers

CONSTANTS
    ObstacleSamples,   \* SafetyThresholds.obstacle_samples (2)
    ClearSamples,      \* SafetyThresholds.clear_samples (5)
    ShutdownSamples    \* SafetyThresholds.shutdown_samples (3)

ASSUME ThresholdAssumption ==
    /\ ObstacleSamples \in Nat \ {0}
    /\ ClearSamples    \in Nat \ {0}
    /\ ShutdownSamples \in Nat \ {0}

\* < obstacle_stop_cm, between the two lines, >= obstacle_clear_cm.
DistanceClass == {"near", "between", "clear"}

\* <= battery_shutdown_v, <= battery_warn_v, above the warning line.
BatteryClass == {"low", "warn", "ok"}

Monitor == [obstacle : BOOLEAN,
            near     : 0..ObstacleSamples,
            clear    : 0..ClearSamples,
            critical : BOOLEAN,           \* shutdown_reported_
            low      : 0..ShutdownSamples]

InitMonitor == [obstacle |-> FALSE, near |-> 0, clear |-> 0,
                critical |-> FALSE, low |-> 0]

\* A counter that stops one past its threshold.
CountPast(n, limit) == IF n <= limit THEN n + 1 ELSE n

\* A counter that stops at its threshold.
CountTo(n, limit) == IF n < limit THEN n + 1 ELSE n

------------------------------------------------------------------------------
\* JudgeDistance that lets near samples add up across the band between the lines.
JudgeDistanceKeepsNear(m, c) ==
    LET near  == IF c = "near"  THEN CountTo(m.near, ObstacleSamples)
                 ELSE IF c = "clear" THEN 0 ELSE m.near
        clear == IF c = "clear" THEN CountTo(m.clear, ClearSamples)   ELSE 0
    IN  [m EXCEPT !.near     = near,
                  !.clear    = clear,
                  !.obstacle = \/ near >= ObstacleSamples
                               \/ m.obstacle /\ clear < ClearSamples]

(***************************************************************************)
(* SafetyMonitor::update, distance half: one fresh sample of class c.      *)
(***************************************************************************)
JudgeDistance(m, c) ==
    LET near  == IF c = "near"  THEN CountTo(m.near, ObstacleSamples) ELSE 0
        clear == IF c = "clear" THEN CountTo(m.clear, ClearSamples)   ELSE 0
    IN  [m EXCEPT !.near     = near,
                  !.clear    = clear,
                  !.obstacle = \/ near >= ObstacleSamples
                               \/ m.obstacle /\ clear < ClearSamples]

\* JudgeBattery that re-arms at the shutdown line.
JudgeBatteryRearms(m, c) ==
    LET low == IF c = "low" THEN CountTo(m.low, ShutdownSamples) ELSE 0
    IN  [m EXCEPT !.low      = low,
                  !.critical = low >= ShutdownSamples \/ (m.critical /\ c = "low")]

(***************************************************************************)
(* SafetyMonitor::update, battery half: one fresh sample of class c.       *)
(***************************************************************************)
JudgeBattery(m, c) ==
    LET low == IF c = "low" THEN CountTo(m.low, ShutdownSamples) ELSE 0
    IN  [m EXCEPT !.low      = low,
                  !.critical = \/ low >= ShutdownSamples
                               \/ m.critical /\ c # "ok"]

\* SafetyMonitor::allows_move: the reflex stop refuses forward steps only.
AllowsMove(m, gait) == ~(m.obstacle /\ gait = "forward")

\* reset_safe_allowed: the latch is not released while its cause remains.
ResetSafeAllowed(m) == ~m.critical
==============================================================================

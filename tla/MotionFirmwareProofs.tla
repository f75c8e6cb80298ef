------------------------- MODULE MotionFirmwareProofs -------------------------
(***************************************************************************)
(* What MotionFirmware keeps for every value of its constants.             *)
(***************************************************************************)
EXTENDS MotionFirmware, TLAPS

(***************************************************************************)
(* The inductive invariant.                                                *)
(***************************************************************************)

\* The walking flag is what the legs do, and it is set only where Move allows it.
LegsFollowFlags ==
    /\ walking <=> gait # "stop"
    /\ latched \/ service => gait = "stop"
    /\ monitor.obstacle => gait # "forward"
    /\ phase = "action" => gait = "stop"

\* The latch is open only for a robot that hears a host, on a sound battery, with a
\* confirmed image; its last command is not older than the timeout at the check.
LatchCovers ==
    ~latched =>
        /\ linkSeen /\ haveValid
        /\ ~monitor.critical
        /\ ~PendingVerify
        /\ commandAge < CommandTimeout + sinceCheck

\* The socket is open only while the link is up; packets are read only then.
LinkOrder == (udpOpen \/ phase = "packet") => linkSeen

\* The watchdog is armed in SERVICE mode only.
ServiceOrder == armed => service

\* What the types do not say.
Sound == LegsFollowFlags /\ LatchCovers /\ LinkOrder /\ ServiceOrder

IInv == TypeOK /\ Sound

USE FirmwareAssumption, ThresholdAssumption
USE DEF link, motion, command, watchdog, ota, Phase, Gait, Cause, AgeCap, TypeOK

------------------------------------------------------------------------------
(***************************************************************************)
(* The monitor.                                                            *)
(***************************************************************************)

\* A distance sample leaves the battery verdict alone.
LEMMA DistanceJudged ==
    ASSUME NEW m \in Monitor, NEW c
    PROVE  /\ JudgeDistance(m, c) \in Monitor
           /\ JudgeDistance(m, c).critical = m.critical
<1> DEFINE near    == IF c = "near"  THEN CountTo(m.near, ObstacleSamples) ELSE 0
           clear   == IF c = "clear" THEN CountTo(m.clear, ClearSamples) ELSE 0
           engaged == near >= ObstacleSamples \/ (m.obstacle /\ clear < ClearSamples)
<1>1. near \in 0..ObstacleSamples /\ clear \in 0..ClearSamples
  BY DEF CountTo, Monitor
<1>2. engaged \in BOOLEAN
  BY Zenon
<1>3. JudgeDistance(m, c) = [m EXCEPT !.near = near, !.clear = clear, !.obstacle = engaged]
  BY Zenon DEF JudgeDistance
<1> HIDE DEF near, clear, engaged
<1> QED
  BY <1>1, <1>2, <1>3 DEF Monitor

\* A battery sample leaves the distance verdict alone.
LEMMA BatteryJudged ==
    ASSUME NEW m \in Monitor, NEW c
    PROVE  /\ JudgeBattery(m, c) \in Monitor
           /\ JudgeBattery(m, c).obstacle = m.obstacle
<1> DEFINE low   == IF c = "low" THEN CountTo(m.low, ShutdownSamples) ELSE 0
           empty == low >= ShutdownSamples \/ (m.critical /\ c # "ok")
<1>1. low \in 0..ShutdownSamples
  BY DEF CountTo, Monitor
<1>2. empty \in BOOLEAN
  BY Zenon
<1>3. JudgeBattery(m, c) = [m EXCEPT !.low = low, !.critical = empty]
  BY Zenon DEF JudgeBattery
<1> HIDE DEF low, empty
<1> QED
  BY <1>1, <1>2, <1>3 DEF Monitor

\* Sense replaces the monitor by another one and reacts to the difference.
LEMMA SenseReacts ==
    ASSUME TypeOK, Sense
    PROVE  monitor' \in Monitor /\ React(monitor, monitor')
  BY DistanceJudged, BatteryJudged DEF Sense, ValuesOK

------------------------------------------------------------------------------
(***************************************************************************)
(* Restarting is like starting.                                            *)
(***************************************************************************)
\* What the monitor, the reboot and the image start with has its type.
LEMMA InitialValues ==
    /\ InitMonitor \in Monitor
    /\ NoReboot \in [cause : Cause, left : 0..RebootDelay]
    /\ \A b : Images(b) \subseteq [pending : BOOLEAN, confirmed : BOOLEAN]
<1>1. InitMonitor \in Monitor
  <2>1. FALSE \in BOOLEAN
    BY Zenon
  <2> QED
    BY <2>1 DEF InitMonitor, Monitor
<1>2. NoReboot \in [cause : Cause, left : 0..RebootDelay]
  BY DEF NoReboot
<1>3. ASSUME NEW b
      PROVE  Images(b) \subseteq [pending : BOOLEAN, confirmed : BOOLEAN]
  BY Zenon DEF Images
<1> QED
  BY <1>1, <1>2, <1>3

\* setup() establishes the invariant.
LEMMA InitEstablishes == Init => IInv
<1> SUFFICES ASSUME Init PROVE IInv
  OBVIOUS
<1> USE DEF Init
<1>1. FlagsOK
  BY Zenon DEF FlagsOK
<1>2. ValuesOK
  <2>1. image \in [pending : BOOLEAN, confirmed : BOOLEAN]
    BY Zenon, InitialValues
  <2> QED
    BY <2>1, InitialValues DEF ValuesOK
<1>3. LegsFollowFlags /\ LatchCovers /\ LinkOrder /\ ServiceOrder
  BY DEF LegsFollowFlags, LatchCovers, LinkOrder, ServiceOrder, InitMonitor
<1> QED
  BY <1>1, <1>2, <1>3 DEF IInv, Sound

\* esp_restart() establishes it again, from whatever state it is called in.
LEMMA RestartEstablishes == Restart => IInv'
<1> SUFFICES ASSUME Restart PROVE IInv'
  OBVIOUS
<1> USE DEF Restart
<1>1. FlagsOK'
  BY Zenon DEF FlagsOK
<1>2. ValuesOK'
  <2>1. image' \in [pending : BOOLEAN, confirmed : BOOLEAN]
    BY Zenon, InitialValues
  <2> QED
    BY <2>1, InitialValues DEF ValuesOK
<1>3. LegsFollowFlags' /\ LatchCovers' /\ LinkOrder' /\ ServiceOrder'
  BY DEF LegsFollowFlags, LatchCovers, LinkOrder, ServiceOrder, InitMonitor
<1> QED
  BY <1>1, <1>2, <1>3 DEF IInv, Sound

------------------------------------------------------------------------------
(***************************************************************************)
(* Types.                                                                  *)
(***************************************************************************)
\* No step of the loop, of another task or of the clock leaves the types.
LEMMA TypesKept == TypeOK /\ [Next]_vars => TypeOK'
<1> SUFFICES ASSUME TypeOK, [Next]_vars PROVE TypeOK'
  OBVIOUS
<1> USE DEF Accept
<1>1. CASE WifiDown
  <2>1. FlagsOK'
    BY Zenon, <1>1 DEF FlagsOK, WifiDown, LatchFailsafe
  <2>2. ValuesOK'
    BY <1>1 DEF ValuesOK, WifiDown, LatchFailsafe
  <2> QED
    BY <2>1, <2>2
<1>2. CASE WifiUp
  <2>1. FlagsOK'
    BY Zenon, <1>2 DEF FlagsOK, WifiUp
  <2>2. ValuesOK'
    BY <1>2 DEF ValuesOK, WifiUp
  <2> QED
    BY <2>1, <2>2
<1>3. CASE NoCommand
  <2>1. FlagsOK'
    BY Zenon, <1>3 DEF FlagsOK, NoCommand
  <2>2. ValuesOK'
    BY <1>3 DEF ValuesOK, NoCommand
  <2> QED
    BY <2>1, <2>2
<1>4. CASE Stop
  <2>1. FlagsOK'
    BY Zenon, <1>4 DEF FlagsOK, Stop, StopLegs
  <2>2. ValuesOK'
    BY <1>4 DEF ValuesOK, Stop, StopLegs
  <2> QED
    BY <2>1, <2>2
<1>5. CASE Estop
  <2>1. FlagsOK'
    BY Zenon, <1>5 DEF FlagsOK, Estop, LatchFailsafe
  <2>2. ValuesOK'
    BY <1>5 DEF ValuesOK, Estop, LatchFailsafe
  <2> QED
    BY <2>1, <2>2
<1>6. CASE ResetSafe
  <2>1. FlagsOK'
    BY Zenon, <1>6 DEF FlagsOK, ResetSafe
  <2>2. ValuesOK'
    BY <1>6 DEF ValuesOK, ResetSafe
  <2> QED
    BY <2>1, <2>2
<1>7. CASE Pose
  <2>1. FlagsOK'
    BY Zenon, <1>7 DEF FlagsOK, Pose
  <2>2. ValuesOK'
    BY <1>7 DEF ValuesOK, Pose
  <2> QED
    BY <2>1, <2>2
<1>8. CASE ActionBegins
  <2>1. FlagsOK'
    BY Zenon, <1>8 DEF FlagsOK, ActionBegins
  <2>2. ValuesOK'
    BY <1>8 DEF ValuesOK, ActionBegins
  <2> QED
    BY <2>1, <2>2
<1>9. CASE ServiceCommand
  <2>1. FlagsOK'
    BY Zenon, <1>9 DEF FlagsOK, ServiceCommand, EnterService, ExitService, Park
  <2>2. ValuesOK'
    BY <1>9 DEF ValuesOK, ServiceCommand, EnterService, ExitService, Park
  <2> QED
    BY <2>1, <2>2
<1>10. CASE OtherCommand
  <2>1. FlagsOK'
    BY Zenon, <1>10 DEF FlagsOK, OtherCommand
  <2>2. ValuesOK'
    BY <1>10 DEF ValuesOK, OtherCommand
  <2> QED
    BY <2>1, <2>2
<1>11. ASSUME NEW g \in Gaits \cup {"stop"}, Move(g) PROVE TypeOK'
  <2>1. FlagsOK'
    BY Zenon, <1>11 DEF FlagsOK, Move
  <2>2. ValuesOK'
    BY <1>11 DEF ValuesOK, Move
  <2> QED
    BY <2>1, <2>2
<1>12. CASE ActionEnds
  <2>1. FlagsOK'
    BY Zenon, <1>12 DEF FlagsOK, ActionEnds
  <2>2. ValuesOK'
    BY <1>12 DEF ValuesOK, ActionEnds
  <2> QED
    BY <2>1, <2>2
<1>13. CASE CheckTimeout
  <2>1. FlagsOK'
    BY Zenon, <1>13 DEF FlagsOK, CheckTimeout, LatchFailsafe
  <2>2. ValuesOK'
    BY <1>13 DEF ValuesOK, CheckTimeout, LatchFailsafe
  <2> QED
    BY <2>1, <2>2
<1>14. CASE Sense
  <2> USE DEF React, LatchFailsafe, StopLegs
  <2>0. monitor' \in Monitor /\ React(monitor, monitor')
    BY <1>14, SenseReacts
  <2>1. FlagsOK'
    BY ZenonT(30), <1>14, <2>0 DEF FlagsOK, Sense
  <2>2. ValuesOK'
    BY <1>14, <2>0 DEF ValuesOK, Sense
  <2> QED
    BY <2>1, <2>2
<1>15. CASE RebootDue
  BY <1>15, RestartEstablishes DEF RebootDue, IInv
<1>16. CASE OtaIdle
  <2>1. FlagsOK'
    BY Zenon, <1>16 DEF FlagsOK, OtaIdle
  <2>2. ValuesOK'
    BY <1>16 DEF ValuesOK, OtaIdle
  <2> QED
    BY <2>1, <2>2
<1>17. CASE OtaConfirm
  <2>1. FlagsOK'
    BY Zenon, <1>17 DEF FlagsOK, OtaConfirm
  <2>2. image' \in [pending : BOOLEAN, confirmed : BOOLEAN]
    BY Zenon, <1>17 DEF ValuesOK, OtaConfirm
  <2>3. ValuesOK'
    BY <1>17, <2>2 DEF ValuesOK, OtaConfirm, Scheduled
  <2> QED
    BY <2>1, <2>3
<1>18. CASE ButtonPressed
  <2>1. FlagsOK'
    BY Zenon, <1>18 DEF FlagsOK, ButtonPressed, EnterService, ExitService, Park
  <2>2. ValuesOK'
    BY <1>18 DEF ValuesOK, ButtonPressed, EnterService, ExitService, Park
  <2> QED
    BY <2>1, <2>2
<1>19. CASE ButtonIdle
  <2>1. FlagsOK'
    BY Zenon, <1>19 DEF FlagsOK, ButtonIdle
  <2>2. ValuesOK'
    BY <1>19 DEF ValuesOK, ButtonIdle
  <2> QED
    BY <2>1, <2>2
<1>20. CASE FeedWatchdog
  <2>1. FlagsOK'
    BY Zenon, <1>20 DEF FlagsOK, FeedWatchdog
  <2>2. ValuesOK'
    BY <1>20 DEF ValuesOK, FeedWatchdog
  <2> QED
    BY <2>1, <2>2
<1>21. CASE FeedTooLate
  BY <1>21, RestartEstablishes DEF FeedTooLate, IInv
<1>22. CASE WatchdogRestart
  BY <1>22, RestartEstablishes DEF WatchdogRestart, IInv
<1>23. CASE VerifyDeadline
  BY <1>23, RestartEstablishes DEF VerifyDeadline, IInv
<1>24. CASE HttpConfirm
  <2>1. FlagsOK'
    BY Zenon, <1>24 DEF FlagsOK, HttpConfirm
  <2>2. ValuesOK'
    BY <1>24 DEF ValuesOK, HttpConfirm
  <2> QED
    BY <2>1, <2>2
<1>25. CASE HttpReboot
  <2>1. FlagsOK'
    BY Zenon, <1>25 DEF FlagsOK, HttpReboot, Scheduled
  <2>2. ValuesOK'
    BY <1>25 DEF ValuesOK, HttpReboot, Scheduled
  <2> QED
    BY <2>1, <2>2
<1>26. CASE HttpUpdate
  <2>1. FlagsOK'
    BY Zenon, <1>26 DEF FlagsOK, HttpUpdate
  <2>2. ValuesOK'
    BY <1>26 DEF ValuesOK, HttpUpdate
  <2> QED
    BY <2>1, <2>2
<1>27. CASE UpdateEnds
  <2>1. FlagsOK'
    BY Zenon, <1>27 DEF FlagsOK, UpdateEnds, Scheduled
  <2>2. ValuesOK'
    BY <1>27 DEF ValuesOK, UpdateEnds, Scheduled
  <2> QED
    BY <2>1, <2>2
<1>28. CASE WifiChanges
  <2>1. FlagsOK'
    BY Zenon, <1>28 DEF FlagsOK, WifiChanges
  <2>2. ValuesOK'
    BY <1>28 DEF ValuesOK, WifiChanges
  <2> QED
    BY <2>1, <2>2
<1>29. CASE PoseReached
  <2>1. FlagsOK'
    BY Zenon, <1>29 DEF FlagsOK, PoseReached
  <2>2. ValuesOK'
    BY <1>29 DEF ValuesOK, PoseReached
  <2> QED
    BY <2>1, <2>2
<1>30. CASE Tick
  <2>1. FlagsOK'
    BY Zenon, <1>30 DEF FlagsOK, Tick, CountTo
  <2>2. ValuesOK'
    BY <1>30 DEF ValuesOK, Tick, CountTo
  <2> QED
    BY <2>1, <2>2
<1>31. CASE UNCHANGED vars
  BY <1>31 DEF vars, FlagsOK, ValuesOK
<1> QED
  BY <1>1, <1>2, <1>3, <1>4, <1>5, <1>6, <1>7, <1>8, <1>9, <1>10, <1>11, <1>12, <1>13,
       <1>14, <1>15, <1>16, <1>17, <1>18, <1>19, <1>20, <1>21, <1>22, <1>23, <1>24, <1>25,
       <1>26, <1>27, <1>28, <1>29, <1>30, <1>31
     DEF Next, LoopStep, OtherTasks, Command

------------------------------------------------------------------------------
(***************************************************************************)
(* The rest of the invariant.                                              *)
(***************************************************************************)
\* No step makes the latch, the legs, the link and the watchdog disagree.
LEMMA SoundKept == IInv /\ [Next]_vars => Sound'
<1> SUFFICES ASSUME IInv, [Next]_vars PROVE Sound'
  OBVIOUS
<1>0. TypeOK /\ TypeOK' /\ Sound
  BY TypesKept DEF IInv
<1> USE DEF Sound, LegsFollowFlags, LatchCovers, LinkOrder, ServiceOrder, FlagsOK,
     ValuesOK, PendingVerify, Accept
<1>1. CASE WifiDown
  BY <1>0, <1>1 DEF WifiDown, LatchFailsafe
<1>2. CASE WifiUp
  BY <1>0, <1>2 DEF WifiUp
<1>3. CASE NoCommand
  BY <1>0, <1>3 DEF NoCommand
<1>4. CASE Stop
  BY <1>0, <1>4 DEF Stop, StopLegs
<1>5. CASE Estop
  BY <1>0, <1>5 DEF Estop, LatchFailsafe
<1>6. CASE ResetSafe
  BY <1>0, <1>6 DEF ResetSafe, ResetAllowed, ResetSafeAllowed
<1>7. CASE Pose
  BY <1>0, <1>7 DEF Pose
<1>8. CASE ActionBegins
  BY <1>0, <1>8 DEF ActionBegins
<1>9. CASE ServiceCommand
  BY <1>0, <1>9 DEF ServiceCommand, EnterService, ExitService, Park
<1>10. CASE OtherCommand
  BY <1>0, <1>10 DEF OtherCommand
<1>11. ASSUME NEW g \in Gaits \cup {"stop"}, Move(g) PROVE Sound'
  BY <1>0, <1>11 DEF Move, MoveAllowed, AllowsMove
<1>12. CASE ActionEnds
  BY <1>0, <1>12 DEF ActionEnds
<1>13. CASE CheckTimeout
  BY <1>0, <1>13 DEF CheckTimeout, LatchFailsafe, TimedOut
<1>14. CASE Sense
  BY <1>0, <1>14, SenseReacts DEF Sense, React, LatchFailsafe, StopLegs, Monitor
<1>15. CASE RebootDue
  BY <1>15, RestartEstablishes DEF RebootDue, IInv
<1>16. CASE OtaIdle
  BY <1>0, <1>16 DEF OtaIdle
<1>17. CASE OtaConfirm
  BY <1>0, <1>17 DEF OtaConfirm
<1>18. CASE ButtonPressed
  BY <1>0, <1>18 DEF ButtonPressed, EnterService, ExitService, Park
<1>19. CASE ButtonIdle
  BY <1>0, <1>19 DEF ButtonIdle
<1>20. CASE FeedWatchdog
  BY <1>0, <1>20 DEF FeedWatchdog
<1>21. CASE FeedTooLate
  BY <1>21, RestartEstablishes DEF FeedTooLate, IInv
<1>22. CASE WatchdogRestart
  BY <1>22, RestartEstablishes DEF WatchdogRestart, IInv
<1>23. CASE VerifyDeadline
  BY <1>23, RestartEstablishes DEF VerifyDeadline, IInv
<1>24. CASE HttpConfirm
  BY <1>0, <1>24 DEF HttpConfirm
<1>25. CASE HttpReboot
  BY <1>0, <1>25 DEF HttpReboot
<1>26. CASE HttpUpdate
  BY <1>0, <1>26 DEF HttpUpdate
<1>27. CASE UpdateEnds
  BY <1>0, <1>27 DEF UpdateEnds
<1>28. CASE WifiChanges
  BY <1>0, <1>28 DEF WifiChanges
<1>29. CASE PoseReached
  BY <1>0, <1>29 DEF PoseReached
<1>30. CASE Tick
  BY <1>0, <1>30 DEF Tick, CountTo
<1>31. CASE UNCHANGED vars
  BY <1>0, <1>31 DEF vars
<1> QED
  BY <1>1, <1>2, <1>3, <1>4, <1>5, <1>6, <1>7, <1>8, <1>9, <1>10, <1>11, <1>12, <1>13,
       <1>14, <1>15, <1>16, <1>17, <1>18, <1>19, <1>20, <1>21, <1>22, <1>23, <1>24, <1>25,
       <1>26, <1>27, <1>28, <1>29, <1>30, <1>31
     DEF Next, LoopStep, OtherTasks, Command

------------------------------------------------------------------------------
(***************************************************************************)
(* The theorems.                                                           *)
(***************************************************************************)

\* The inductive invariant holds of every behaviour.
THEOREM Invariance == Spec => []IInv
<1>1. IInv /\ [Next]_vars => IInv'
  BY TypesKept, SoundKept DEF IInv
<1> QED
  BY InitEstablishes, <1>1, PTL DEF Spec

\* Every variable keeps its type, the counters and ages their bounds.
THEOREM TypeCorrect == Spec => []TypeOK
<1>1. IInv => TypeOK
  BY DEF IInv
<1> QED
  BY Invariance, <1>1, PTL

\* Legs that move obey a command that is not older than the timeout and one pass.
THEOREM WalkingIsCommandedAlways == Spec => []WalkingIsCommanded
<1>1. IInv => WalkingIsCommanded
  BY DEF IInv, Sound, LegsFollowFlags, LatchCovers, FlagsOK, ValuesOK, WalkingIsCommanded
<1> QED
  BY Invariance, <1>1, PTL

\* Without a link, or before the first command, the latch is closed.
THEOREM NoLinkNoMotionAlways == Spec => []NoLinkNoMotion
<1>1. IInv => NoLinkNoMotion
  BY DEF IInv, Sound, LatchCovers, NoLinkNoMotion
<1> QED
  BY Invariance, <1>1, PTL

\* An image awaiting its confirmation runs on a robot that stands latched.
THEOREM UnverifiedImageParkedAlways == Spec => []UnverifiedImageParked
<1>1. IInv => UnverifiedImageParked
  BY DEF IInv, Sound, LegsFollowFlags, LatchCovers, UnverifiedImageParked
<1> QED
  BY Invariance, <1>1, PTL

\* The loop watchdog can only restart a robot that stands in SERVICE mode.
THEOREM WatchdogParkedAlways == Spec => []WatchdogParked
<1>1. IInv => WatchdogParked
  BY DEF IInv, Sound, LegsFollowFlags, ServiceOrder, WatchdogParked
<1> QED
  BY Invariance, <1>1, PTL

\* The count of failsafes follows the latch (FailsafeCounted).
LEMMA CountStep ==
    [Next]_vars /\ ~Restart =>
        failsafeCount' = IF ~latched /\ latched' /\ ~Parks
                         THEN (failsafeCount + 1) % CountModulus
                         ELSE failsafeCount
<1> DEFINE NotClosed == failsafeCount' = failsafeCount /\ (latched' => latched)
<1> SUFFICES ASSUME [Next]_vars, ~Restart
             PROVE  LatchFailsafe \/ NotClosed \/ (Parks /\ failsafeCount' = failsafeCount)
  <2>1. CASE LatchFailsafe /\ ~Parks
    BY <2>1 DEF LatchFailsafe
  <2>2. Parks => failsafeCount' = failsafeCount
    BY DEF Parks, ServiceCommand, ButtonPressed, EnterService, ExitService, Park
  <2> QED
    BY <2>1, <2>2
<1>1. CASE WifiDown \/ Estop
  BY <1>1 DEF WifiDown, Estop
<1>2. CASE CheckTimeout
  BY <1>2 DEF CheckTimeout
<1>3. CASE Sense
  BY <1>3 DEF Sense, React, StopLegs
<1>4. CASE ServiceCommand \/ ButtonPressed
  BY <1>4 DEF Parks, ServiceCommand, ButtonPressed, EnterService, ExitService, Park
<1>5. ASSUME NEW g \in Gaits \cup {"stop"}, Move(g) PROVE NotClosed
  BY <1>5 DEF Move
<1>6. CASE Stop \/ ResetSafe
  BY <1>6 DEF Stop, StopLegs, ResetSafe
<1> QED
  BY <1>1, <1>2, <1>3, <1>4, <1>5, <1>6
     DEF Next, LoopStep, OtherTasks, Command, vars, WifiUp, NoCommand, Pose, ActionBegins,
         OtherCommand, ActionEnds, RebootDue, OtaIdle, OtaConfirm, ButtonIdle, FeedWatchdog,
         FeedTooLate, WatchdogRestart, VerifyDeadline, HttpConfirm, HttpReboot, HttpUpdate,
         UpdateEnds, WifiChanges, PoseReached, Tick

\* failsafe_count moves exactly when a fault or ESTOP closes an open latch: for every
\* cause once, for SERVICE never, until the restart that zeroes it.
THEOREM FailsafeCountedAlways == Spec => FailsafeCounted
  BY CountStep, PTL DEF Spec, FailsafeCounted

------------------------------------------------------------------------------
(***************************************************************************)
(* MotionFirmware implements SafetyLatch.                                  *)
(***************************************************************************)
USE DEF Latch!vars

\* A robot that has booted is a latched robot at rest.
LEMMA LatchInit == Init => Latch!Init
  BY DEF Init, InitMonitor, Latch!Init

\* Each step latches, releases, halts, walks or observes, or is not seen by SafetyLatch.
LEMMA LatchStep == IInv /\ [Next]_vars => [Latch!Next]_(Latch!vars)
<1> SUFFICES ASSUME IInv, [Next]_vars PROVE Latch!Next \/ UNCHANGED Latch!vars
  OBVIOUS
<1>0. TypeOK /\ TypeOK' /\ Sound
  BY TypesKept DEF IInv
<1> USE DEF Latch!Next, Latch!Latch, Latch!Release, Latch!Observe, Latch!Halt, Latch!Walk,
     Latch!Gait
<1>1. monitor.obstacle \in BOOLEAN /\ monitor'.obstacle \in BOOLEAN
      /\ monitor.critical \in BOOLEAN /\ monitor'.critical \in BOOLEAN
  BY <1>0 DEF ValuesOK, Monitor
<1>2. CASE WifiDown
  BY <1>1, <1>2 DEF WifiDown, LatchFailsafe
<1>3. CASE Stop
  BY <1>1, <1>3 DEF Stop, Accept, StopLegs
<1>4. CASE Estop
  BY <1>1, <1>4 DEF Estop, Accept, LatchFailsafe
<1>5. CASE ResetSafe
  <2> USE DEF ResetSafe, Accept
  <2>1. CASE ~ResetAllowed
    BY <1>5, <2>1
  <2>2. CASE ResetAllowed /\ latched
    BY <1>5, <2>2 DEF ResetAllowed, ResetSafeAllowed
  <2>3. CASE ResetAllowed /\ ~latched
    <3>1. gait' = "stop" /\ UNCHANGED <<latched, monitor>>
      BY Zenon, <1>0, <1>5, <2>3 DEF FlagsOK
    <3> QED
      BY <3>1
  <2> QED
    BY <2>1, <2>2, <2>3
<1>6. CASE ServiceCommand
  BY <1>1, <1>6 DEF ServiceCommand, Accept, EnterService, ExitService, Park
<1>7. ASSUME NEW g \in Gaits \cup {"stop"}, Move(g)
      PROVE  Latch!Next \/ UNCHANGED Latch!vars
  BY <1>1, <1>7 DEF Move, Accept, MoveAllowed, AllowsMove
<1>8. CASE CheckTimeout
  BY <1>1, <1>8 DEF CheckTimeout, LatchFailsafe
<1>9. CASE Sense
  BY <1>0, <1>1, <1>9, SenseReacts DEF Sense, React, LatchFailsafe, StopLegs, Sound, LatchCovers
<1>10. CASE ButtonPressed
  BY <1>1, <1>10 DEF ButtonPressed, EnterService, ExitService, Park
<1>11. CASE Restart
  BY <1>11 DEF Restart, InitMonitor
<1>12. CASE \/ WifiUp \/ NoCommand \/ Pose \/ ActionBegins \/ OtherCommand \/ ActionEnds
            \/ OtaIdle \/ OtaConfirm \/ ButtonIdle \/ FeedWatchdog \/ HttpConfirm \/ HttpReboot
            \/ HttpUpdate \/ UpdateEnds \/ WifiChanges \/ PoseReached \/ Tick
  BY <1>12 DEF WifiUp, NoCommand, Pose, ActionBegins, OtherCommand, ActionEnds, OtaIdle,
       OtaConfirm, ButtonIdle, FeedWatchdog, HttpConfirm, HttpReboot, HttpUpdate, UpdateEnds,
       WifiChanges, PoseReached, Tick, Accept
<1>13. CASE UNCHANGED vars
  BY <1>13 DEF vars
<1> QED
  BY <1>2, <1>3, <1>4, <1>5, <1>6, <1>7, <1>8, <1>9, <1>10, <1>11, <1>12, <1>13
     DEF Next, LoopStep, OtherTasks, Command, RebootDue, FeedTooLate, WatchdogRestart,
         VerifyDeadline

\* The firmware keeps the contract of the latch (SafetyLatch).
THEOREM LatchImplemented == Spec => LatchSpec
<1>1. Spec => [][Latch!Next]_(Latch!vars)
  BY Invariance, LatchStep, PTL DEF Spec
<1> QED
  BY LatchInit, <1>1, PTL DEF Spec, LatchSpec, Latch!Spec

------------------------------------------------------------------------------
(***************************************************************************)
(* MotionFirmware is the robot that ResetHandshake sees.                   *)
(***************************************************************************)

\* One step, of whichever task, on latch and walking flag.
LEMMA ViewStep ==
    Next => /\ Stop => View!Obeys("STOP")
            /\ Estop => View!Obeys("ESTOP")
            /\ ResetSafe => View!Obeys("RESET_SAFE")
            /\ StartsGait => View!Obeys("MOVE")
            /\ ~ResetSafe /\ ~StartsGait => View!Reacts \/ View!Ignores
<1> HAVE Next
<1> USE DEF View!Obeys, View!Reacts, View!Ignores, View!Stops, View!Starts, View!Latches,
            View!Releases, View!vars
<1>1. ASSUME Stop PROVE View!Obeys("STOP")
  BY <1>1 DEF Stop, StopLegs
<1>2. ASSUME Estop PROVE View!Obeys("ESTOP")
  BY <1>2 DEF Estop, LatchFailsafe
<1>3. ASSUME ResetSafe PROVE View!Obeys("RESET_SAFE")
  BY <1>3 DEF ResetSafe
<1>4. ASSUME NEW g \in Gaits, Move(g) PROVE View!Obeys("MOVE")
  BY <1>4 DEF Move, MoveAllowed
<1>5. ASSUME ~ResetSafe, ~StartsGait PROVE View!Reacts \/ View!Ignores
  <2>1. ASSUME LatchFailsafe \/ StopLegs \/ Park \/ UNCHANGED motion
        PROVE  View!Reacts \/ View!Ignores
    BY <2>1 DEF LatchFailsafe, StopLegs, Park
  <2>2. CASE WifiDown \/ Estop \/ Stop \/ CheckTimeout \/ Sense
    BY <2>1, <2>2 DEF WifiDown, Estop, Stop, CheckTimeout, Sense, React
  <2>3. CASE Move("stop")
    BY <2>3 DEF Move
  <2>4. CASE ServiceCommand \/ ButtonPressed
    BY <2>1, <2>4 DEF ServiceCommand, ButtonPressed, EnterService, ExitService
  <2>5. CASE Restart
    BY <2>5 DEF Restart
  <2>6. CASE \/ WifiUp \/ NoCommand \/ Pose \/ ActionBegins \/ OtherCommand \/ ActionEnds
             \/ OtaIdle \/ OtaConfirm \/ ButtonIdle \/ FeedWatchdog \/ HttpConfirm
             \/ HttpReboot \/ HttpUpdate \/ UpdateEnds \/ WifiChanges \/ PoseReached \/ Tick
    BY <2>1, <2>6 DEF WifiUp, NoCommand, Pose, ActionBegins, OtherCommand, ActionEnds, OtaIdle,
       OtaConfirm, ButtonIdle, FeedWatchdog, HttpConfirm, HttpReboot, HttpUpdate, UpdateEnds,
       WifiChanges, PoseReached, Tick
  <2> QED
    BY <1>5, <2>2, <2>3, <2>4, <2>5, <2>6
       DEF Next, LoopStep, OtherTasks, Command, StartsGait, RebootDue, FeedTooLate,
           WatchdogRestart, VerifyDeadline
<1> QED
  BY <1>1, <1>2, <1>3, <1>4, <1>5 DEF StartsGait

\* Whatever the host sends, the firmware answers as RobotView says, and nothing else
\* starts the legs or opens the latch.
THEOREM RobotConforms == Spec => RobotAsSeen
  BY ViewStep, PTL DEF Spec, RobotAsSeen

==============================================================================

---------------------------- MODULE MotionFirmware ----------------------------
(***************************************************************************)
(* The robot's motion firmware: the sketch                                 *)
(* src/firmware/mechdog_motion/mechdog_motion.ino with MotionSafetyState,  *)
(* SafetyMonitor, the loop watchdog (task_watchdog.h) and the stationary   *)
(* OTA service (stationary_ota.cpp), in the build with actuators, sensors  *)
(* and SERVICE mode.                                                       *)
(*                                                                         *)
(* loop() is one task that goes through `phase`; one action per phase and  *)
(* one per command handleable in it.  Beside it run the watchdog's monitor *)
(* task, the HTTPS server's task, the esp_timer callback of the OTA verify *)
(* deadline, the Wi-Fi driver and the clock; each may act between any two  *)
(* phases.                                                                 *)
(*                                                                         *)
(* Abstracted: packets (a packet is accepted or it is not; CommandGate     *)
(* models the decision), sample values (SafetyMonitor's classes), LED,     *)
(* sound, STATE echo and telemetry content, none of which gates motion.    *)
(***************************************************************************)
EXTENDS SafetyMonitor

CONSTANTS
    Gaits,             \* gaits the host may ask for with MOVE
    DistanceInputs,    \* distance classes the sonar may deliver
    BatteryInputs,     \* battery classes the ADC may deliver
    EnableOta,         \* MECHADOG_ENABLE_OTA
    CommandTimeout,    \* kCommandTimeoutMs (600), in ticks
    WatchdogDeadline,  \* kLoopWatchdogDeadlineUs (750 ms), in ticks
    RebootDelay,       \* the 500 ms of g_reboot.schedule, in ticks
    MaxGap,            \* bound: ticks between two command-timeout checks
    CountModulus       \* number of values of g_failsafe_count

ASSUME FirmwareAssumption ==
    /\ Gaits \subseteq {"forward", "other"}
    /\ DistanceInputs \subseteq DistanceClass
    /\ BatteryInputs \subseteq BatteryClass
    /\ EnableOta \in BOOLEAN
    /\ {CommandTimeout, WatchdogDeadline, CountModulus} \subseteq Nat \ {0}
    /\ {RebootDelay, MaxGap} \subseteq Nat

VARIABLES
    phase,          \* where loop() is
    wifi,           \* WiFi.status() = WL_CONNECTED
    linkSeen,       \* g_wifi_connected
    udpOpen,        \* g_udp_started
    gait,           \* what g_motion.move told the legs last
    posing,         \* a body pose of g_motion.pose is being carried out
    walking,        \* g_motion_state.walking
    latched,        \* g_motion_state.safe_latched
    service,        \* g_motion_state.service_mode
    haveValid,      \* g_have_valid_command
    commandAge,     \* ticks since g_last_valid_command_ms, up to AgeCap
    sinceCheck,     \* ticks since the last command-timeout check
    failsafeCount,  \* g_failsafe_count
    monitor,        \* g_safety
    armed,          \* watchdog: progress.armed
    feedAge,        \* watchdog: ticks since progress.last_us, up to the deadline
    image,          \* OTA: [pending, confirmed] of the running image
    confirmAsked,   \* g_confirm_requested
    updating,       \* g_updating
    reboot          \* g_reboot: [cause, left]; cause "none" while not armed

link     == <<wifi, linkSeen, udpOpen>>
motion   == <<gait, walking, latched, failsafeCount>>
command  == <<haveValid, commandAge>>
watchdog == <<armed, feedAge>>
ota      == <<image, confirmAsked, updating, reboot>>
vars == <<phase, link, motion, posing, service, command, sinceCheck, monitor, watchdog, ota>>

Phase == {"top", "packet", "action", "check", "sense", "ota", "button", "feed"}
Gait  == {"stop", "forward", "other"}
Cause == {"none", "request", "confirm", "update"}

AgeCap == CommandTimeout + MaxGap

\* otaPendingVerify()
PendingVerify == image.pending /\ ~image.confirmed

\* otaParkedForReboot(), of the actuator build
ParkedForReboot == service \/ latched

NoReboot == [cause |-> "none", left |-> 0]

\* RebootDeadline::schedule(millis(), 500)
Scheduled(cause) == [cause |-> cause, left |-> RebootDelay]

------------------------------------------------------------------------------
\* beginStationaryOta: a freshly written image is pending, an older one may be
\* confirmed; without OTA both flags keep their initial FALSE.
Images(mayBePending) ==
    IF EnableOta
    THEN [pending : {FALSE}, confirmed : BOOLEAN]
           \cup (IF mayBePending THEN [pending : {TRUE}, confirmed : {FALSE}] ELSE {})
    ELSE [pending : {FALSE}, confirmed : {FALSE}]

(***************************************************************************)
(* setup() and the static initialisers: the latch is on, the legs are told *)
(* to stop, nothing is connected and the watchdog is off.                  *)
(***************************************************************************)
Init ==
    /\ phase = "top"
    /\ wifi = FALSE /\ linkSeen = FALSE /\ udpOpen = FALSE
    /\ gait = "stop" /\ walking = FALSE /\ latched = TRUE /\ failsafeCount = 0
    /\ posing = FALSE /\ service = FALSE
    /\ haveValid = FALSE /\ commandAge = 0 /\ sinceCheck = 0
    /\ monitor = InitMonitor
    /\ armed = FALSE /\ feedAge = 0
    /\ image \in Images(TRUE)
    /\ confirmAsked = FALSE /\ updating = FALSE /\ reboot = NoReboot

\* esp_restart(), whoever calls it: back to setup(); only an image transferred
\* just before can be a pending one.
Restart ==
    /\ phase' = "top"
    /\ wifi' = FALSE /\ linkSeen' = FALSE /\ udpOpen' = FALSE
    /\ gait' = "stop" /\ walking' = FALSE /\ latched' = TRUE /\ failsafeCount' = 0
    /\ posing' = FALSE /\ service' = FALSE
    /\ haveValid' = FALSE /\ commandAge' = 0 /\ sinceCheck' = 0
    /\ monitor' = InitMonitor
    /\ armed' = FALSE /\ feedAge' = 0
    /\ image' \in Images(updating)
    /\ confirmAsked' = FALSE /\ updating' = FALSE /\ reboot' = NoReboot

------------------------------------------------------------------------------
\* latchFailsafe() that closes the latch before it asks whether it was open.
LatchFailsafeUncounted ==
    /\ gait' = "stop" /\ walking' = FALSE /\ latched' = TRUE
    /\ UNCHANGED failsafeCount

\* latchFailsafe(): only a latch that was open counts as a failsafe.
LatchFailsafe ==
    /\ gait' = "stop" /\ walking' = FALSE /\ latched' = TRUE
    /\ failsafeCount' = IF latched THEN failsafeCount
                        ELSE (failsafeCount + 1) % CountModulus

\* g_motion.stop() with MotionSafetyState::stop().
StopLegs ==
    /\ gait' = "stop" /\ walking' = FALSE
    /\ UNCHANGED <<latched, failsafeCount>>

\* g_motion.stop() with enter_service() or exit_service(): latches, is no fault.
Park ==
    /\ gait' = "stop" /\ walking' = FALSE /\ latched' = TRUE
    /\ UNCHANGED failsafeCount

\* enterServiceMode(): park first, arm second; arming fails when the monitor
\* task cannot be created, and is skipped when already armed.
EnterService ==
    /\ Park /\ service' = TRUE
    /\ IF armed THEN UNCHANGED watchdog
       ELSE armed' \in BOOLEAN /\ feedAge' = 0

\* exitServiceMode() that forgets to disarm the watchdog.
ExitServiceArmed ==
    IF service
    THEN Park /\ service' = FALSE /\ UNCHANGED watchdog
    ELSE UNCHANGED <<motion, service, watchdog>>

\* exitServiceMode(): disarms, re-parks and re-latches; refused outside SERVICE.
ExitService ==
    IF service
    THEN Park /\ service' = FALSE /\ armed' = FALSE /\ feedAge' = 0
    ELSE UNCHANGED <<motion, service, watchdog>>

------------------------------------------------------------------------------
(***************************************************************************)
(* loop(), top: the Wi-Fi status.                                          *)
(***************************************************************************)

\* WifiDown that leaves the latch to the command timeout.
WifiDownNoLatch ==
    /\ phase = "top" /\ ~wifi
    /\ linkSeen' = FALSE
    /\ udpOpen' = (udpOpen /\ ~linkSeen)
    /\ phase' = "check"
    /\ UNCHANGED <<wifi, motion, posing, service, command, sinceCheck, monitor, watchdog, ota>>

\* Down: the socket is closed once per disconnect, the latch set on every pass.
WifiDown ==
    /\ phase = "top" /\ ~wifi
    /\ linkSeen' = FALSE
    /\ udpOpen' = (udpOpen /\ ~linkSeen)
    /\ LatchFailsafe
    /\ phase' = "check"
    /\ UNCHANGED <<wifi, posing, service, command, sinceCheck, monitor, watchdog, ota>>

\* Up: startUdpIfNeeded(), whose bind may fail and is retried every pass.
WifiUp ==
    /\ phase = "top" /\ wifi
    /\ linkSeen' = TRUE
    /\ udpOpen' \in IF udpOpen THEN {TRUE} ELSE BOOLEAN
    /\ phase' = "packet"
    /\ UNCHANGED <<wifi, motion, posing, service, command, sinceCheck, monitor, watchdog, ota>>

(***************************************************************************)
(* loop(), packet: at most one datagram.  PING, an oversized datagram and  *)
(* whatever the parser drops change nothing; an accepted command feeds the *)
(* command timeout, applied or not.                                        *)
(***************************************************************************)
NoCommand ==
    /\ phase = "packet"
    /\ phase' = "check"
    /\ UNCHANGED <<link, motion, posing, service, command, sinceCheck, monitor, watchdog, ota>>

\* The part of handlePacket() common to the accepted commands.
Accept ==
    /\ phase = "packet" /\ udpOpen
    /\ haveValid' = TRUE /\ commandAge' = 0
    /\ UNCHANGED <<link, sinceCheck, monitor, ota>>

Stop ==
    /\ Accept /\ phase' = "check"
    /\ StopLegs
    /\ UNCHANGED <<posing, service, watchdog>>

\* ESTOP that leaves the latch to the command timeout.
EstopStopsOnly ==
    /\ Accept /\ phase' = "check"
    /\ StopLegs
    /\ UNCHANGED <<posing, service, watchdog>>

Estop ==
    /\ Accept /\ phase' = "check"
    /\ LatchFailsafe
    /\ UNCHANGED <<posing, service, watchdog>>

\* RESET_SAFE without the test of the battery.
ResetAllowedCritical == wifi /\ ~PendingVerify

\* RESET_SAFE without the test of the image.
ResetAllowedUnverified == wifi /\ ResetSafeAllowed(monitor)

\* The three refusals of RESET_SAFE.
ResetAllowed == wifi /\ ResetSafeAllowed(monitor) /\ ~PendingVerify

ResetSafe ==
    /\ Accept /\ phase' = "check"
    /\ IF ResetAllowed
       THEN /\ gait' = "stop" /\ walking' = FALSE /\ latched' = FALSE
            /\ UNCHANGED failsafeCount
       ELSE UNCHANGED motion
    /\ UNCHANGED <<posing, service, watchdog>>

\* move_allowed(): latch and SERVICE first, then the reflex stop.
MoveAllowed(g) == ~latched /\ ~service /\ AllowsMove(monitor, g)

\* MOVE; g = "stop" is MOVE with step and angle 0.
Move(g) ==
    /\ Accept /\ phase' = "check"
    /\ IF MoveAllowed(g)
       THEN /\ gait' = g /\ walking' = (g # "stop")
            /\ UNCHANGED <<latched, failsafeCount>>
       ELSE UNCHANGED motion
    /\ UNCHANGED <<posing, service, watchdog>>

\* POSE asks for the latch only.
Pose ==
    /\ Accept /\ phase' = "check"
    /\ posing' = (posing \/ ~latched)
    /\ UNCHANGED <<motion, service, watchdog>>

\* ACTION that can_action() lets through blocks the loop for about a second.
ActionBegins ==
    /\ Accept
    /\ phase' = IF ~walking /\ ~service THEN "action" ELSE "check"
    /\ UNCHANGED <<motion, posing, service, watchdog>>

\* The vendor call returns; the time it took is not counted as host silence.
ActionEnds ==
    /\ phase = "action" /\ phase' = "check"
    /\ commandAge' = 0
    /\ UNCHANGED <<link, motion, posing, service, haveValid, sinceCheck, monitor, watchdog, ota>>

ServiceCommand ==
    /\ Accept /\ phase' = "check"
    /\ EnterService \/ ExitService
    /\ UNCHANGED posing

\* LED, SOUND, STATE and the types this firmware does not drive.
OtherCommand ==
    /\ Accept /\ phase' = "check"
    /\ UNCHANGED <<motion, posing, service, watchdog>>

Command ==
    \/ Stop \/ Estop \/ ResetSafe \/ Pose \/ ActionBegins \/ ServiceCommand \/ OtherCommand
    \/ \E g \in Gaits \cup {"stop"} : Move(g)

------------------------------------------------------------------------------
(***************************************************************************)
(* loop(), the rest of the pass.                                           *)
(***************************************************************************)

\* A command timeout that only looks at a robot already walking.
TimedOutWalking == haveValid /\ walking /\ commandAge >= CommandTimeout

\* A command timeout one tick late.
TimedOutLate == haveValid /\ ~latched /\ commandAge > CommandTimeout

TimedOut == haveValid /\ ~latched /\ commandAge >= CommandTimeout

CheckTimeout ==
    /\ phase = "check" /\ phase' = "sense"
    /\ sinceCheck' = 0
    /\ IF TimedOut THEN LatchFailsafe ELSE UNCHANGED motion
    /\ UNCHANGED <<link, posing, service, command, monitor, watchdog, ota>>

\* An obstacle that only refuses the next forward command.
ReactNoStop(before, after) ==
    IF ~before.critical /\ after.critical THEN LatchFailsafe ELSE UNCHANGED motion

\* pollTelemetry()'s reactions to the verdict: the reflex stop, then the latch.
React(before, after) ==
    IF ~before.critical /\ after.critical THEN LatchFailsafe
    ELSE IF ~before.obstacle /\ after.obstacle THEN StopLegs
    ELSE UNCHANGED motion

\* pollTelemetry(): a new sample of either sensor, of both or of none.
Sense ==
    /\ phase = "sense" /\ phase' = "ota"
    /\ \E afterDistance \in {monitor} \cup {JudgeDistance(monitor, c) : c \in DistanceInputs} :
       \E after \in {afterDistance}
                      \cup {JudgeBattery(afterDistance, c) : c \in BatteryInputs} :
          monitor' = after /\ React(monitor, after)
    /\ UNCHANGED <<link, posing, service, command, sinceCheck, watchdog, ota>>

\* pollStationaryOta(), the reboot scheduled earlier has become due.
RebootDue ==
    /\ phase = "ota" /\ reboot.cause # "none" /\ reboot.left = 0
    /\ Restart

\* pollStationaryOta(): nothing asked, the runtime not healthy, or the partition
\* not marked; a request is consumed either way.
OtaIdle ==
    /\ phase = "ota" /\ phase' = "button"
    /\ reboot.cause = "none" \/ reboot.left > 0
    /\ confirmAsked' = FALSE
    /\ UNCHANGED <<link, motion, posing, service, command, sinceCheck, monitor, watchdog,
                   image, updating, reboot>>

\* pollStationaryOta(): the confirmation asked for is carried out, and a pending
\* image is rebooted to restart its filters.
OtaConfirm ==
    /\ phase = "ota" /\ phase' = "button"
    /\ reboot.cause = "none" \/ reboot.left > 0
    /\ confirmAsked /\ ~updating /\ wifi
    /\ confirmAsked' = FALSE
    /\ image' = [image EXCEPT !.confirmed = TRUE]
    /\ reboot' = IF image.pending THEN Scheduled("confirm") ELSE reboot
    /\ UNCHANGED <<link, motion, posing, service, command, sinceCheck, monitor, watchdog, updating>>

\* pollServiceButton(): a debounced press toggles SERVICE mode.
ButtonPressed ==
    /\ phase = "button" /\ phase' = "feed"
    /\ IF service THEN ExitService ELSE EnterService
    /\ UNCHANGED <<link, posing, command, sinceCheck, monitor, ota>>

ButtonIdle ==
    /\ phase = "button" /\ phase' = "feed"
    /\ UNCHANGED <<link, motion, posing, service, command, sinceCheck, monitor, watchdog, ota>>

\* feedTaskWatchdog(), in time or with the watchdog off; then delay(1).
FeedWatchdog ==
    /\ phase = "feed" /\ phase' = "top"
    /\ armed => feedAge < WatchdogDeadline
    /\ feedAge' = 0
    /\ UNCHANGED <<link, motion, posing, service, command, sinceCheck, monitor, armed, ota>>

\* feedTaskWatchdog() too late: ESP_ERROR_CHECK aborts.
FeedTooLate ==
    /\ phase = "feed" /\ armed /\ feedAge >= WatchdogDeadline
    /\ Restart

LoopStep ==
    \/ WifiDown \/ WifiUp \/ NoCommand \/ Command \/ ActionEnds \/ CheckTimeout \/ Sense
    \/ RebootDue \/ OtaIdle \/ OtaConfirm \/ ButtonPressed \/ ButtonIdle
    \/ FeedWatchdog \/ FeedTooLate

------------------------------------------------------------------------------
(***************************************************************************)
(* The other tasks.                                                        *)
(***************************************************************************)

\* monitorTask(): polls every 10 ms and restarts an overdue loop.
WatchdogRestart ==
    /\ armed /\ feedAge >= WatchdogDeadline
    /\ Restart

\* rebootDeadline(): 90 s after booting an image that was not confirmed.
VerifyDeadline ==
    /\ EnableOta /\ PendingVerify
    /\ Restart

\* confirmHandler(): accepted while parked.
HttpConfirm ==
    /\ EnableOta /\ wifi /\ ParkedForReboot /\ ~updating
    /\ confirmAsked' = TRUE
    /\ UNCHANGED <<phase, link, motion, posing, service, command, sinceCheck, monitor, watchdog,
                   image, updating, reboot>>

\* rebootHandler(): accepted while parked, carried out RebootDelay later.
HttpReboot ==
    /\ EnableOta /\ wifi /\ ParkedForReboot /\ ~updating
    /\ reboot' = Scheduled("request")
    /\ UNCHANGED <<phase, link, motion, posing, service, command, sinceCheck, monitor, watchdog,
                   image, confirmAsked, updating>>

\* updateHandler(), its checks: SERVICE mode, a confirmed image, no other update.
HttpUpdate ==
    /\ EnableOta /\ wifi /\ service /\ image.confirmed /\ ~updating
    /\ updating' = TRUE
    /\ UNCHANGED <<phase, link, motion, posing, service, command, sinceCheck, monitor, watchdog,
                   image, confirmAsked, reboot>>

\* updateHandler(), its end, up to 120 s later: reboots whatever the outcome.
UpdateEnds ==
    /\ updating /\ reboot.cause # "update"
    /\ reboot' = Scheduled("update")
    /\ UNCHANGED <<phase, link, motion, posing, service, command, sinceCheck, monitor, watchdog,
                   image, confirmAsked, updating>>

\* The Wi-Fi driver loses or regains the access point.
WifiChanges ==
    /\ wifi' = ~wifi
    /\ UNCHANGED <<phase, linkSeen, udpOpen, motion, posing, service, command, sinceCheck, monitor,
                   watchdog, ota>>

\* The servos reach the pose asked for.
PoseReached ==
    /\ posing /\ posing' = FALSE
    /\ UNCHANGED <<phase, link, motion, service, command, sinceCheck, monitor, watchdog, ota>>

\* Time passes, at most MaxGap ticks between two command-timeout checks.
Tick ==
    /\ sinceCheck < MaxGap
    /\ sinceCheck' = sinceCheck + 1
    /\ commandAge' = IF haveValid THEN CountTo(commandAge, AgeCap) ELSE commandAge
    /\ feedAge' = IF armed THEN CountTo(feedAge, WatchdogDeadline) ELSE feedAge
    /\ reboot' = IF reboot.left > 0 THEN [reboot EXCEPT !.left = @ - 1] ELSE reboot
    /\ UNCHANGED <<phase, link, motion, posing, service, haveValid, monitor, armed,
                   image, confirmAsked, updating>>

OtherTasks ==
    \/ WatchdogRestart \/ VerifyDeadline
    \/ HttpConfirm \/ HttpReboot \/ HttpUpdate \/ UpdateEnds
    \/ WifiChanges \/ PoseReached

Next == LoopStep \/ OtherTasks \/ Tick

\* loopTask is scheduled and time passes; nothing is assumed of the host, the
\* network, the operator or the OTA client.
Fairness == WF_vars(LoopStep) /\ WF_vars(Tick)

Spec == Init /\ [][Next]_vars /\ Fairness

------------------------------------------------------------------------------
FlagsOK ==
    /\ wifi \in BOOLEAN /\ linkSeen \in BOOLEAN /\ udpOpen \in BOOLEAN
    /\ posing \in BOOLEAN /\ walking \in BOOLEAN /\ latched \in BOOLEAN
    /\ service \in BOOLEAN /\ haveValid \in BOOLEAN /\ armed \in BOOLEAN
    /\ confirmAsked \in BOOLEAN /\ updating \in BOOLEAN

ValuesOK ==
    /\ phase \in Phase /\ gait \in Gait
    /\ commandAge \in 0..AgeCap /\ sinceCheck \in 0..MaxGap
    /\ failsafeCount \in 0..(CountModulus - 1)
    /\ monitor \in Monitor
    /\ feedAge \in 0..WatchdogDeadline
    /\ image \in [pending : BOOLEAN, confirmed : BOOLEAN]
    /\ reboot \in [cause : Cause, left : 0..RebootDelay]

\* The type invariant.
TypeOK == FlagsOK /\ ValuesOK

\* Legs that move belong to an unlatched robot outside SERVICE whose walking flag
\* says so, that has seen a host, and whose last command is younger than the
\* timeout plus the longest pass (kCommandTimeoutMs; docs/PROTOCOL.md rule 5).
WalkingIsCommanded ==
    gait # "stop" =>
        /\ walking /\ ~latched /\ ~service /\ haveValid
        /\ commandAge < CommandTimeout + MaxGap

\* A robot whose interface went down stays latched until the host is back: without
\* a link or before any command the latch cannot be open.
NoLinkNoMotion == ~linkSeen \/ ~haveValid => latched

\* An image that is not confirmed yet never runs on a robot that may walk, so the
\* verify deadline restarts a standing robot (RESET_SAFE's OTA test).
UnverifiedImageParked == PendingVerify => latched /\ gait = "stop"

\* The loop watchdog is armed only in SERVICE mode with the legs stopped, so its
\* restart hits a standing robot (enterServiceMode: "park first, arm second").
WatchdogParked == armed => service /\ gait = "stop"

\* The SERVICE command or the button, which close the latch without a fault.
Parks == ServiceCommand \/ ButtonPressed

\* failsafe_count moves exactly when an open latch is closed by a fault or ESTOP,
\* whatever the cause: each such step counts once, and no other step counts, be it
\* SERVICE, which parks, or a further cause on a robot already latched
\* (latchFailsafe, mechdog_motion.ino:278-285).  A restart zeroes the count.
FailsafeCounted ==
    [][ ~Restart =>
            failsafeCount' = IF ~latched /\ latched' /\ ~Parks
                             THEN (failsafeCount + 1) % CountModulus
                             ELSE failsafeCount ]_vars

\* The contract of SafetyLatch, implemented.
Latch == INSTANCE SafetyLatch WITH obstacle <- monitor.obstacle, critical <- monitor.critical
LatchSafe == Latch!Safe
LatchSpec == Latch!Spec

\* What ResetHandshake takes the robot for: each command that concerns legs or latch
\* does what RobotView says, refusals included, and whatever else happens (faults,
\* SERVICE, other tasks, restarts) can stop the robot or latch it and no more.
View == INSTANCE RobotView
StartsGait == \E g \in Gaits : Move(g)
RobotAsSeen ==
    [][ /\ Stop => View!Obeys("STOP")
        /\ Estop => View!Obeys("ESTOP")
        /\ ResetSafe => View!Obeys("RESET_SAFE")
        /\ StartsGait => View!Obeys("MOVE")
        /\ ~ResetSafe /\ ~StartsGait => View!Reacts \/ View!Ignores ]_vars

\* A host that falls silent for good leaves a latched robot.
HostSilenceLatches == []<><<Command>>_vars \/ <>[]latched

\* The confirm reboot never hits a robot that walks: RESET_SAFE is refused because
\* motion could start "while ... the confirm reboot can still restart the robot
\* mid-gait" (mechdog_motion.ino:437-439).
ConfirmRestartStands == [][RebootDue /\ reboot.cause = "confirm" => gait = "stop"]_vars

\* No motion starts in SERVICE mode, RESET_SAFE or not: "motion stays blocked by
\* the service flag" (mechdog_motion.ino:443-444).
ServiceBlocksMotion ==
    [][service => gait' = "stop" /\ (posing' => posing)]_vars
==============================================================================

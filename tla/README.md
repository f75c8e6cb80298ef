# MechaDog: a TLA+ model of the robot's safety core and of the host's decisions

MechaDog is a four-legged patrol robot. An ESP32 on the robot (`src/firmware/mechdog_motion`)
moves the legs, reads sonar, IMU and battery, and decides alone about everything that must not
wait for a network. A Python process on a PC (`src/host`) sees pictures and LiDAR scans, decides
what to do, and sends commands over UDP. People reach it through a dashboard.

The project models the part that keeps the robot safe: who may move the legs and when, how a
stop is reached and how it is released, and how two programs that only exchange unreliable
datagrams agree on that; and the decisions of the host that a person relies on: that an alarm
stays until somebody confirms it, that a stop is final, that an answer about a picture reaches
who asked for it, and that a patrol does not walk into what blocks it. It was written from the
sources; documents are quoted only where a property states what a document says.

## 1. Inventory

| component | state it keeps | operations | what is hard | what makes it correct |
|---|---|---|---|---|
| Safety monitor (`safety_monitor.*`) | two hysteresis counters and their verdicts | `update`, `allows_move` | long mixed sample histories | the verdict means what the history says |
| Sensor path (`sensor_hal.cpp`) | record of the sensor task, published copy, sample stamps | acquire, publish, snapshot, age arithmetic | two tasks, a stamp ahead of the reader's clock, 32-bit wrap | each sample judged once, never stale, never lost |
| Motion loop (`mechdog_motion.ino`, `motion_safety_state.h`, `motion_hal.cpp`) | latch, walking, SERVICE, link flags, command age, counters | `loop`, `applyCommand`, `pollTelemetry`, `pollServiceButton` | the order of one pass, other tasks between any two steps | legs move only when unlatched, commanded and recent |
| Loop watchdog (`task_watchdog.h`) | armed, last feed | start, feed, disarm, monitor task | a restart at any moment | restarts a standing robot only |
| OTA service (`stationary_ota.cpp`) | image flags, confirm request, update in progress, reboot deadline | confirm, reboot, update, poll, verify timer | HTTP task beside the loop, restarts that were scheduled earlier | no restart under a walking robot |
| Command parser (`command_parser.cpp`) | last seq, newest time stamp, start of session | `decode`, `reset` | host restarts, repeated and reordered datagrams | in order, once, newest session |
| Commander and protocol (`commander.py`, `protocol.py`) | seq, intent, one-shot queue, announced state | `tick`, `announce`, `emergency_stop`, encode, decode | E-Stop overtakes the queue | priority of the E-Stop, one numbering |
| Runtime (`runtime.py`, `runtime_cli.py`) | reset asked / pending, requests, peer | `serve`, `ingest`, `tick`, `_settle_reset`, `ask_*` | dashboard threads beside the loop | the reset settles, nothing settles it wrongly |
| Behaviour FSM (`behavior/fsm.py`) | state, timers and their deferral, link, target, robot latch | `handle`, `tick`, hooks | events of several threads, timers that fire into a held alarm | FAILSAFE is left by a confirmed reset only, every wait ends |
| Telemetry receiver (`telemetry/receiver.py`) | session, last seq, last state | `ingest`, edge events | lost edges, echoed states | a latched robot is followed |
| Dashboard commands (`dashboard/commands.py`) | posture, drive intent | estop, reset, manual, drive, pose, patrol, goto, route | two halves outside of the lock, between any two steps of a tick | a stop is final, manual control stands until the operator drives |
| Escalation, missions (`escalation.py`, `mission.py`) | level, warning, remembered alarm, suspicion, authentication | raise, warn, confirm, release, tick | events of two threads, an alarm across a failsafe | an alarm and a failsafe are released by people only, and agree with the FSM |
| Authentication (`auth.py`, `auth_judge.py`, `voice_auth.py`) | window, grant, tries, badge | open, verdict, prolong, close | verdicts about words spoken before the window | no stale verdict counts, both factors belong to one wait, the wait ends |
| Judges (`fall_monitor`, `ppe_judge`, `path_cause`, `zone_inspector`) | suspicion, visit, open question, deadlines | observe, inspect, poll, tick | deadlines against late answers, visits that are broken off | one verdict per case, a confirmed hazard is told, a blockage is told |
| Workers (`vlm_worker`, `reloc_worker`, `vision/worker`, `stream_client`) | one thread, one slot without an addressee | submit, take | three who ask share one reader | an answer is taken by who asked |
| Navigation requests (`nav_requests.py`, `nav_state.py`) | asked goals and routes, cancellation, epoch | ask, cancel, drain | a stop between any two steps of the loop or of a thread that reads a route | a cancelled goal never drives |
| Patrol (`patrol`, `recovery`, `avoidance`, `arrival`, `blockage`) | phase, plan, visited and skipped zones, attempt, required stop | steer, replan, follow, arrive, begin, fail, resume, cancel_goal, goto | a plan that outlives the mode it was made in, a stop that is lost on the way | stops before it detours, heads for nothing it gave up |
| Estimation and planning (`localization`, `planner`, `live_nav`, `slam/`, `route_follow`, `relaxed_follow`) | pose, map, route | observe, plan | continuous data | - |
| LiDAR feed and relay (`lidar_feed.py`, `lidar_link.py`, `firmware/lidar_relay`) | packet assembly, danger state | handle, on_danger | lost packets | danger stops the robot |
| Presentation and storage (dashboard server, speech, LED, black box, history, reports, fleet, camera firmware) | - | output | - | nothing reads it back into control |

How they interact: the host's loop (`Runtime.serve`) receives one datagram, ingests it (telemetry
or command reply -> FSM events), then ticks: requests of other threads are drained, pictures are
judged, the level's times pass, the FSM and its timers run, the sequence of the state sets the
intent, and the commander emits one-shot commands and then the intent. Dashboard threads
call the command service, which sets flags for the tick, applies FSM events directly or, for the
E-Stop only, sends at once under the send lock. The robot's loop handles at most one datagram per
pass, checks the command timeout, judges the samples the sensor task published, polls the OTA
service and the service button and feeds the watchdog. The sensor task, the watchdog's monitor
task, the HTTPS task, an `esp_timer` and the Wi-Fi driver run beside it.

## 2. Modules

| module | models | notes |
|---|---|---|
| `SafetyMonitor` | `SafetyMonitor::update`, `allows_move`, `reset_safe_allowed` | pure operators over a record; a measurement is the interval of the thresholds it falls into |
| `SampleHistory` | the same, fed sample by sample | keeps the whole history and gives the verdicts a meaning without counters |
| `SensorPath` | `acquire_sonar`, `publish`, `snapshot`, `update_age`, `fresh_sample` | two tasks and a clock of `Wrap` values; a loop pass reads the clock (`Capture`) and takes the snapshot later (`Judge`, `PassOver`, `SnapshotBusy`) |
| `SafetyLatch` | nothing in particular: the contract | abstract specification, four variables |
| `MotionFirmware` | the sketch with latch, watchdog and OTA | `phase` is the place in `loop()`; an action per phase, per command and per other task |
| `CommandGate` | `CommandParser::decode`'s gate, `CommandDecoder.validate`, numbering, restarts | the network is the set of everything sent so far: what is in it may arrive now, later, twice or never |
| `RobotView` | latch and legs as the host can tell them | abstract specification of the answers to commands; `MotionFirmware` conforms to it, `ResetHandshake` is built on it |
| `ResetHandshake` | `Runtime`, `Commander`, `TelemetryReceiver`, `CommandService` | commands are a FIFO that loses (what is out of order is discarded, which `CommandGate` checks); the dashboard's threads act between any two steps and in the middle of a walking tick (`TickOvertaken`) |
| `EstopOrder` | `ResetHandshake` with one history variable | order of a reset and an E-Stop |
| `HostFsm` | `TRANSITIONS`, `Fsm.handle`, the timers of `Behavior` | pure operators over a record `[state, stay, fired, deferred]` |
| `Escalation` | every operation of `escalation.py` | pure operators over the level's record; whether a span is over is handed in |
| `AlarmLatch` | nothing in particular: the contract of an alarm | abstract specification, four Booleans |
| `HostAlarm` | `Runtime._apply` and the pieces of `Runtime.tick`, `VoiceAuthWindow`, `AuthJudge`, the mission's filter, dashboard threads | composes `HostFsm` and `Escalation`; `loop` is the piece of the tick that is next |
| `Readings` | `VlmWorker`, `FallMonitor`, `ZoneInspector`, `PathCause` | the three who share one reader, in the order of `Runtime.tick`; the reader's thread and the FSM move between any two pieces |
| `Control` | `NavRequests`, the directives, the sequences' intent, `CommandService`, `ask_route_stop` | who makes the robot walk: the loop's pieces and a dashboard command that may be half done |
| `Patrol` | `PatrolController` with `recovery.py`, `avoidance.py`, `arrival.py`, `nav_state.py` | one record; what map, scan and pose say is a choice, so each operator gives the set of its possible results |
| `MCHost`, `MCSensorPath` | - | independent models in one run, see "Runs" |
| `*Proofs` | - | theorems about the module each one extends |

`SensorPath`, `SampleHistory` and `MotionFirmware` extend `SafetyMonitor`, so one definition of the
judgement is checked by itself, under the clock and inside the robot. `MotionFirmware` implements
`SafetyLatch` (`Latch == INSTANCE SafetyLatch WITH obstacle <- monitor.obstacle, ...`).
`ResetHandshake` reduces the robot to its latch, its legs and the state it echoes. What it assumes of
latch and legs is stated once, in `RobotView`: `ResetHandshake` takes its robot's steps from there
(`Robot == INSTANCE RobotView`), and `RobotAsSeen` says that every command and every reaction of
`MotionFirmware` is a step of it. `HostAlarm` implements `AlarmLatch` (`Latch == INSTANCE AlarmLatch WITH alarm <-
Alarmed(host.lv), ...`). `HostAlarm` and `Control` extend `HostFsm` and so use one transition table;
each keeps the part of the host's state that its properties need: `HostAlarm` the level, the timers
and the authentication, `Control` the intent and the requests, `Readings` the judges and their
reader, `Patrol` the controller behind one of the directives.

Each module names, next to every variable and action, the field or function it stands for;
`PROJECT.json` has the lines. Operators whose comment describes a wrong variant (`TimedOutLate`,
`IsNewAlways`, ...) are mutants: `PROJECT.json` says which property notices each of them.

### Correspondence worth knowing

* A restart (`Restart` in `MotionFirmware`) is everything `setup()` and the static initialisers
  do, whoever called `esp_restart()`; a pending image can only be one transferred just before.
* `commandAge`, `feedAge` and `reboot.left` are ages instead of stamps; `CountTo` stops an age at
  the value beyond which the code does not tell the difference.
* `ActionBegins`/`ActionEnds` are the two ends of the vendor call that blocks the loop for about a
  second; only time and the other tasks move in between.
* The health gate of the OTA service and the outcome of flash operations are free choices:
  `OtaIdle` and `OtaConfirm` are both possible whenever a confirmation was asked for.
* A tick of the host is cut where another thread may act and the code has let go of what it read.
  `Runtime._apply` (FSM, then level) is one step: the unlocked read and write inside `Fsm.handle`, a
  few byte codes apart under the interpreter lock, are not separated.
* `HostAlarm` counts the stay in a state, because timers, grace and badge wait are compared with
  each other; every other span may be over or not at any tick.
* Some fields are not in the code and record what a property is about; they gate nothing. In
  `Readings` they are `vlm.by` and `vlm.late` (whose question is in the reader; what is asked about
  also limits what an answer may say), `zone.votes`, `zone.backed` and `fall.verdicts`; in `Control`
  `goal.old`, `stopped` and `hands`; in `Patrol` `owed`; in `SampleHistory` the histories.
* An exception that leaves the loop is a state of `Patrol` (`dead`), left by a new start of the program.
* In `ResetHandshake` a tick between two send deadlines is merged with the tick at the deadline,
  and `PATROL` stands for every state whose directive may walk. An E-Stop is
  two steps, the datagram and the event; the datagram may be lost, so the event may come at any time
  (`EstopApplied`).

## 3. Runs

| run | instance | shows |
|---|---|---|
| `sensor_path` | `SensorPath`: `Wrap` 9, period 2, age limit 3, one tick of skew and of delay; `SampleHistory`: 6 distance and 4 battery samples, thresholds 2 | each sample is counted once, none that is stale, no fresh one is lost, a lasting obstacle engages the reflex stop for good; the verdicts mean what the history says |
| `firmware` | sensors, SERVICE, no OTA; timeout 2, watchdog 3, at most 3 ticks per pass | type, `WalkingIsCommanded`, `NoLinkNoMotion`, `FailsafeCounted`, the implementation of `SafetyLatch`, conformance to `RobotView`, `HostSilenceLatches` |
| `firmware_ota` | OTA, no sensor events | an unconfirmed image and an armed watchdog only on a standing robot |
| `command_gate` | 3 sessions, 3 commands each, 4 clock values | order, no replay, restarts get through, firmware parser and host decoder agree |
| `reset_handshake` | 2 commands under way | only a request of a person opens the latch, FAILSAFE holds a robot that stands; the liveness of stop and release |
| `confirm_reboot` (violated) | as `firmware_ota` | finding 1 |
| `service_pose` (violated) | as `firmware_ota`, no OTA | finding 2 |
| `estop_order` (violated) | 3 commands under way | finding 3 |
| `latch_follow` (violated) | 2 commands under way | finding 4 |
| `host` | `HostAlarm`: held alarm, timers, grace and badge wait of one tick, two attempts; `Readings`: a budget of two ticks, a path wait of one; `Control`; `Patrol`: two zones, one of them with a direction to look at | alarm and failsafe agree and are released by people, both factors of an authentication belong to one wait, the wait ends, answers reach who asked, what was found is told, a stop is final, the patrol stops before a detour and heads for nothing it gave up |
| `manual_intent` (violated) | `Control` | finding 5 |
| `patrol_home` (violated) | `Patrol`, two zones | finding 6 |

**Bounds.** Times are scaled so that every comparison the code makes can fall either way: the
watchdog deadline is longer than the command timeout, a pass can be longer than either timeout or
shorter than both, the reboot delay is shorter than a pass, the clock wraps several times inside
a reachable behaviour (the state graph is finite because time is kept modulo `Wrap`). `MaxOutage`
keeps stamps apart that differ by a whole turn of the clock: a real outage of 49.7 days is outside
of the model. Two sessions suffice for a restart handshake and a third one shows handshakes that
follow each other; with three commands a session has an opening and two commands that can be
swapped. `MaxFlight` 2 holds a RESET_SAFE and an intent; a third slot makes the graph too large for
the liveness properties within minutes, and is used where only safety is asked (`estop_order`).
`SampleHistory` ends at its bounds, which `HistoryFull` says; its histories are long enough to engage, clear and
engage again. In `HostAlarm` spans of one tick already let a timer fall due in the same tick as a
verdict, a prolongation or a badge, and grace and badge wait add up, so an answer can come in time,
within the grace, and too late; with two attempts one can fail without ending the wait. The
reader's budget of two ticks against a path wait of one makes a question outlast the deadline of
who asked it. Two zones let a patrol see one and give up the other, close a cycle by either, and
have nothing left. `CHECK_DEADLOCK` stays on in every run.

**Two runs hold several models.** `MCHost` and `MCSensorPath` have a variable `part` that is chosen
in the initial state: a behaviour is one of the models, and the others' variables rest. They share
operators and no state, so the run checks each model as a run of its own would.

**Fairness.** `MotionFirmware`: weak fairness of the loop as a whole and of time, since FreeRTOS
schedules `loopTask` and the tick interrupt; nothing is assumed of host, network or people.
`HostAlarm`: weak fairness of the loop's pieces, since `serve` ticks whatever the dashboard does;
nothing of cameras, speech or people, who may talk for ever. `Readings`, `Control` and `Patrol`
state none: their properties are safety, `BlockageTold` is a bound in ticks.
`SensorPath`: strong fairness of a successful cycle, a publish and a judgement, since the mutex is
held for one structure copy and the sonar answers again and again; what never answers is covered
by the safety properties. `ResetHandshake`: the loop ticks, what is under way arrives or is lost,
and the network loses but not for ever: strong fairness for taking an intent (STOP and MOVE
together: which one comes is the host's doing, not the network's), for taking a RESET_SAFE and for
hearing a reply. Nothing is assumed of the dashboard's threads, nor of telemetry, which a failing
sensor suppresses; where it is needed the property has it as a premise (`RelatchFollowed`, `LatchFollowed`). `ResetSettles` has as
premises that faults cease and that a person keeps asking.

### Findings

1. **The confirm reboot can hit a walking robot.** `pollStationaryOta` marks the image confirmed and
   reboots 500 ms later; in between RESET_SAFE is no longer refused. The sketch refuses it before
   because of that very reboot (`mechdog_motion.ino:437-439`, `docs/PROTOCOL.md:213`).
2. **POSE moves a robot in SERVICE mode** once the latch was released there; MOVE and ACTION ask the
   SERVICE flag, POSE does not (`mechdog_motion.ino:462-465` against `:443-444`).
3. **A waiting reset undoes a later E-Stop.** The E-Stop overtakes the queue of the tick and leaves
   the request in it; the next tick sends RESET_SAFE behind it. The FSM stays in FAILSAFE until
   the robot reports its open latch, and then leaves it. `OnlyAskedReleases` is the other side: where
   no request waits or is under way, nothing opens a closed latch.
4. **A second latch can go unnoticed.** The receiver's edge memory says FAILSAFE until it hears
   another state; if the host left FAILSAFE through a command reply and the robot latches again
   first, no event is raised while the robot stays latched.
5. **A walk goes on in manual control.** `manual_on` halts the commander, but not under the lock of a
   tick: a sequence whose directive was already read sets its intent afterwards, and MANUAL, which
   yields, repeats it until the operator drives (`dashboard/commands.py:141` says it stands until then).
6. **A patrol on its way home can end the loop.** `_replan` looks the label of the plan up among the
   zones (`patrol.py:1263-1267`). A plan keeps the label HOME after an operator stopped the patrol on its
   way home (`route_follow.py:181` clears `returning_home`, `patrol.py:734` returns before the plan is
   dropped, `patrol.py:972` keeps the label), or after a detour of an attempt that was made for HOME
   because every zone was given up (`recovery.py:116-123`). The lookup raises, and `serve` ends.

Met while modelling, without a run of their own:

* ALERT -> MANUAL -> FAILSAFE -> IDLE keeps a goal, though manual control is said to cancel it
  (`nav_requests.py:174-192`): neither transition is one of those that cancel.
* MANUAL_ON and MANUAL_OFF between the loop's look at the cancellation (`nav_requests.py:207`) and the
  hand-over of the goal let the goal from before manual control start.
* A `goto` that is accepted between a stop and the next `drain` is dropped without an answer; a patrol
  that is asked for right after a stop is dropped while `goal_feedback` is set.
* A timer marks itself fired before a held alarm refuses its event (`fsm.py:403`); SCAN, which only
  time ends, then waits for the confirmation of the alarm or another event.
* MANUAL_ON between `Behavior.tick` and the read of `last_trigger` (`runtime.py:1213-1220`) takes the
  place of an AUTH_FAILED, and no alarm is raised for it.
* `Behavior.tick` leaves AUTH_WAIT without closing the voice window; the next opening erases what is left.
* The cause of a blocked path is told one tick after its deadline when the question was only
  submitted at the deadline (`BlockageTold` allows exactly that).
* `wait_reported` survives a wait that `goto` or `cancel_goal` ended, so the next wait is not reported,
  though `recovery.py:49-50` says once per wait.

## 4. Proofs

Eight modules hold theorems. Each proves an inductive invariant and derives the properties the
runs check. TLC checked every invariant on the instances of the runs before the proof.

**`MotionFirmwareProofs`**, for every value of the constants allowed by `ThresholdAssumption` and
`FirmwareAssumption` (with and without OTA, any thresholds, any gaits and any sensor inputs):

* `TypeCorrect`, `WalkingIsCommandedAlways`, `NoLinkNoMotionAlways`, `UnverifiedImageParkedAlways`,
  `WatchdogParkedAlways`: `Spec => []P` of the safety invariants the runs check;
* `FailsafeCountedAlways`: the action property about `failsafe_count`. Each step by which a fault or
  ESTOP closes an open latch adds one, and no other step but a restart moves the count. The formula
  fixes its next value in every step, so a `latchFailsafe` that forgets a cause violates it, and so
  does one that counts SERVICE or a robot already latched;
* `LatchImplemented`: `Spec => LatchSpec`, the refinement of `SafetyLatch`;
* `RobotConforms`: `Spec => RobotAsSeen`, every command is answered as `RobotView` states it
  (`ViewStep`). So what is proved of `ResetHandshake` is proved of a host facing this firmware.

The properties are not inductive by themselves: `IInv == TypeOK /\ Sound`. `WalkingIsCommanded`, for
instance, bounds the age of the last command by the longest pass; the invariant has to count the
ticks since the last timeout check (`LatchCovers`: `commandAge < CommandTimeout + sinceCheck`), and it
says it of every open latch, not only of moving legs, because MOVE may come later in the pass.
`LatchCovers` also names what an open latch excludes (a lost link, a critical battery, an unconfirmed
image); `LinkOrder` ties socket and packet phase to the link, so that a reset only happens on a link;
`LegsFollowFlags` and `ServiceOrder` tie legs, flags, SERVICE mode and watchdog.
`InitEstablishes`, `RestartEstablishes`, `TypesKept` and `SoundKept` are the inductive steps, one
named step per action; `DistanceJudged`, `BatteryJudged` and `SenseReacts` are the lemmas about the
operators of `SafetyMonitor`.

**`CommandGateProofs`**, for any number of host processes, commands and clock values:
`TypeCorrect`, `DecodersAlwaysAgree`, `OpeningAlwaysGetsThrough`, `NothingReplayed`, `OlderExcluded`.
`last` is no bound for what was heard of a session, since a restart handshake sets it back; the
invariant says that only sessions from before the handshake were heard beyond it (`LastCoversHeard`)
and that those cannot pass any more, because `started` is the stamp of the opening
(`StartedIsOpening`) and stamps order the sessions (`SentOrdered`). The last part rests on the one
assumption the model makes about clocks: a host that is started again has a later epoch time than
its predecessor's last command.

**`SensorProofs`**, the history, for any thresholds and histories of any length: `HistoryTyped`,
`ObstacleMeansRuns`, `CriticalMeansRuns`. A counter that has reached `n` says that the last `n` samples
were of its class (`CountersMeanRuns`, `CounterAdvances`), and earlier positions keep the runs that
ended there (`RunKept`, `RunGrows`).

**`ResetHandshakeProofs`**, for every capacity of the network: `HandshakeTyped`, `OnlyAskedOpens` and
`FailsafeHolds`.
`HandshakeTyped` is the inductive invariant; its part about the commands under way (a sequence of
known commands, never longer than `MaxFlight`) rests on the lemmas about sending and losing
(`SentKeeps`, `TickSends`, `HeadLeaves`). `OnlyAskedReleases` relates the whole network to the latch:
`NoRequest` speaks of every datagram under way, so `RequestStep` needs to know that what a tick adds
is a RESET_SAFE only if one was asked for, and that losing the oldest adds nothing
(`NoRequestSent`). This is why `OneShots` must clear the request when it sends: a host that sent it
again until it is answered would open a latch that closed in between. `FailsafeHolds` has the same shape (`FailsafeStep`): a tick
that begins in FAILSAFE finds no patrol to start and cannot be overtaken (`FailsafeTick`), so an order
to walk that is under way then is the last one, from a tick that began before.

**`SensorProofs`**, the path, for every width of the clock and all bounds that `ClockAssumption` allows:
`TypeCorrect`, `StaleIsNeverJudged`, `SampleIsCountedOnce`, `FreshIsJudged`. Differences modulo `Wrap` are true ages as
long as no age reaches `Wrap` (`MinusIs`, `Grows`). The invariant `IInv` therefore orders the stamps:
record, published copy and the sample judged last are at most `MaxOutage` old, in this order
(`Dated`), and the clock runs on by at most `MaxSkew` between reading it and taking the snapshot
(`Skewed`). `FreshIsJudged` needs more: a sample is passed over if its reconstructed stamp equals the
one judged last, so two samples must lie further apart than a clamped reading can move a stamp
(`Spaced`, `Remembered`). Hence its assumption `MaxSkew < SamplePeriod`: the sensor task acquires every
40 ms (`kSamplePeriodMs`, `sensor_hal.cpp:118`), and `pollTelemetry` takes the snapshot in the line
after it read the clock (`mechdog_motion.ino:654-655`). With `MaxSkew = SamplePeriod` TLC finds
`FreshSampleJudged` violated, so the assumption is not idle.

**`HostAlarmProofs`**, for every length of its times and any number of attempts: `AlarmTyped`,
`FailsafeAgreed`, `AlarmsLatched` (the refinement of `AlarmLatch`), `FailuresAlarm`, `StaleIgnored`,
`BothShown`. The level comes first: each operator of `Escalation` keeps an alarm and the failsafe
(`Quiet`, `Keeps`). Then `_apply`, which tells FSM and level of one event, keeps their agreement
whatever the event. The invariant adds to the types what a level remembers (`LevelOK`), the one
place where FSM and level may differ, between `Behave` and `Account` after a link loss, and that the
voice window belongs to the present AUTH_WAIT unless it is about to be opened.

**`ControlProofs`**: `StopFinal`. That the robot rests after a stop depends on what the loop had taken
before it and not handed over (`IdleTaken`), on the goal that waits to be dropped (`OldGoal`) and on
requests that a stop forgets (`Rests`).

**`PatrolProofs`**, for any finite set of zones: `StopsBeforeDetour`, `TargetsStandAlways`, `PatrolTyped`.
A tick runs through states of the controller that no other step sees, so the invariant `Good` is a
predicate of a record, and there is a lemma for each operator: it takes a good record to good
ones. `Rests` says that a stop that is owed is required, unsent and intended; `Aimful` that an
attempt has a target and only a zone is looked at; a tick that got past `Passed` owes nothing.

**`ReadingsProofs`**, for every budget of the reader and every wait of the path: `AnswersOwned`,
`ConfirmedTwice`, `JudgedOnce`, `ConfirmedIsTold`, `BlockedIsTold`. Who takes an answer looks at his own
flag, so the flag has to say whose question is in the reader: `Owned` is that table, `Crossed` says
where a judged person's question stands, and `Visited` ties what the inspector waits for, suspects
and has confirmed to one visit, which is what `late` is needed for. As in `PatrolProofs` the invariant
`Good` is a predicate of a record with a lemma per operator, which also says that a hazard stays or
is told (`Kept`) and that only the path's own calls touch the path (`Beside`).

Only model-checked is liveness (`HostSilenceLatches`, `NearEngages`, `AuthWaitEnds`, `FailsafeStops`,
`ReleaseLearned`, `ResetSettles`, `RelatchFollowed`), which is out of the prover's reach; every
safety property of a passing run is a theorem. Where types are a theorem for all constants
(`CommandGateProofs`, `SensorProofs`, `ResetHandshakeProofs`, `ControlProofs`, `PatrolProofs`, `ReadingsProofs`), no run repeats
them.

## 5. Not modelled

* **Numbers.** Localization, SLAM, scan matching, the planner's grid, avoidance geometry, tracking and
  the filters work on floats and arrays. Where a decision depends on them, its outcome is a
  free choice (`Patrol`, `Readings`, `SensorPath`).
* **Image and speech processing**, learned models and the detectors' windows: their results are
  events that may come at any time.
* **Pure input and output**: JSON and value clamps, HTTP and its authentication, dashboard pages,
  LED, sound, speech, black box, history, reports, the camera firmware, the ROS 2 bridge. Nothing of
  it is read back into control.
* **Explicit routes** (`route_follow.py` beyond `cancel`, `relaxed_follow.py`), the state HALTED, which the
  runtime never enters, and the controller's own emergency stop.
* **Mode switches** of the mission, refused outside of IDLE; each model keeps the mode it starts with.
* **The two byte codes inside `Fsm.handle`**: every property about FAILSAFE would fail in that window for
  one known reason. The same of `CommandService.drive`, which asks for MANUAL and sets the intent two
  byte codes later (`commands.py:205-212`): MANUAL would have to end in between, and the next HALT to come
  before the intent and the send after it.
* **Experiments, benchmarks, training notebooks and tools** (`src/experiments`, `src/tools`), which are nearly
  half of the repository's lines and run beside the product.

## 6. What is left

Explicit routes with their dwell and look-around, as a second controller beside `Patrol`; the
composition of `HostAlarm` with `Control`, whose product is too large for one run.

------------------------------ MODULE SensorPath ------------------------------
(***************************************************************************)
(* One sensor channel from acquisition to judgement, with the millisecond  *)
(* clock it is dated by.                                                   *)
(*                                                                         *)
(*   sensor task   acquire_sonar stamps the sample with millis(); publish  *)
(*                 copies the record under a mutex it may fail to take     *)
(*   loop task     pollTelemetry reads millis() (Capture), then            *)
(*                 SensorHal::snapshot turns the stamp into an AGE and     *)
(*                 SafetyMonitor::update turns the age back into a stamp,  *)
(*                 by which it recognises a sample it has already counted  *)
(*                                                                         *)
(* The two tasks interleave, and the clock may advance between Capture and *)
(* the snapshot.  Ages are computed with uint32_t subtraction; the width   *)
(* is the constant Wrap here (2^32 in the code).  The battery channel goes *)
(* through the same functions and is not repeated.                         *)
(***************************************************************************)
EXTENDS SafetyMonitor

CONSTANTS
    Wrap,          \* number of values of millis()
    SamplePeriod,  \* kSamplePeriodMs: the sensor task's cycle
    MaxAge,        \* max_sample_age_ms = kSensorMaxAgeMs
    MaxSkew,       \* bound: ticks between millis() and the snapshot in one pass
    MaxDelay,      \* bound: ticks between stamping a sample and publishing it
    Scenes,        \* classes the sonar may measure in the run
    MaxOutage      \* bound: ticks without a judgement (no stamp recurs within it)

ASSUME ClockAssumption ==
    /\ {Wrap, SamplePeriod, MaxAge, MaxSkew, MaxDelay, MaxOutage} \subseteq Nat
    /\ Scenes \subseteq DistanceClass
    /\ MaxDelay <= MaxOutage
    /\ MaxOutage + MaxSkew + SamplePeriod < Wrap

VARIABLES
    now,         \* millis()
    scene,       \* what the sonar would measure: the environment's choice
    record,      \* the sensor task's own record: [ms, seen, valid, class]
    stage,       \* sensor task: "wait", or "stamped" with the record unpublished
    sinceCycle,  \* ticks since the sensor task's last cycle, up to SamplePeriod
    published,   \* g_published
    outage,      \* ghost: true age of the sample judged last (at first: uptime)
    fresh,       \* ghost: the published sample has not been judged yet
    pass,        \* loop task: "idle", or "captured" between millis() and snapshot
    sensorNow,   \* pollTelemetry's sensor_now
    lastStamp,   \* last_dist_sample_ms_
    monitor      \* g_safety

sensorVars == <<scene, record, stage, published>>
loopVars   == <<pass, sensorNow, lastStamp, monitor>>
vars == <<now, scene, record, stage, sinceCycle, published, outage, fresh,
          pass, sensorNow, lastStamp, monitor>>

\* uint32_t subtraction.
Minus(a, b) == (a - b) % Wrap

\* UINT32_MAX, which SafetyMonitor uses for "no sample seen yet".
Never == Wrap - 1

\* The record before the sonar was read for the first time.
NoRecord == [ms |-> 0, seen |-> FALSE, valid |-> FALSE, class |-> "clear"]

------------------------------------------------------------------------------
\* The plain difference of two stamps, wrong once the clock has wrapped.
AgeOfNoWrap(nowMs, sampled) == IF sampled > nowMs THEN 0 ELSE nowMs - sampled

\* The age without the allowance for a stamp ahead of the caller's clock.
AgeOfNoClamp(nowMs, sampled) == Minus(nowMs, sampled)

\* update_age: a stamp up to one period ahead of the caller counts as age 0.
AgeOf(nowMs, sampled) ==
    IF Minus(sampled, nowMs) <= SamplePeriod THEN 0 ELSE Minus(nowMs, sampled)

\* SensorHal::snapshot's verdict on the record: seen, valid and not stale.
Usable(rec, nowMs) == rec.seen /\ rec.valid /\ AgeOf(nowMs, rec.ms) <= MaxAge

\* The stamp fresh_sample reconstructs from the age.
Reconstructed(nowMs, sampled) == Minus(nowMs, AgeOf(nowMs, sampled))

\* Every usable sample counts, the one judged a millisecond ago too.
IsNewAlways(nowMs, rec, last) == Usable(rec, nowMs)

\* SafetyMonitor::fresh_sample.
IsNew(nowMs, rec, last) ==
    /\ Usable(rec, nowMs)
    /\ last = Never \/ Reconstructed(nowMs, rec.ms) # last

------------------------------------------------------------------------------
Init ==
    /\ now = 0
    /\ scene \in Scenes
    /\ record = NoRecord /\ stage = "wait" /\ sinceCycle = SamplePeriod
    /\ published = NoRecord /\ outage = 0 /\ fresh = FALSE
    /\ pass = "idle" /\ sensorNow = 0
    /\ lastStamp = Never
    /\ monitor = InitMonitor

\* The clock advances; the bounds say how far the tasks may lag behind it.
Tick ==
    /\ outage < MaxOutage
    /\ stage = "stamped" => Minus(now, record.ms) < MaxDelay
    /\ pass = "captured" => Minus(now, sensorNow) < MaxSkew
    /\ now' = (now + 1) % Wrap
    /\ outage' = outage + 1
    /\ sinceCycle' = CountTo(sinceCycle, SamplePeriod)
    /\ UNCHANGED <<fresh, sensorVars, loopVars>>

\* A fault may happen as long as one more cycle fits before MaxOutage.
MayFail == outage + SamplePeriod + MaxDelay <= MaxOutage

\* What stands before the robot changes.
SceneChanges(c) ==
    /\ c # scene
    /\ scene' = c
    /\ UNCHANGED <<now, record, stage, sinceCycle, published, outage, fresh, loopVars>>

\* sensor_task, one cycle: acquire_sonar reads the sonar and stamps the sample.
AcquireSonar ==
    /\ stage = "wait" /\ sinceCycle = SamplePeriod
    /\ record' = [ms |-> now, seen |-> TRUE, valid |-> TRUE, class |-> scene]
    /\ stage' = "stamped" /\ sinceCycle' = 0
    /\ UNCHANGED <<now, scene, published, outage, fresh, loopVars>>

\* acquire_sonar when the bus or the sonar fails: the old stamp and distance
\* stay, the record is invalid.
AcquireFails ==
    /\ MayFail
    /\ stage = "wait" /\ sinceCycle = SamplePeriod
    /\ record' = [record EXCEPT !.valid = FALSE]
    /\ stage' = "stamped" /\ sinceCycle' = 0
    /\ UNCHANGED <<now, scene, published, outage, fresh, loopVars>>

\* publish(): the record becomes visible to the loop.
Publish ==
    /\ stage = "stamped"
    /\ published' = record
    /\ fresh' = record.valid
    /\ stage' = "wait"
    /\ UNCHANGED <<now, scene, record, sinceCycle, outage, loopVars>>

\* publish() when the mutex is not free within 2 ms: the cycle's record is lost.
PublishDropped ==
    /\ MayFail
    /\ stage = "stamped"
    /\ stage' = "wait"
    /\ UNCHANGED <<now, scene, record, sinceCycle, published, outage, fresh, loopVars>>

\* pollTelemetry: const uint32_t sensor_now = millis().
Capture ==
    /\ pass = "idle"
    /\ pass' = "captured" /\ sensorNow' = now
    /\ UNCHANGED <<now, sensorVars, sinceCycle, outage, fresh, lastStamp, monitor>>

\* snapshot + update when the published sample is new to the monitor.
Judge ==
    /\ pass = "captured"
    /\ IsNew(sensorNow, published, lastStamp)
    /\ lastStamp' = Reconstructed(sensorNow, published.ms)
    /\ monitor' = JudgeDistance(monitor, published.class)
    /\ fresh' = FALSE
    /\ pass' = "idle"
    /\ outage' = Minus(now, published.ms)
    /\ UNCHANGED <<now, sensorVars, sinceCycle, sensorNow>>

\* A pass without a new sample that starts the count of near samples again.
PassOverClears ==
    /\ pass = "captured"
    /\ ~IsNew(sensorNow, published, lastStamp)
    /\ pass' = "idle"
    /\ monitor' = [monitor EXCEPT !.near = 0, !.clear = 0]
    /\ UNCHANGED <<now, sensorVars, sinceCycle, outage, fresh, sensorNow, lastStamp>>

\* snapshot + update when there is no new usable sample: nothing is counted and
\* nothing is released.
PassOver ==
    /\ pass = "captured"
    /\ ~IsNew(sensorNow, published, lastStamp)
    /\ pass' = "idle"
    /\ UNCHANGED <<now, sensorVars, sinceCycle, outage, fresh, sensorNow, lastStamp, monitor>>

\* snapshot() while the sensor task holds the mutex: every channel is invalid.
SnapshotBusy ==
    /\ pass = "captured"
    /\ pass' = "idle"
    /\ UNCHANGED <<now, sensorVars, sinceCycle, outage, fresh, sensorNow, lastStamp, monitor>>

SensorTask == AcquireSonar \/ AcquireFails \/ Publish \/ PublishDropped
LoopTask   == Capture \/ Judge \/ PassOver \/ SnapshotBusy

Next ==
    \/ Tick
    \/ \E c \in Scenes : SceneChanges(c)
    \/ SensorTask
    \/ LoopTask

(***************************************************************************)
(* Fairness.  Time passes and the FreeRTOS scheduler runs both tasks; the  *)
(* sonar answers and the mutex is free again and again (it is held for one *)
(* struct copy), so a step that is possible infinitely often is taken.     *)
(***************************************************************************)
Fairness ==
    /\ SF_vars(Tick)
    /\ SF_vars(AcquireSonar) /\ SF_vars(Publish)
    /\ WF_vars(Capture) /\ SF_vars(Judge) /\ SF_vars(PassOver)

Spec == Init /\ [][Next]_vars /\ Fairness

------------------------------------------------------------------------------
Record == [ms : 0..(Wrap - 1), seen : BOOLEAN, valid : BOOLEAN, class : DistanceClass]

\* The type invariant; its bounds are the ones Tick's guards name.
TypeOK ==
    /\ now \in 0..(Wrap - 1) /\ sensorNow \in 0..(Wrap - 1) /\ lastStamp \in 0..(Wrap - 1)
    /\ scene \in Scenes
    /\ record \in Record /\ published \in Record
    /\ stage \in {"wait", "stamped"} /\ pass \in {"idle", "captured"}
    /\ sinceCycle \in 0..SamplePeriod /\ outage \in 0..MaxOutage
    /\ fresh \in BOOLEAN
    /\ monitor \in Monitor

\* The same sample, read on many passes of the loop, is counted once, unless it
\* was first read by a pass whose sensor_now lay before its stamp or it is stamped
\* UINT32_MAX (fresh_sample, update_age).
SampleCountedOnce ==
    [][Judge => \/ fresh
                \/ published.ms = Never
                \/ lastStamp # published.ms]_vars

\* No judgement is made on a sample older than max_sample_age_ms
\* (safety_monitor.h:43-45), also when the clock wraps in between.
StaleNeverJudged == [][Judge => Minus(now, published.ms) <= MaxAge + MaxSkew]_vars

\* A valid, recent sample the monitor has not seen is never passed over: the
\* wrap-around and a stamp ahead of sensor_now do not lose it
\* (sensor_hal.cpp:553-556).
FreshSampleJudged ==
    [][PassOver => ~(published.valid /\ fresh /\ Minus(now, published.ms) <= MaxAge)]_vars

\* If something stays near the robot, the reflex stop engages for good: the
\* passes without a new sample do not erase the count (safety_monitor.cpp:43-47).
NearEngages == <>[](scene = "near") => <>[]monitor.obstacle
==============================================================================

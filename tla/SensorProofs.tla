-------------------------- MODULE SensorProofs --------------------------
(***************************************************************************)
(* Theorems about SensorPath and SampleHistory, for any width of the       *)
(* clock, any bounds that ClockAssumption allows, and any thresholds.      *)
(*                                                                         *)
(* The path.  Differences of stamps are true ages as long as no age        *)
(* reaches the width of the clock, and none does: a stamp is never older   *)
(* than the sample judged last, and a judgement comes within MaxOutage     *)
(* (Dated).  Between millis() and the snapshot the clock runs on by at     *)
(* most MaxSkew (Skewed), so the age the pass computes is off by no more.  *)
(*                                                                         *)
(* The history.  The counters of SafetyMonitor are a summary of it that is *)
(* just good enough for the verdicts.  A counter that has reached n, at    *)
(* most its threshold, says that the last n samples were of its class      *)
(* (CountersMeanRuns).  A verdict changes at the last sample only, and     *)
(* every earlier position keeps the runs that ended there (RunKept).       *)
(***************************************************************************)
EXTENDS SensorPath, SampleHistory, TLAPS

\* How long ago a stamp was set.
Age(ms) == Minus(now, ms)

Dated == /\ record.seen => Age(record.ms) <= outage
         /\ published.seen => record.seen /\ Age(record.ms) <= Age(published.ms)
                              /\ Age(published.ms) <= outage

Skewed == pass = "captured" => Age(sensorNow) <= MaxSkew

Seen == (record.valid => record.seen) /\ (published.valid => published.seen)

\* The inductive invariant.
IInv == TypeOK /\ Dated /\ Skewed /\ Seen

Stamps == 0..(Wrap - 1)

------------------------------------------------------------------------------
\* Unsigned subtraction.
LEMMA MinusIs ==
    ASSUME NEW a \in Stamps, NEW b \in Stamps
    PROVE  /\ Minus(a, b) = IF a >= b THEN a - b ELSE a - b + Wrap
           /\ Minus(a, b) \in Stamps
<1>1. Wrap \in Nat \ {0}
  BY ClockAssumption
<1>2. ASSUME NEW x \in Stamps PROVE x % Wrap = x
  BY <1>1 DEF Stamps
<1>3. ASSUME NEW x \in (-Wrap)..(-1) PROVE x % Wrap = x + Wrap
  BY <1>1
<1>4. CASE a >= b
  BY <1>1, <1>2, <1>4 DEF Minus, Stamps
<1>5. CASE a < b
  BY <1>1, <1>3, <1>5 DEF Minus, Stamps
<1> QED
  BY <1>4, <1>5 DEF Stamps

\* A tick makes every age one larger, unless it is as large as the clock is wide.
LEMMA Grows ==
    ASSUME NEW a \in Stamps, NEW b \in Stamps, Minus(a, b) < Wrap - 1
    PROVE  /\ (a + 1) % Wrap \in Stamps
           /\ Minus((a + 1) % Wrap, b) = Minus(a, b) + 1
<1>1. Wrap \in Nat \ {0}
  BY ClockAssumption
<1>2. (a + 1) % Wrap = IF a + 1 < Wrap THEN a + 1 ELSE 0
  BY <1>1 DEF Stamps
<1>3. (a + 1) % Wrap \in Stamps
  BY <1>1, <1>2 DEF Stamps
<1> DEFINE c == (a + 1) % Wrap
<1> HIDE DEF c
<1>4. Minus(c, b) = IF c >= b THEN c - b ELSE c - b + Wrap
  BY <1>3, MinusIs DEF c
<1>5. Minus(a, b) = IF a >= b THEN a - b ELSE a - b + Wrap
  BY MinusIs
<1>6. c = (IF a + 1 < Wrap THEN a + 1 ELSE 0) /\ c \in Stamps
  BY <1>2, <1>3 DEF c
<1>7. Minus(c, b) = Minus(a, b) + 1
  BY <1>1, <1>4, <1>5, <1>6 DEF Stamps
<1> QED
  BY <1>6, <1>7 DEF c

\* A stamp that was just set has no age.
LEMMA NoAge == ASSUME NEW a \in Stamps PROVE Minus(a, a) = 0
BY ClockAssumption, MinusIs DEF Stamps

LEMMA Judged ==
    ASSUME NEW m \in Monitor, NEW c \in DistanceClass
    PROVE  JudgeDistance(m, c) \in Monitor
<1> DEFINE near  == IF c = "near"  THEN CountTo(m.near, ObstacleSamples) ELSE 0
           clear == IF c = "clear" THEN CountTo(m.clear, ClearSamples)   ELSE 0
           b     == near >= ObstacleSamples \/ (m.obstacle /\ clear < ClearSamples)
<1>1. near \in 0..ObstacleSamples /\ clear \in 0..ClearSamples
  BY ThresholdAssumption DEF CountTo, Monitor
<1>2. b \in BOOLEAN
  OBVIOUS
<1>3. JudgeDistance(m, c) = [m EXCEPT !.near = near, !.clear = clear, !.obstacle = b]
  BY DEF JudgeDistance
<1> HIDE DEF near, clear, b
<1> QED
  BY <1>1, <1>2, <1>3 DEF Monitor

------------------------------------------------------------------------------
\* The clock and the bounds, as the proofs use them.
LEMMA Bounds ==
    /\ {Wrap, SamplePeriod, MaxAge, MaxSkew, MaxDelay, MaxOutage} \subseteq Nat
    /\ MaxOutage + MaxSkew + SamplePeriod < Wrap /\ 0 \in Stamps /\ Never \in Stamps
    /\ Scenes \subseteq DistanceClass
BY ClockAssumption DEF Stamps, Never

LEMMA RecordIs ==
    ASSUME NEW r \in Record
    PROVE  r.ms \in Stamps /\ r.seen \in BOOLEAN /\ r.valid \in BOOLEAN /\ r.class \in DistanceClass
BY DEF Record, Stamps

LEMMA AgeIs ==
    ASSUME now \in Stamps, NEW ms \in Stamps
    PROVE  Age(ms) \in Nat /\ Age(ms) \in Int /\ Age(ms) >= 0
<1>1. Age(ms) \in Stamps
  BY MinusIs DEF Age
<1> QED
  BY <1>1, Bounds DEF Stamps

LEMMA InitEstablishes == Init => IInv
<1> SUFFICES ASSUME Init PROVE IInv
  OBVIOUS
<1>1. NoRecord \in Record
  BY Bounds DEF NoRecord, Record, DistanceClass, Stamps
<1>2. InitMonitor \in Monitor
  BY ThresholdAssumption DEF InitMonitor, Monitor
<1>3. TypeOK
  <2>1. now \in Stamps /\ sensorNow \in Stamps /\ lastStamp \in Stamps
    BY Bounds DEF Init
  <2>2. sinceCycle \in 0..SamplePeriod /\ outage \in 0..MaxOutage
    BY Bounds DEF Init
  <2> QED
    BY <1>1, <1>2, <2>1, <2>2 DEF Init, TypeOK, Stamps
<1>4. ~record.seen /\ ~published.seen /\ ~record.valid /\ ~published.valid
  BY DEF Init, NoRecord
<1> QED
  BY <1>3, <1>4 DEF IInv, Dated, Skewed, Seen, Init

LEMMA TickKeeps == ASSUME IInv, Tick PROVE IInv'
<1>1. /\ now \in Stamps /\ sensorNow \in Stamps /\ outage \in 0..MaxOutage /\ outage < MaxOutage
      /\ record.ms \in Stamps /\ published.ms \in Stamps
  BY RecordIs DEF IInv, TypeOK, Tick, Stamps
<1>2. /\ now' = (now + 1) % Wrap /\ outage' = outage + 1
      /\ UNCHANGED <<record, published, sensorNow, pass, monitor, scene, stage, fresh, lastStamp>>
      /\ sinceCycle' = CountTo(sinceCycle, SamplePeriod)
  BY DEF Tick, sensorVars, loopVars
<1>3. ASSUME NEW ms \in Stamps, Age(ms) < Wrap - 1
      PROVE  now' \in Stamps /\ Minus(now', ms) = Age(ms) + 1
  BY <1>1, <1>2, <1>3, Grows DEF Age
<1>4. ASSUME NEW ms \in Stamps PROVE Age(ms) \in Stamps
  BY <1>1, MinusIs DEF Age
<1>5. now' \in Stamps
  <2>1. Age(now) = 0 /\ 0 < Wrap - 1
    BY <1>1, NoAge, Bounds DEF Age
  <2> QED
    BY <1>1, <1>3, <2>1
<1>6. TypeOK'
  BY <1>1, <1>2, <1>5, Bounds DEF IInv, TypeOK, Stamps, CountTo
<1>7. Dated'
  <2>1. record.seen => Minus(now', record.ms) = Age(record.ms) + 1
    BY <1>1, <1>3, <1>4, Bounds DEF IInv, Dated, Stamps
  <2>2. published.seen => Minus(now', published.ms) = Age(published.ms) + 1
    BY <1>1, <1>3, <1>4, Bounds DEF IInv, Dated, Stamps
  <2>3. Age(record.ms) \in Int /\ Age(published.ms) \in Int
    BY <1>1, <1>4 DEF Stamps
  <2> QED
    BY <1>1, <1>2, <2>1, <2>2, <2>3 DEF IInv, Dated, Age
<1>8. Skewed'
  <2>1. pass = "captured" => Age(sensorNow) < MaxSkew
    BY DEF Tick, Age
  <2>2. pass = "captured" => Minus(now', sensorNow) = Age(sensorNow) + 1
    BY <1>1, <1>3, <1>4, <2>1, Bounds DEF Stamps
  <2>3. Age(sensorNow) \in Int
    BY <1>1, <1>4 DEF Stamps
  <2> QED
    BY <1>2, <2>1, <2>2, <2>3, Bounds DEF Skewed, Age
<1> QED
  BY <1>2, <1>6, <1>7, <1>8 DEF IInv, Seen

LEMMA SensorTaskKeeps == ASSUME IInv, SensorTask PROVE IInv'
<1>1. /\ now \in Stamps /\ record \in Record /\ published \in Record /\ scene \in Scenes
      /\ outage \in Nat
  BY Bounds DEF IInv, TypeOK, Stamps
<1>2. Skewed'
  BY DEF IInv, Skewed, Age, SensorTask, AcquireSonar, AcquireFails, Publish, PublishDropped, loopVars
<1>2a. Seen'
  BY <1>1 DEF IInv, Seen, Record, SensorTask, AcquireSonar, AcquireFails, Publish, PublishDropped
<1>3. CASE AcquireSonar
  <2>1. record' = [ms |-> now, seen |-> TRUE, valid |-> TRUE, class |-> scene] /\ record' \in Record
    BY <1>1, <1>3, Bounds DEF AcquireSonar, Record, Stamps
  <2>2. TypeOK'
    BY <1>3, <2>1, Bounds DEF IInv, TypeOK, AcquireSonar, loopVars
  <2>3. Minus(now, record'.ms) = 0 /\ record'.seen
    BY <1>1, <2>1, NoAge
  <2>4. Age(published.ms) >= 0
    BY <1>1, AgeIs, RecordIs
  <2>5. Dated'
    BY <1>1, <1>3, <2>3, <2>4 DEF IInv, Dated, Age, AcquireSonar
  <2> QED
    BY <1>2, <1>2a, <2>2, <2>5 DEF IInv
<1>4. CASE AcquireFails
  <2>1. record' \in Record /\ record'.ms = record.ms /\ record'.seen = record.seen
    BY <1>1, <1>4 DEF AcquireFails, Record
  <2>2. TypeOK'
    BY <1>4, <2>1, Bounds DEF IInv, TypeOK, AcquireFails, loopVars
  <2>3. Dated'
    BY <1>4, <2>1 DEF IInv, Dated, Age, AcquireFails
  <2> QED
    BY <1>2, <1>2a, <2>2, <2>3 DEF IInv
<1>5. CASE Publish
  <2>1. TypeOK'
    BY <1>1, <1>5, RecordIs DEF IInv, TypeOK, Publish, loopVars
  <2>2. Age(record.ms) \in Int
    BY <1>1, AgeIs, RecordIs
  <2>3. Dated'
    BY <1>5, <2>2 DEF IInv, Dated, Age, Publish
  <2> QED
    BY <1>2, <1>2a, <2>1, <2>3 DEF IInv
<1>6. CASE PublishDropped
  BY <1>2, <1>2a, <1>6 DEF IInv, TypeOK, Dated, Age, PublishDropped, loopVars
<1> QED
  BY <1>3, <1>4, <1>5, <1>6 DEF SensorTask

LEMMA LoopTaskKeeps == ASSUME IInv, LoopTask PROVE IInv'
<1>1. now \in Stamps /\ record \in Record /\ published \in Record
  BY DEF IInv, TypeOK, Stamps
<1>2. CASE Capture
  <2>1. TypeOK' /\ Dated'
    BY <1>2 DEF IInv, TypeOK, Dated, Age, Capture, sensorVars
  <2>2. Minus(now', sensorNow') = 0
    BY <1>1, <1>2, NoAge DEF Capture
  <2> QED
    BY <1>2, <2>1, <2>2, Bounds DEF IInv, Skewed, Seen, Age, Capture, sensorVars
<1>3. CASE Judge
  <2>1. JudgeDistance(monitor, published.class) \in Monitor
    BY <1>1, RecordIs, Judged DEF IInv, TypeOK
  <2>2. Reconstructed(sensorNow, published.ms) \in Stamps
    <3>1. /\ sensorNow \in Stamps /\ published.ms \in Stamps
      BY <1>1, RecordIs DEF IInv, TypeOK, Stamps
    <3>2. AgeOf(sensorNow, published.ms) \in Stamps
      BY <3>1, MinusIs, Bounds DEF AgeOf
    <3> QED
      BY <3>1, <3>2, MinusIs DEF Reconstructed
  <2>3. published.seen /\ Age(published.ms) \in Nat /\ outage' = Age(published.ms)
    BY <1>1, <1>3, RecordIs, MinusIs DEF Judge, IsNew, Usable, Age, Stamps
  <2>4. outage' \in 0..MaxOutage
    BY <2>3, Bounds DEF IInv, Dated, TypeOK
  <2>5. TypeOK'
    BY <1>3, <2>1, <2>2, <2>4 DEF IInv, TypeOK, Judge, sensorVars, Stamps
  <2>6. Dated'
    BY <1>3, <2>3 DEF IInv, Dated, Age, Judge, sensorVars
  <2>7. Skewed'
    BY <1>3 DEF Judge, Skewed
  <2>8. Seen'
    BY <1>3 DEF IInv, Seen, Judge, sensorVars
  <2> QED
    BY <2>5, <2>6, <2>7, <2>8 DEF IInv
<1>4. CASE PassOver \/ SnapshotBusy
  BY <1>4 DEF IInv, TypeOK, Dated, Skewed, Seen, Age, PassOver, SnapshotBusy, sensorVars
<1> QED
  BY <1>2, <1>3, <1>4 DEF LoopTask

\* The invariant holds in every behaviour of the sensor path.
THEOREM Invariance == Spec => []IInv
<1>1. IInv /\ [Next]_vars => IInv'
  <2> SUFFICES ASSUME IInv, [Next]_vars PROVE IInv'
    OBVIOUS
  <2>1. CASE \E c \in Scenes : SceneChanges(c)
    BY <2>1 DEF IInv, TypeOK, Dated, Skewed, Seen, Age, SceneChanges, loopVars
  <2>2. CASE UNCHANGED vars
    BY <2>2 DEF vars, IInv, TypeOK, Dated, Skewed, Seen, Age
  <2> QED
    BY <2>1, <2>2, TickKeeps, SensorTaskKeeps, LoopTaskKeeps DEF Next
<1> QED
  BY InitEstablishes, <1>1, PTL DEF Spec

\* Clock, ages and stamps stay within their width, the counters within their
\* thresholds, also when the clock wraps (sensor_hal.cpp:546-560).
THEOREM TypeCorrect == Spec => []TypeOK
<1>1. IInv => TypeOK
  BY DEF IInv
<1> QED
  BY <1>1, Invariance, PTL

\* No sample older than max_sample_age_ms is judged (safety_monitor.h:43-45), for any
\* width of the clock: the age of a pass is off by at most the time the clock ran on
\* between millis() and the snapshot.
THEOREM StaleIsNeverJudged == Spec => StaleNeverJudged
<1>1. ASSUME IInv, Judge PROVE Minus(now, published.ms) <= MaxAge + MaxSkew
  <2> DEFINE a == Age(published.ms)
             s == Age(sensorNow)
             ms == published.ms
  <2>1. /\ now \in Stamps /\ sensorNow \in Stamps /\ ms \in Stamps
    BY <1>1, RecordIs DEF IInv, TypeOK, Stamps
  <2>2. published.seen /\ pass = "captured" /\ AgeOf(sensorNow, ms) <= MaxAge
    BY <1>1 DEF Judge, IsNew, Usable
  <2>3. a <= MaxOutage /\ s <= MaxSkew
    <3>1. a <= outage /\ s <= MaxSkew /\ a \in Int /\ outage \in 0..MaxOutage
      BY <1>1, <2>1, <2>2, AgeIs DEF IInv, Dated, Skewed, TypeOK
    <3> HIDE DEF a, s
    <3> QED
      BY <3>1, Bounds
  <2>4. /\ a = IF now >= ms THEN now - ms ELSE now - ms + Wrap
        /\ s = IF now >= sensorNow THEN now - sensorNow ELSE now - sensorNow + Wrap
        /\ Minus(ms, sensorNow) = IF ms >= sensorNow THEN ms - sensorNow ELSE ms - sensorNow + Wrap
        /\ Minus(sensorNow, ms) = IF sensorNow >= ms THEN sensorNow - ms ELSE sensorNow - ms + Wrap
    BY <2>1, MinusIs DEF Age
  <2>5. \/ Minus(ms, sensorNow) <= SamplePeriod
        \/ Minus(ms, sensorNow) > SamplePeriod /\ Minus(sensorNow, ms) <= MaxAge
    BY <2>1, <2>2, <2>4, Bounds DEF AgeOf, Stamps
  <2> HIDE DEF a, s, ms
  <2>6. a <= MaxAge + MaxSkew
    BY <2>1, <2>3, <2>4, <2>5, Bounds DEF Stamps
  <2> QED
    BY <2>6 DEF a, Age
<1>2. IInv /\ [Next]_vars => [Judge => Minus(now, published.ms) <= MaxAge + MaxSkew]_vars
  BY <1>1
<1> QED
  BY Invariance, <1>2, PTL DEF Spec, StaleNeverJudged

\* The pass that is under way read millis() after the stamp of a sample that was counted.
Counted == published.valid /\ ~fresh /\ lastStamp = published.ms /\ pass = "captured"
             => Age(sensorNow) <= Age(published.ms)

LEMMA CountedKept == ASSUME IInv, Counted, [Next]_vars, IInv' PROVE Counted'
<1>1. /\ now \in Stamps /\ now' \in Stamps /\ sensorNow \in Stamps
      /\ record.ms \in Stamps /\ published.ms \in Stamps /\ outage \in 0..MaxOutage
  BY RecordIs DEF IInv, TypeOK, Stamps
<1>2. CASE Tick
  <2>1. /\ now' = (now + 1) % Wrap
        /\ UNCHANGED <<published, sensorNow, pass, fresh, lastStamp>>
    BY <1>2 DEF Tick, sensorVars, loopVars
  <2>2. ASSUME NEW ms \in Stamps, Age(ms) < Wrap - 1 PROVE Minus(now', ms) = Age(ms) + 1
    BY <1>1, <2>1, <2>2, Grows DEF Age
  <2>3. SUFFICES ASSUME published.valid, ~fresh, lastStamp = published.ms, pass = "captured"
                 PROVE  Minus(now', sensorNow) <= Minus(now', published.ms)
    BY <2>1 DEF Counted, Age
  <2>4. Age(sensorNow) <= Age(published.ms) /\ Age(sensorNow) <= MaxSkew
    BY <2>3 DEF Counted, IInv, Skewed
  <2>5. Age(sensorNow) \in Nat /\ Age(published.ms) \in Nat /\ Age(published.ms) <= Wrap - 1
    <3>1. Age(published.ms) \in Stamps
      BY <1>1, MinusIs DEF Age
    <3> QED
      BY <1>1, <3>1, AgeIs, Bounds DEF Stamps
  <2>5a. Age(published.ms) < Wrap - 1
    <3>1. published.seen
      BY <2>3 DEF IInv, Seen
    <3>2. Age(published.ms) <= outage /\ outage < MaxOutage
      BY <1>2, <3>1 DEF IInv, Dated, Tick
    <3> QED
      BY <1>1, <2>5, <3>2, Bounds
  <2>6. Minus(now', sensorNow) = Age(sensorNow) + 1
    <3>1. Age(sensorNow) < Wrap - 1
      BY <2>4, <2>5, <2>5a, Bounds
    <3> QED
      BY <1>1, <2>2, <3>1
  <2>7. Minus(now', published.ms) = Age(published.ms) + 1
    BY <1>1, <2>2, <2>5a
  <2> QED
    BY <2>4, <2>5, <2>6, <2>7
<1>3. CASE Capture
  <2>1. Minus(now, now) = 0 /\ Age(published.ms) >= 0
    BY <1>1, NoAge, AgeIs
  <2> QED
    BY <1>3, <2>1 DEF Capture, sensorVars, Counted, Age
<1>4. CASE Publish
  BY <1>4 DEF Publish, loopVars, Counted, Age
<1>5. CASE Judge \/ PassOver \/ SnapshotBusy
  BY <1>5 DEF Judge, PassOver, SnapshotBusy, Counted
<1>6. CASE AcquireSonar \/ AcquireFails \/ PublishDropped \/ (\E c \in Scenes : SceneChanges(c))
  BY <1>6 DEF AcquireSonar, AcquireFails, PublishDropped, SceneChanges, loopVars, Counted, Age
<1>7. CASE UNCHANGED vars
  BY <1>7 DEF vars, Counted, Age
<1> QED
  BY <1>2, <1>3, <1>4, <1>5, <1>6, <1>7 DEF Next, SensorTask, LoopTask

\* A sample is counted once, however many passes read it (fresh_sample, update_age),
\* unless the pass that counted it first had read the clock before its stamp.
THEOREM SampleIsCountedOnce == Spec => SampleCountedOnce
<1>1. ASSUME IInv, Counted, Judge
      PROVE  fresh \/ published.ms = Never \/ lastStamp # published.ms
  <2> SUFFICES ASSUME ~fresh, published.ms # Never, lastStamp = published.ms PROVE FALSE
    OBVIOUS
  <2> DEFINE ms == published.ms
             a == Age(ms)
             s == Age(sensorNow)
  <2>1. now \in Stamps /\ sensorNow \in Stamps /\ ms \in Stamps
    BY <1>1, RecordIs DEF IInv, TypeOK, Stamps
  <2>2. published.seen /\ published.valid /\ pass = "captured" /\ Reconstructed(sensorNow, ms) # ms
    BY <1>1 DEF Judge, IsNew, Usable
  <2>3. s <= a /\ a <= MaxOutage
    <3>1. s <= a /\ a <= outage /\ outage \in 0..MaxOutage /\ a \in Int
      BY <1>1, <2>1, <2>2, AgeIs DEF Counted, IInv, Dated, TypeOK
    <3> HIDE DEF a, s
    <3> QED
      BY <3>1, Bounds
  <2>4. /\ a = IF now >= ms THEN now - ms ELSE now - ms + Wrap
        /\ s = IF now >= sensorNow THEN now - sensorNow ELSE now - sensorNow + Wrap
        /\ Minus(ms, sensorNow) = IF ms >= sensorNow THEN ms - sensorNow ELSE ms - sensorNow + Wrap
        /\ Minus(sensorNow, ms) = IF sensorNow >= ms THEN sensorNow - ms ELSE sensorNow - ms + Wrap
    BY <2>1, MinusIs DEF Age
  <2>5. Minus(sensorNow, Minus(sensorNow, ms)) = ms
    <3> DEFINE d == Minus(sensorNow, ms)
    <3>1. d \in Stamps
      BY <2>1, MinusIs
    <3>2. d = IF sensorNow >= ms THEN sensorNow - ms ELSE sensorNow - ms + Wrap
      BY <2>4
    <3> HIDE DEF d, ms
    <3>3. Minus(sensorNow, d) = IF sensorNow >= d THEN sensorNow - d ELSE sensorNow - d + Wrap
      BY <2>1, <3>1, MinusIs
    <3>4. Minus(sensorNow, d) = ms
      BY <2>1, <3>2, <3>3, Bounds DEF Stamps
    <3> QED
      BY <3>4 DEF d
  <2> HIDE DEF a, s, ms
  <2>6. CASE Minus(ms, sensorNow) <= SamplePeriod
    <3>1. sensorNow = ms
      BY <2>1, <2>3, <2>4, <2>6, Bounds DEF Stamps
    <3>2. Minus(sensorNow, 0) = sensorNow
      BY <2>1, MinusIs, Bounds DEF Stamps
    <3> QED
      BY <2>2, <2>6, <3>1, <3>2 DEF Reconstructed, AgeOf
  <2>7. CASE ~(Minus(ms, sensorNow) <= SamplePeriod)
    BY <2>2, <2>5, <2>7 DEF Reconstructed, AgeOf
  <2> QED
    BY <2>6, <2>7
<1>2. Init => Counted
  BY DEF Init, Counted
<1>3. IInv /\ Counted /\ [Next]_vars /\ IInv' => Counted'
  BY CountedKept
<1>4. IInv /\ Counted /\ [Next]_vars
        => [Judge => fresh \/ published.ms = Never \/ lastStamp # published.ms]_vars
  BY <1>1
<1> QED
  BY Invariance, <1>2, <1>3, <1>4, PTL DEF Spec, SampleCountedOnce

------------------------------------------------------------------------------
\* Stamps of successive samples are a period apart, and the stamp the monitor
\* remembers is the one of the sample judged last, or lies before it by at most the
\* time between millis() and the snapshot.
Spaced ==
    /\ record.seen => sinceCycle <= Age(record.ms)
    /\ stage = "stamped" /\ record.valid /\ published.seen
         => Age(record.ms) + SamplePeriod <= Age(published.ms)

Remembered ==
    lastStamp # Never =>
        /\ sinceCycle <= outage
        /\ outage <= Age(lastStamp) /\ Age(lastStamp) <= outage + MaxSkew
        /\ stage = "stamped" /\ record.valid => Age(record.ms) + SamplePeriod <= outage
        /\ published.valid /\ fresh => Age(published.ms) + SamplePeriod <= outage

\* What the reconstruction makes of a stamp: the stamp itself, or the pass's own
\* reading of the clock, which then lies before it by less than the skew.
LEMMA ReconstructedIs ==
    ASSUME now \in Stamps, sensorNow \in Stamps, NEW ms \in Stamps,
           Age(ms) <= MaxOutage, Age(sensorNow) <= MaxSkew
    PROVE  /\ Reconstructed(sensorNow, ms) \in {ms, sensorNow}
           /\ Reconstructed(sensorNow, ms) = sensorNow => Age(ms) <= Age(sensorNow)
           /\ AgeOf(sensorNow, ms) = IF Age(ms) <= Age(sensorNow) /\ Age(sensorNow) - Age(ms) <= SamplePeriod
                                     THEN 0 ELSE Minus(sensorNow, ms)
           /\ Age(ms) >= Age(sensorNow) => Minus(sensorNow, ms) = Age(ms) - Age(sensorNow)
<1> DEFINE a == Age(ms)
           s == Age(sensorNow)
           d == Minus(sensorNow, ms)
           e == Minus(ms, sensorNow)
<1>1. /\ a = IF now >= ms THEN now - ms ELSE now - ms + Wrap
      /\ s = IF now >= sensorNow THEN now - sensorNow ELSE now - sensorNow + Wrap
      /\ d = IF sensorNow >= ms THEN sensorNow - ms ELSE sensorNow - ms + Wrap
      /\ e = IF ms >= sensorNow THEN ms - sensorNow ELSE ms - sensorNow + Wrap
      /\ d \in Stamps /\ e \in Stamps
  BY MinusIs DEF Age
<1>2. Minus(sensorNow, 0) = sensorNow
  BY MinusIs, Bounds DEF Stamps
<1>3. Minus(sensorNow, d) = IF sensorNow >= d THEN sensorNow - d ELSE sensorNow - d + Wrap
  BY <1>1, MinusIs
<1>4. a <= MaxOutage /\ s <= MaxSkew
  OBVIOUS
<1>5. /\ AgeOf(sensorNow, ms) = IF e <= SamplePeriod THEN 0 ELSE d
      /\ Reconstructed(sensorNow, ms) = IF e <= SamplePeriod THEN Minus(sensorNow, 0) ELSE Minus(sensorNow, d)
  BY DEF AgeOf, Reconstructed
<1> HIDE DEF a, s, d, e
<1>6. Minus(sensorNow, d) = ms
  BY <1>1, <1>3, Bounds DEF Stamps
<1>7. e <= SamplePeriod <=> a <= s /\ s - a <= SamplePeriod
  BY <1>1, <1>4, Bounds DEF Stamps
<1>8. a >= s => d = a - s
  BY <1>1, <1>4, Bounds DEF Stamps
<1>9. ms = sensorNow => a <= s
  BY <1>1, Bounds DEF Stamps
<1> QED
  BY <1>2, <1>5, <1>6, <1>7, <1>8, <1>9 DEF a, s, d

LEMMA SpacedKept ==
    ASSUME IInv, Spaced, Remembered, [Next]_vars, IInv'
    PROVE  Spaced' /\ Remembered'
<1>1. /\ now \in Stamps /\ now' \in Stamps /\ sensorNow \in Stamps /\ lastStamp \in Stamps
      /\ record.ms \in Stamps /\ published.ms \in Stamps
      /\ outage \in Nat /\ outage <= MaxOutage /\ sinceCycle \in 0..SamplePeriod
  BY RecordIs DEF IInv, TypeOK, Stamps
<1>2. Age(record.ms) \in Nat /\ Age(published.ms) \in Nat /\ Age(lastStamp) \in Nat
      /\ Age(sensorNow) \in Nat
  BY <1>1, AgeIs
<1>3. CASE Tick
  <2>1. /\ now' = (now + 1) % Wrap /\ outage' = outage + 1 /\ outage < MaxOutage
        /\ sinceCycle' = CountTo(sinceCycle, SamplePeriod)
        /\ UNCHANGED <<record, published, stage, fresh, lastStamp>>
    BY <1>3 DEF Tick, sensorVars, loopVars
  <2>2. ASSUME NEW ms \in Stamps, Age(ms) <= outage + MaxSkew
        PROVE  Age(ms)' = Age(ms) + 1
    <3>1. Age(ms) < Wrap - 1
      BY <1>1, <2>1, <2>2, AgeIs, Bounds
    <3> QED
      BY <1>1, <2>1, <3>1, Grows DEF Age
  <2>3. record.seen => Minus(now', record.ms) = Age(record.ms) + 1
    <3> SUFFICES ASSUME record.seen PROVE Minus(now', record.ms) = Age(record.ms) + 1
      OBVIOUS
    <3>1. Age(record.ms) <= outage + MaxSkew
      BY <1>1, <1>2, Bounds DEF IInv, Dated
    <3> QED
      BY <1>1, <2>2, <3>1 DEF Age
  <2>4. published.seen => Minus(now', published.ms) = Age(published.ms) + 1
    <3> SUFFICES ASSUME published.seen PROVE Minus(now', published.ms) = Age(published.ms) + 1
      OBVIOUS
    <3>1. Age(published.ms) <= outage + MaxSkew
      BY <1>1, <1>2, Bounds DEF IInv, Dated
    <3> QED
      BY <1>1, <2>2, <3>1 DEF Age
  <2>5. lastStamp # Never => Minus(now', lastStamp) = Age(lastStamp) + 1
    BY <1>1, <2>2 DEF Remembered, Age
  <2>6. sinceCycle' <= sinceCycle + 1
    BY <1>1, <2>1 DEF CountTo
  <2>7. sinceCycle' \in Nat
    BY <1>1, <2>1, Bounds DEF CountTo
  <2>8. (record.valid => record.seen) /\ (published.valid => published.seen)
    BY DEF IInv, Seen
  <2>9. Spaced'
    BY <1>1, <1>2, <2>1, <2>3, <2>4, <2>6, <2>7, <2>8, Bounds DEF Spaced, Age
  <2>10. Remembered'
    BY <1>1, <1>2, <2>1, <2>3, <2>4, <2>5, <2>6, <2>7, <2>8, Bounds DEF Remembered, Age
  <2> QED
    BY <2>9, <2>10
<1>4. CASE AcquireSonar
  <2>1. /\ record' = [ms |-> now, seen |-> TRUE, valid |-> TRUE, class |-> scene]
        /\ sinceCycle = SamplePeriod /\ sinceCycle' = 0
        /\ UNCHANGED <<now, published, outage, fresh, lastStamp>>
    BY <1>4 DEF AcquireSonar, loopVars
  <2>2. record'.ms = now /\ Minus(now, now) = 0
    BY <1>1, <2>1, NoAge
  <2>3. published.seen => SamplePeriod <= Age(published.ms)
    <3>1. published.seen => record.seen /\ Age(record.ms) <= Age(published.ms)
      BY DEF IInv, Dated
    <3> QED
      BY <1>2, <2>1, <3>1, Bounds DEF Spaced
  <2> QED
    BY <1>1, <1>2, <2>1, <2>2, <2>3, Bounds DEF Spaced, Remembered, Age
<1>5. CASE AcquireFails
  <2>1. /\ record' = [record EXCEPT !.valid = FALSE] /\ sinceCycle' = 0
        /\ UNCHANGED <<now, published, outage, fresh, lastStamp>>
    BY <1>5 DEF AcquireFails, loopVars
  <2>2. record'.ms = record.ms /\ record'.seen = record.seen /\ ~record'.valid
    BY <2>1 DEF IInv, TypeOK, Record
  <2> QED
    BY <1>1, <1>2, <2>1, <2>2, Bounds DEF Spaced, Remembered, Age
<1>6. CASE Publish
  <2>1. /\ stage = "stamped" /\ stage' = "wait" /\ published' = record /\ fresh' = record.valid
        /\ UNCHANGED <<now, record, sinceCycle, outage, lastStamp>>
    BY <1>6 DEF Publish, loopVars
  <2> QED
    BY <2>1 DEF Spaced, Remembered, Age
<1>7. CASE PublishDropped
  BY <1>7 DEF PublishDropped, loopVars, Spaced, Remembered, Age
<1>8. CASE Judge
  <2>1. /\ lastStamp' = Reconstructed(sensorNow, published.ms) /\ ~fresh'
        /\ outage' = Age(published.ms) /\ published.seen /\ pass = "captured"
        /\ UNCHANGED <<now, record, stage, sinceCycle, published>>
    BY <1>8 DEF Judge, IsNew, Usable, sensorVars, Age
  <2>2. Age(published.ms) <= outage /\ Age(sensorNow) <= MaxSkew
    BY <2>1 DEF IInv, Dated, Skewed
  <2>3. /\ lastStamp' \in {published.ms, sensorNow}
        /\ lastStamp' = sensorNow => Age(published.ms) <= Age(sensorNow)
    BY <1>1, <1>2, <2>1, <2>2, ReconstructedIs, Bounds
  <2>4. outage' <= Minus(now, lastStamp') /\ Minus(now, lastStamp') <= outage' + MaxSkew
    BY <1>2, <2>1, <2>2, <2>3, Bounds DEF Age
  <2>5. sinceCycle <= Age(published.ms)
    BY <1>1, <1>2, <2>1, Bounds DEF IInv, Dated, Spaced
  <2> QED
    BY <2>1, <2>4, <2>5 DEF Spaced, Remembered, Age
<1>9. CASE Capture \/ PassOver \/ SnapshotBusy
  BY <1>9 DEF Capture, PassOver, SnapshotBusy, sensorVars, Spaced, Remembered, Age
<1>10. CASE \E c \in Scenes : SceneChanges(c)
  BY <1>10 DEF SceneChanges, loopVars, Spaced, Remembered, Age
<1>11. CASE UNCHANGED vars
  BY <1>11 DEF vars, Spaced, Remembered, Age
<1> QED
  BY <1>3, <1>4, <1>5, <1>6, <1>7, <1>8, <1>9, <1>10, <1>11 DEF Next, SensorTask, LoopTask

\* A fresh, valid and recent sample is never passed over, whatever the clock's width
\* and wherever it wraps: neither the allowance for a stamp ahead of sensor_now nor the
\* comparison with the stamp counted last loses it (update_age, fresh_sample).  The
\* snapshot has to follow millis() within one period, which the allowance of
\* sensor_hal.cpp:553-556 takes for granted: with a whole period between them the next
\* sample is reconstructed as the stamp of the one before it.
THEOREM FreshIsJudged ==
    ASSUME MaxSkew < SamplePeriod
    PROVE  Spec => FreshSampleJudged
<1>1. ASSUME IInv, Spaced, Remembered, PassOver
      PROVE  ~(published.valid /\ fresh /\ Minus(now, published.ms) <= MaxAge)
  <2> SUFFICES ASSUME published.valid, fresh, Age(published.ms) <= MaxAge PROVE FALSE
    BY DEF Age
  <2> DEFINE ms == published.ms
  <2>1. /\ now \in Stamps /\ sensorNow \in Stamps /\ lastStamp \in Stamps /\ ms \in Stamps
        /\ outage \in Nat /\ outage <= MaxOutage
    BY <1>1, RecordIs DEF IInv, TypeOK, Stamps
  <2>2. Age(ms) \in Nat /\ Age(sensorNow) \in Nat /\ Age(lastStamp) \in Nat
    BY <2>1, AgeIs
  <2>3. /\ published.seen /\ pass = "captured" /\ ~IsNew(sensorNow, published, lastStamp)
        /\ Age(ms) <= outage /\ Age(sensorNow) <= MaxSkew
    BY <1>1 DEF IInv, Dated, Seen, Skewed, PassOver
  <2>4. /\ Reconstructed(sensorNow, ms) \in {ms, sensorNow}
        /\ Reconstructed(sensorNow, ms) = sensorNow => Age(ms) <= Age(sensorNow)
        /\ AgeOf(sensorNow, ms) = IF Age(ms) <= Age(sensorNow) /\ Age(sensorNow) - Age(ms) <= SamplePeriod
                                  THEN 0 ELSE Minus(sensorNow, ms)
        /\ Age(ms) >= Age(sensorNow) => Minus(sensorNow, ms) = Age(ms) - Age(sensorNow)
    <3>1. Age(ms) <= MaxOutage
      BY <2>1, <2>2, <2>3, Bounds
    <3> QED
      BY <2>1, <2>3, <3>1, ReconstructedIs
  <2>5. AgeOf(sensorNow, ms) <= MaxAge
    BY <2>2, <2>3, <2>4, Bounds
  <2>6. lastStamp # Never /\ Reconstructed(sensorNow, ms) = lastStamp
    BY <2>3, <2>5 DEF IsNew, Usable
  <2>7. Age(ms) + SamplePeriod <= outage /\ outage <= Age(lastStamp)
    BY <1>1, <2>6 DEF Remembered
  <2>8. lastStamp # ms
    <3>1. SamplePeriod \in Nat /\ SamplePeriod > 0
      BY Bounds
    <3>2. Age(lastStamp) # Age(ms)
      BY <2>1, <2>2, <2>7, <3>1
    <3> QED
      BY <3>2
  <2>9. lastStamp # sensorNow
    BY <2>1, <2>2, <2>3, <2>7, Bounds
  <2> QED
    BY <2>4, <2>6, <2>8, <2>9
<1>2. Init => Spaced /\ Remembered
  BY DEF Init, Spaced, Remembered, NoRecord
<1>3. IInv /\ Spaced /\ Remembered /\ [Next]_vars /\ IInv' => Spaced' /\ Remembered'
  BY SpacedKept
<1>4. IInv /\ Spaced /\ Remembered /\ [Next]_vars
        => [PassOver => ~(published.valid /\ fresh /\ Minus(now, published.ms) <= MaxAge)]_vars
  BY <1>1
<1> QED
  BY Invariance, <1>2, <1>3, <1>4, PTL DEF Spec, FreshSampleJudged

------------------------------------------------------------------------------
\* The history.

\* Counter k, up to its limit, is the length of the run of class c that ends s.
Counts(k, limit, s, c) == \A n \in 1..limit : k >= n <=> RunEnding(s, Len(s), n, c)

CountersMeanRuns ==
    /\ Counts(counted.near,  ObstacleSamples, distances, "near")
    /\ Counts(counted.clear, ClearSamples,    distances, "clear")
    /\ Counts(counted.low,   ShutdownSamples, batteries, "low")

\* The inductive invariant.
HistoryInv == HistoryTypeOK /\ CountersMeanRuns /\ ObstacleMeaning /\ CriticalMeaning

------------------------------------------------------------------------------
\* The positions of a history that grows.
LEMMA IntervalGrows ==
    ASSUME NEW L \in Nat, NEW i \in 1..L
    PROVE  i..(L + 1) = (i..L) \cup {L + 1} /\ i..L \subseteq 1..L
OBVIOUS

\* A sample at the end leaves the runs that ended before it as they were.
LEMMA RunKept ==
    ASSUME NEW S, NEW s \in Seq(S), NEW e \in S, NEW c, NEW n \in Nat, NEW i \in 0..Len(s)
    PROVE  RunEnding(Append(s, e), i, n, c) <=> RunEnding(s, i, n, c)
<1>1. \A k \in (i - n + 1)..i : i >= n => Append(s, e)[k] = s[k]
  OBVIOUS
<1> QED
  BY <1>1 DEF RunEnding

\* The run that ends at the new sample is one longer than the run before it.
LEMMA RunGrows ==
    ASSUME NEW S, NEW s \in Seq(S), NEW e \in S, NEW c, NEW n \in Nat \ {0}
    PROVE  RunEnding(Append(s, e), Len(s) + 1, n, c)
             <=> e = c /\ (n = 1 \/ RunEnding(s, Len(s), n - 1, c))
<1> DEFINE t == Append(s, e)
           L == Len(s)
<1>1. t[L + 1] = e /\ (\A k \in 1..L : t[k] = s[k]) /\ L \in Nat
  OBVIOUS
<1> HIDE DEF t, L
<1>2. RunEnding(t, L + 1, n, c) <=>
        L + 1 >= n /\ (\A k \in (L + 2 - n)..(L + 1) : t[k] = c)
  BY <1>1 DEF RunEnding
<1>3. CASE n = 1
  BY <1>1, <1>2, <1>3 DEF t, L
<1>4. CASE n > 1
  <2>1. (L + 2 - n)..(L + 1) = ((L + 2 - n)..L) \cup {L + 1}
    BY <1>1, <1>4
  <2>2. ASSUME L + 1 >= n
        PROVE  (\A k \in (L + 2 - n)..(L + 1) : t[k] = c)
                 <=> e = c /\ (\A k \in (L + 2 - n)..L : s[k] = c)
    <3>1. \A k \in (L + 2 - n)..L : t[k] = s[k]
      BY <1>1, <2>2
    <3> QED
      BY <1>1, <2>1, <3>1
  <2>3. RunEnding(s, L, n - 1, c) <=>
          L >= n - 1 /\ (\A k \in (L + 2 - n)..L : s[k] = c)
    BY <1>1, <1>4 DEF RunEnding
  <2> QED
    BY <1>1, <1>2, <1>4, <2>2, <2>3 DEF t, L
<1> QED
  BY <1>3, <1>4

\* A counter that is advanced by its class and cleared by every other one keeps
\* its meaning (near_count_, clear_count_ and low_count_ of SafetyMonitor::update).
LEMMA CounterAdvances ==
    ASSUME NEW S, NEW s \in Seq(S), NEW e \in S, NEW c,
           NEW limit \in Nat \ {0}, NEW k \in 0..limit, Counts(k, limit, s, c)
    PROVE  Counts(IF e = c THEN CountTo(k, limit) ELSE 0, limit, Append(s, e), c)
<1> DEFINE k2 == IF e = c THEN CountTo(k, limit) ELSE 0
<1> SUFFICES ASSUME NEW n \in 1..limit
             PROVE  k2 >= n <=> RunEnding(Append(s, e), Len(s) + 1, n, c)
  BY DEF Counts
<1>1. RunEnding(Append(s, e), Len(s) + 1, n, c)
        <=> e = c /\ (n = 1 \/ RunEnding(s, Len(s), n - 1, c))
  BY RunGrows
<1>2. n > 1 => (k >= n - 1 <=> RunEnding(s, Len(s), n - 1, c))
  BY DEF Counts
<1>3. k2 >= n <=> e = c /\ (n = 1 \/ k >= n - 1)
  BY DEF CountTo
<1> QED
  BY <1>1, <1>2, <1>3

------------------------------------------------------------------------------
\* The monitor of a robot that has just booted.
LEMMA HistoryStarts == HistoryInit => HistoryInv
<1> SUFFICES ASSUME HistoryInit PROVE HistoryInv
  OBVIOUS
<1>1. HistoryTypeOK
  BY ThresholdAssumption DEF HistoryInit, HistoryTypeOK, InitMonitor, Monitor
<1>2. CountersMeanRuns
  BY ThresholdAssumption DEF HistoryInit, CountersMeanRuns, Counts, RunEnding, InitMonitor
<1>3. ObstacleMeaning /\ CriticalMeaning
  BY DEF HistoryInit, ObstacleMeaning, CriticalMeaning, InitMonitor
<1> QED
  BY <1>1, <1>2, <1>3 DEF HistoryInv

\* A distance sample (SafetyMonitor::update, the reflex stop).
LEMMA DistanceKeeps ==
    ASSUME HistoryInv, NEW c \in DistanceClass, Distance(c)
    PROVE  HistoryInv'
<1> DEFINE L == Len(distances)
           near  == IF c = "near"  THEN CountTo(counted.near, ObstacleSamples) ELSE 0
           clear == IF c = "clear" THEN CountTo(counted.clear, ClearSamples)   ELSE 0
<1>1. /\ distances \in Seq(DistanceClass) /\ batteries \in Seq(BatteryClass)
      /\ counted \in Monitor /\ L \in Nat
      /\ distances' = Append(distances, c) /\ batteries' = batteries
      /\ counted' = JudgeDistance(counted, c)
  BY DEF HistoryInv, HistoryTypeOK, Distance
<1>2. near \in 0..ObstacleSamples /\ clear \in 0..ClearSamples
  BY <1>1, ThresholdAssumption DEF Monitor, CountTo
<1>3. /\ counted'.near = near /\ counted'.clear = clear /\ counted'.low = counted.low
      /\ counted'.critical = counted.critical
      /\ counted'.obstacle
           = (near >= ObstacleSamples \/ (counted.obstacle /\ clear < ClearSamples))
      /\ counted' \in Monitor
  BY <1>1, <1>2 DEF JudgeDistance, Monitor
<1>4. HistoryTypeOK'
  BY <1>1, <1>3 DEF HistoryTypeOK
<1>5. CountersMeanRuns'
  <2>1. /\ Counts(counted.near, ObstacleSamples, distances, "near")
        /\ Counts(counted.clear, ClearSamples, distances, "clear")
    BY DEF HistoryInv, CountersMeanRuns
  <2>2. counted.near \in 0..ObstacleSamples /\ counted.clear \in 0..ClearSamples
    BY <1>1 DEF Monitor
  <2>3. Counts(near, ObstacleSamples, distances', "near")
    BY <1>1, <2>1, <2>2, CounterAdvances, ThresholdAssumption
  <2>4. Counts(clear, ClearSamples, distances', "clear")
    BY <1>1, <2>1, <2>2, CounterAdvances, ThresholdAssumption
  <2> QED
    BY <1>1, <1>3, <2>3, <2>4 DEF HistoryInv, CountersMeanRuns, Counts
<1>6. ObstacleMeaning'
  <2>1. Len(distances') = L + 1 /\ DOMAIN distances' = 1..(L + 1) /\ DOMAIN distances = 1..L
    BY <1>1
  <2>2. near >= ObstacleSamples <=> RunEnding(distances', L + 1, ObstacleSamples, "near")
    BY <1>3, <1>5, <2>1, ThresholdAssumption DEF CountersMeanRuns, Counts
  <2>3. clear < ClearSamples <=> ~RunEnding(distances', L + 1, ClearSamples, "clear")
    BY <1>2, <1>3, <1>5, <2>1, ThresholdAssumption DEF CountersMeanRuns, Counts
  <2>4. \A i \in 1..L :
          /\ RunEnding(distances', i, ObstacleSamples, "near")
               <=> RunEnding(distances, i, ObstacleSamples, "near")
          /\ RunEnding(distances', i, ClearSamples, "clear")
               <=> RunEnding(distances, i, ClearSamples, "clear")
    BY <1>1, RunKept, ThresholdAssumption
  <2>5. near >= ObstacleSamples => clear < ClearSamples
    BY ThresholdAssumption
  <2> DEFINE
        Engaged(i) == /\ RunEnding(distances', i, ObstacleSamples, "near")
                      /\ \A j \in i..(L + 1) : ~RunEnding(distances', j, ClearSamples, "clear")
        EngagedBefore(i) == /\ RunEnding(distances, i, ObstacleSamples, "near")
                            /\ \A j \in i..L : ~RunEnding(distances, j, ClearSamples, "clear")
  <2>6. Engaged(L + 1) <=> near >= ObstacleSamples
    BY <1>1, <2>2, <2>3, <2>5
  <2>7. \A i \in 1..L : Engaged(i) <=> EngagedBefore(i) /\ clear < ClearSamples
    <3> SUFFICES ASSUME NEW i \in 1..L
                 PROVE  Engaged(i) <=> EngagedBefore(i) /\ clear < ClearSamples
      OBVIOUS
    <3>1. i..(L + 1) = (i..L) \cup {L + 1} /\ i..L \subseteq 1..L
      BY <1>1, IntervalGrows
    <3> QED
      BY <2>3, <2>4, <3>1
  <2>8. counted.obstacle <=> \E i \in 1..L : EngagedBefore(i)
    BY <2>1 DEF HistoryInv, ObstacleMeaning
  <2>9. 1..(L + 1) = (1..L) \cup {L + 1}
    BY <1>1
  <2> HIDE DEF Engaged, EngagedBefore, near, clear
  <2>10. counted'.obstacle <=> \E i \in 1..(L + 1) : Engaged(i)
    BY <1>3, <2>6, <2>7, <2>8, <2>9
  <2> QED
    BY <2>1, <2>10 DEF ObstacleMeaning, Engaged
<1>7. CriticalMeaning'
  BY <1>1, <1>3 DEF HistoryInv, CriticalMeaning, RunEnding
<1> QED
  BY <1>4, <1>5, <1>6, <1>7 DEF HistoryInv

\* A battery sample (SafetyMonitor::update, the low battery).
LEMMA BatteryKeeps ==
    ASSUME HistoryInv, NEW c \in BatteryClass, Battery(c)
    PROVE  HistoryInv'
<1> DEFINE L == Len(batteries)
           low == IF c = "low" THEN CountTo(counted.low, ShutdownSamples) ELSE 0
<1>1. /\ distances \in Seq(DistanceClass) /\ batteries \in Seq(BatteryClass)
      /\ counted \in Monitor /\ L \in Nat
      /\ batteries' = Append(batteries, c) /\ distances' = distances
      /\ counted' = JudgeBattery(counted, c)
  BY DEF HistoryInv, HistoryTypeOK, Battery
<1>2. low \in 0..ShutdownSamples
  BY <1>1, ThresholdAssumption DEF Monitor, CountTo
<1>3. /\ counted'.near = counted.near /\ counted'.clear = counted.clear
      /\ counted'.low = low /\ counted'.obstacle = counted.obstacle
      /\ counted'.critical = (low >= ShutdownSamples \/ (counted.critical /\ c # "ok"))
      /\ counted' \in Monitor
  BY <1>1, <1>2 DEF JudgeBattery, Monitor
<1>4. HistoryTypeOK'
  BY <1>1, <1>3 DEF HistoryTypeOK
<1>5. CountersMeanRuns'
  <2>1. Counts(counted.low, ShutdownSamples, batteries, "low")
    BY DEF HistoryInv, CountersMeanRuns
  <2>2. counted.low \in 0..ShutdownSamples
    BY <1>1 DEF Monitor
  <2>3. Counts(low, ShutdownSamples, batteries', "low")
    BY <1>1, <2>1, <2>2, CounterAdvances, ThresholdAssumption
  <2> QED
    BY <1>1, <1>3, <2>3 DEF HistoryInv, CountersMeanRuns, Counts
<1>6. CriticalMeaning'
  <2>1. Len(batteries') = L + 1 /\ DOMAIN batteries' = 1..(L + 1) /\ DOMAIN batteries = 1..L
    BY <1>1
  <2>2. low >= ShutdownSamples <=> RunEnding(batteries', L + 1, ShutdownSamples, "low")
    BY <1>3, <1>5, <2>1, ThresholdAssumption DEF CountersMeanRuns, Counts
  <2>3. batteries'[L + 1] = c /\ \A i \in 1..L : batteries'[i] = batteries[i]
    BY <1>1
  <2>4. \A i \in 1..L : RunEnding(batteries', i, ShutdownSamples, "low")
                          <=> RunEnding(batteries, i, ShutdownSamples, "low")
    BY <1>1, RunKept, ThresholdAssumption
  <2>5. low >= ShutdownSamples => c # "ok"
    BY ThresholdAssumption
  <2> DEFINE
        Drained(i) == /\ RunEnding(batteries', i, ShutdownSamples, "low")
                      /\ \A j \in i..(L + 1) : batteries'[j] # "ok"
        DrainedBefore(i) == /\ RunEnding(batteries, i, ShutdownSamples, "low")
                            /\ \A j \in i..L : batteries[j] # "ok"
  <2>6. Drained(L + 1) <=> low >= ShutdownSamples
    BY <1>1, <2>2, <2>3, <2>5
  <2>7. \A i \in 1..L : Drained(i) <=> DrainedBefore(i) /\ c # "ok"
    <3> SUFFICES ASSUME NEW i \in 1..L
                 PROVE  Drained(i) <=> DrainedBefore(i) /\ c # "ok"
      OBVIOUS
    <3>1. i..(L + 1) = (i..L) \cup {L + 1} /\ i..L \subseteq 1..L
      BY <1>1, IntervalGrows
    <3> QED
      BY <2>3, <2>4, <3>1
  <2>8. counted.critical <=> \E i \in 1..L : DrainedBefore(i)
    BY <2>1 DEF HistoryInv, CriticalMeaning
  <2>9. 1..(L + 1) = (1..L) \cup {L + 1}
    BY <1>1
  <2> HIDE DEF Drained, DrainedBefore, low
  <2>10. counted'.critical <=> \E i \in 1..(L + 1) : Drained(i)
    BY <1>3, <2>6, <2>7, <2>8, <2>9
  <2> QED
    BY <2>1, <2>10 DEF CriticalMeaning, Drained
<1>7. ObstacleMeaning'
  BY <1>1, <1>3 DEF HistoryInv, ObstacleMeaning, RunEnding
<1> QED
  BY <1>4, <1>5, <1>6, <1>7 DEF HistoryInv

\* The invariant of the history holds in every behaviour.
THEOREM HistoryInvariance == HistorySpec => []HistoryInv
<1>1. HistoryInv /\ [HistoryNext]_historyVars => HistoryInv'
  <2> SUFFICES ASSUME HistoryInv, [HistoryNext]_historyVars PROVE HistoryInv'
    OBVIOUS
  <2>1. CASE UNCHANGED historyVars
    BY <2>1 DEF historyVars, HistoryInv, HistoryTypeOK, CountersMeanRuns, Counts, ObstacleMeaning, CriticalMeaning,
       RunEnding
  <2> QED
    BY <2>1, DistanceKeeps, BatteryKeeps DEF HistoryNext
<1> QED
  BY HistoryStarts, <1>1, PTL DEF HistorySpec

\* The counters stay within their thresholds (the uint8_t fields of SafetyMonitor).
THEOREM HistoryTyped == HistorySpec => []HistoryTypeOK
<1>1. HistoryInv => HistoryTypeOK
  BY DEF HistoryInv
<1> QED
  BY HistoryInvariance, <1>1, PTL

\* The reflex stop means what the history of samples says, for every history
\* (safety_monitor.h:28-38).
THEOREM ObstacleMeansRuns == HistorySpec => []ObstacleMeaning
<1>1. HistoryInv => ObstacleMeaning
  BY DEF HistoryInv
<1> QED
  BY HistoryInvariance, <1>1, PTL

\* The critical battery means what the history of samples says, for every history
\* (safety_monitor.h:78-82).
THEOREM CriticalMeansRuns == HistorySpec => []CriticalMeaning
<1>1. HistoryInv => CriticalMeaning
  BY DEF HistoryInv
<1> QED
  BY HistoryInvariance, <1>1, PTL
==============================================================================

------------------------------ MODULE HostAlarm ------------------------------
(***************************************************************************)
(* Alarm, failsafe and authentication of the host: the FSM (HostFsm) and   *)
(* the response level (Escalation) as src/host/runtime.py feeds them, with *)
(* the window of the passphrase (behavior/voice_auth.py), the badge        *)
(* (auth_judge.py), the missions (mission.py) and the fall suspicion       *)
(* (fall_monitor.py).                                                      *)
(*                                                                         *)
(* Two kinds of threads act.  The loop receives a datagram (Report) and    *)
(* runs Runtime.tick in pieces: confirmations (Drain), pictures (Sense),   *)
(* times of the level (Escalate), the opening of the window (Open),        *)
(* Behavior.tick (Behave), and the event it caused (Account).  Dashboard   *)
(* threads act between any two pieces.                                     *)
(*                                                                         *)
(* Time is counted where a property needs it, in the stay of the FSM;      *)
(* every other span (link, lost person, hold, warning, session) may or may *)
(* not be over at a tick.  What the cameras see is a free choice.          *)
(***************************************************************************)
EXTENDS HostFsm, Escalation, FiniteSets

CONSTANTS
    HoldAlarm,    \* fsm.hold_on_latched_alarm
    After,        \* ticks of each state timer
    Grace,        \* auth.verdict_grace_s, in ticks
    BadgeWait,    \* auth.timeout_s as the wait for the badge, in ticks
    MaxAttempts   \* auth.max_attempts

ASSUME AlarmAssumption ==
    /\ HoldAlarm \in BOOLEAN
    /\ {After, Grace, BadgeWait, MaxAttempts} \subseteq Nat \ {0}

VARIABLES
    mode,       \* Mission._mode
    host,       \* [fsm, lv, voice]: Behavior and Fsm, Escalation, VoiceAuthWindow (of
                \* _until_ms: no grant, or whether it was spoken in this AUTH_WAIT)
    settling,   \* Runtime._reset_pending
    asked,      \* Runtime._alarm_confirm_asked
    utter,      \* an utterance whose verdict is under way, spoken before ("old") or
                \* after ("new") the FSM last entered AUTH_WAIT
    loop        \* [at, trigger]: the piece of the tick that is next, and, between
                \* Behave and Account, Behavior._last_trigger as far as the level knows it

alarmVars == <<mode, host, settling, asked, utter, loop>>

Most == After + Grace + BadgeWait

\* FEATURES and ENABLED: who switches an event on.
GuardOnly   == {"AUTH_REQUIRED", "AUTH_OK", "AUTH_FAILED"}
FactoryOnly == {"ZONE_ARRIVED", "ZONE_CLEAR", "ZONE_CHANGED", "ZONE_ALARM_CONFIRMED",
                "PPE_VIOLATION", "PPE_SETTLED", "PERSON_DOWN", "FALL_SUSPECTED", "FALL_RESOLVED"}
Allows(m, e) == e \notin (IF m = "guard" THEN FactoryOnly ELSE GuardOnly)

\* The guard of set_alarm_guard: a failsafe holds only over an alarm.
Holding(h) == HoldAlarm /\ Latched(h.lv) /\ (h.lv.level = "L3" \/ h.lv.pending)

\* A new window with the grant of the last one.
VoiceReopened(v) == [v EXCEPT !.open = TRUE, !.tries = 0, !.deferred = FALSE]

VoiceOpened(v) == [v EXCEPT !.open = TRUE, !.tries = 0, !.deferred = FALSE,
                            !.granted = "no", !.ready = FALSE]
VoiceClosed(v) == [v EXCEPT !.open = FALSE, !.deferred = FALSE]

\* Runtime._apply; the window is opened by the caller (Open).
Apply(h, e) ==
    IF ~Allows(mode, e) THEN h
    ELSE LET f     == Handle(h.fsm, Holding(h), e)
             moved == f.state # h.fsm.state
         IN  [fsm   |-> f,
              lv    |-> NoteEvent(h.lv, e, moved),
              voice |-> IF h.fsm.state = "AUTH_WAIT" /\ moved THEN VoiceClosed(h.voice) ELSE h.voice]

ApplyIf(c, h, e) == IF c THEN Apply(h, e) ELSE h
Moved(h, k)      == h.fsm.state # k.fsm.state

Known(e)    == IF e \in RaisesAlarm \cup RaisesFailsafe THEN e ELSE "none"
Then(piece) == loop' = [at |-> piece, trigger |-> "none"]

\* A dashboard thread's event may overwrite _last_trigger before Account reads it.
Traced(h, e) ==
    IF loop.at = "account" /\ Moved(h, host) THEN [loop EXCEPT !.trigger = Known(e)] ELSE loop

AlarmInit ==
    /\ mode \in {"guard", "factory"}
    /\ host = [fsm |-> At("IDLE"), lv |-> Calm,
               voice |-> [open |-> FALSE, tries |-> 0, deferred |-> FALSE,
                          granted |-> "no", ready |-> FALSE]]
    /\ settling = FALSE /\ asked = FALSE /\ utter = "none"
    /\ loop = [at |-> "drain", trigger |-> "none"]

------------------------------------------------------------------------------
\* The loop: one datagram, then one tick.

\* note_robot_latch, _settle_reset, then the events of the report.
Report(open, e) ==
    /\ loop.at = "drain"
    /\ LET settles == settling /\ open
           h == ApplyIf(settles /\ host.fsm.state = "FAILSAFE", host, "RESET_CONFIRMED")
       IN  /\ settling' = (settling /\ ~(settles /\ h.fsm.state # "FAILSAFE"))
           /\ host' = ApplyIf(e # "none", h, e)
    /\ UNCHANGED <<mode, asked, utter, loop>>

\* Runtime.confirm_alarm; the alarm of a zone or of a fall has a way back of its own.
Confirmed(h, ownWay) ==
    IF h.lv.level # "L3" THEN h
    ELSE LET calm == [h EXCEPT !.lv = ConfirmAlarm(@)]
             own  == ApplyIf(ownWay # "none", calm, ownWay)
             back == IF ownWay = "FALL_RESOLVED"
                     THEN [own EXCEPT !.lv = NoteFallSuspect(@, FALSE)] ELSE own
         IN  ApplyIf(Holding(h), back, "ALARM_CONFIRMED")

\* FallMonitor.watch: the suspicion ends with the scene or with its time.
Watched(h, timeout) ==
    IF h.lv.suspect /\ (timeout \/ h.fsm.state \notin {"ALERT", "TRACK"})
    THEN [ApplyIf(h.fsm.state \in {"ALERT", "TRACK"}, h, "FALL_RESOLVED")
            EXCEPT !.lv = NoteFallSuspect(@, FALSE)]
    ELSE h

\* _drain_confirmations: request_reset when it was asked for, start_patrol likewise.
RequestReset ==
    /\ loop.at = "drain" /\ settling' = TRUE
    /\ UNCHANGED <<mode, host, asked, utter, loop>>

StartPatrol ==
    /\ loop.at = "drain" /\ ~settling
    /\ host' = Apply(host, "START_PATROL")
    /\ UNCHANGED <<mode, settling, asked, utter, loop>>

\* _drain_confirmations with confirm_alarm, then stand_down and FallMonitor.watch.
Drain(ownWay, timeout) ==
    /\ loop.at = "drain"
    /\ LET h == IF asked THEN Confirmed(host, ownWay) ELSE host
           k == IF h.fsm.state \in STANDBY THEN [h EXCEPT !.lv = StandDown(@)] ELSE h
       IN  host' = Watched(k, timeout)
    /\ asked' = FALSE /\ Then("sense")
    /\ UNCHANGED <<mode, settling, utter>>

Sensing == loop.at = "sense" /\ UNCHANGED <<mode, settling, asked, utter, loop>>

\* Judges that hand in one event of what they see, and _settle_unreachable_goal.
Sense(e) ==
    /\ Sensing
    /\ e \in {"PPE_VIOLATION", "PPE_SETTLED"} =>
         host.fsm.state = "ALERT" /\ ~Holding(host) /\ ~host.lv.suspect
    /\ LET h == Apply(host, e)
       IN  host' = IF e = "PPE_SETTLED" /\ Moved(h, host) THEN [h EXCEPT !.lv = SettlePpe(@)] ELSE h

\* note_person: outside of standby; in the factory a person alone raises nothing.
SeePerson ==
    /\ Sensing /\ mode = "guard" /\ host.fsm.state \notin STANDBY
    /\ host' = [host EXCEPT !.lv = NotePerson(@)]

\* FallMonitor.suspect.
SuspectFall ==
    /\ Sensing /\ mode = "factory" /\ ~host.lv.suspect
    /\ LET h == ApplyIf(host.fsm.state \notin {"ALERT", "TRACK"}, host, "FALL_SUSPECTED")
       IN  /\ h.fsm.state \in {"ALERT", "TRACK"}
           /\ host' = [h EXCEPT !.lv = NoteFallSuspect(@, TRUE)]

\* AuthJudge.judge: the badge counts after a right passphrase and after it was
\* away once; "all" says whether everybody in sight has shown one.
SeeBadge(outcome, all) ==
    /\ Sensing /\ mode = "guard" /\ host.fsm.state \notin STANDBY
    /\ outcome # "away" => host.voice.granted # "no" /\ host.voice.ready
    /\ LET h == CASE outcome = "away" ->
                       [host EXCEPT !.voice.ready = @ \/ host.voice.granted # "no"]
                  [] outcome = "right" -> Apply(host, "AUTH_OK")
                  [] outcome = "wrong" -> Apply(host, "AUTH_FAILED")
       IN  host' = [h EXCEPT !.lv = IF all /\ host.voice.granted # "no" THEN NoteAuthenticated(@)
                                    ELSE [@ EXCEPT !.auth = FALSE]]

\* What was said before AUTH_WAIT is entered anew.
Aged(u) == IF u = "new" THEN "old" ELSE u

\* Escalation.tick, then AuthJudge.request.
Escalate(warnDone, lost, held) ==
    /\ loop.at = "sense"
    /\ LET h == [host EXCEPT !.lv = Tick(@, mode = "guard", warnDone, lost, held)]
           k == ApplyIf(h.lv.level = "L2" /\ Can(h.fsm.state, "AUTH_REQUIRED"), h, "AUTH_REQUIRED")
       IN  /\ host' = IF Moved(h, k) THEN [k EXCEPT !.voice.granted = Aged(@)] ELSE k
           /\ Then(IF Moved(h, k) THEN "open" ELSE "behave")
           /\ utter' \in IF Moved(h, k) THEN {Aged(utter), "old"} ELSE {utter}
    /\ UNCHANGED <<mode, settling, asked>>

\* The end of _apply: the window opens unless somebody has already left AUTH_WAIT.
Open ==
    /\ loop.at = "open" /\ Then("behave")
    /\ host' = IF host.fsm.state = "AUTH_WAIT" THEN [host EXCEPT !.voice = VoiceOpened(@)] ELSE host
    /\ UNCHANGED <<mode, settling, asked, utter>>

HandleIf(c, f, hold, e) == IF c THEN Handle(f, hold, e) ELSE f

\* Behavior.tick: links, target, timers, and a sequence that may end the mission.
Behave(linkLost, targetLost, unreachable, expired) ==
    /\ loop.at = "behave"
    /\ LET hold == Holding(host)
           f0 == Elapse(host.fsm, Most)
           f1 == HandleIf(linkLost, f0, hold, "LINK_LOST")
           f2 == HandleIf(targetLost, f1, hold, "TARGET_LOST")
           f3 == WatchTimers(f2, hold, After)
           f4 == HandleIf(unreachable /\ ~hold /\ f3.state = "PATROL", f3, hold, "GOAL_UNREACHABLE")
       IN  /\ host' = [host EXCEPT !.fsm = f4, !.voice.granted = IF expired THEN "no" ELSE @]
           /\ loop' = [at |-> "account",
                       trigger |-> IF f4.state # f3.state THEN Known("GOAL_UNREACHABLE")
                                   ELSE IF f3.state # f2.state THEN Known(TimerEvent(f2.state))
                                   ELSE IF f2.state # f1.state THEN Known("TARGET_LOST")
                                   ELSE IF f1.state # f0.state THEN "LINK_LOST" ELSE "none"]
    /\ UNCHANGED <<mode, settling, asked, utter>>

\* Only a link loss is passed on to the level.
AccountLinkOnly ==
    /\ loop.at = "account" /\ Then("drain")
    /\ host' = [host EXCEPT !.lv = IF loop.trigger = "LINK_LOST"
                                   THEN NoteEvent(@, loop.trigger, TRUE) ELSE @]
    /\ UNCHANGED <<mode, settling, asked, utter>>

\* The rest of Runtime.tick: an event of Behavior.tick reaches the level here.  The
\* test that the state has changed passes whenever the trigger is one the level knows.
Account ==
    /\ loop.at = "account" /\ Then("drain")
    /\ host' = [host EXCEPT !.lv = NoteEvent(@, loop.trigger, TRUE)]
    /\ UNCHANGED <<mode, settling, asked, utter>>

------------------------------------------------------------------------------
\* Dashboard threads, between any two pieces of the tick.

\* apply_external.
Command(e) ==
    /\ host' = Apply(host, e) /\ loop' = Traced(host', e)
    /\ UNCHANGED <<mode, settling, asked, utter>>

\* ask_route_stop.
RouteStop ==
    /\ host.fsm.state # "IDLE" /\ Can(host.fsm.state, "MANUAL_ON")
    /\ host' = Apply(Apply(host, "MANUAL_ON"), "MANUAL_OFF") /\ loop' = Traced(host', "MANUAL_OFF")
    /\ UNCHANGED <<mode, settling, asked, utter>>

\* ask_alarm_confirm.
AskAlarmConfirm ==
    /\ asked' = TRUE
    /\ UNCHANGED <<mode, host, settling, utter, loop>>

\* The voice pipeline records one utterance at a time.  What is said outside of
\* AUTH_WAIT matters if it is still under way when AUTH_WAIT begins (Escalate).
Speak ==
    /\ utter = "none" /\ host.fsm.state = "AUTH_WAIT"
    /\ utter' = "new"
    /\ UNCHANGED <<mode, host, settling, asked, loop>>

\* The time an utterance was spoken at is not looked at.
StaleNever(lastWindow) == FALSE

\* _stale_against: before Open has run it compares with the last window's opening.
Stale(lastWindow) == host.voice.open /\ utter = "old" /\ (loop.at = "open" => lastWindow)

\* note_listening: the verdict is being made; the wait is prolonged once.
Listening(lastWindow) ==
    /\ utter # "none" /\ host.fsm.state = "AUTH_WAIT"
    /\ ~Stale(lastWindow) /\ ~host.voice.deferred
    /\ host' = [host EXCEPT !.fsm = Defer(@, Grace, Grace), !.voice.deferred = TRUE]
    /\ UNCHANGED <<mode, settling, asked, utter, loop>>

Granted(h) ==
    IF h.voice.granted # "no" THEN h
    ELSE [h EXCEPT !.voice.granted = utter, !.voice.ready = FALSE,
                   !.fsm = Defer(@, BadgeWait, Grace + BadgeWait)]

\* One attempt too many.
RejectedLate(h) ==
    LET n == h.voice.tries + 1
    IN  IF n <= MaxAttempts THEN [h EXCEPT !.voice.tries = n] ELSE Apply(h, "AUTH_FAILED")

\* One failure more than MaxAttempts - 1 is one too many, however many there were.
Rejected(h) ==
    LET n == h.voice.tries + 1
    IN  IF n < MaxAttempts THEN [h EXCEPT !.voice.tries = n] ELSE Apply(h, "AUTH_FAILED")

\* note_verdict.
Verdict(ok, lastWindow) ==
    /\ utter # "none" /\ utter' = "none"
    /\ LET counts == ~Stale(lastWindow) /\ host.fsm.state = "AUTH_WAIT" /\ mode = "guard"
       IN  host' = IF ~counts THEN host ELSE IF ok THEN Granted(host) ELSE Rejected(host)
    /\ loop' = Traced(host', "AUTH_FAILED")
    /\ UNCHANGED <<mode, settling, asked>>

------------------------------------------------------------------------------
Seen == {"PERSON_FOUND", "TARGET_OFF_CENTER", "TARGET_CENTERED", "PERSON_DOWN", "PPE_VIOLATION",
         "PPE_SETTLED", "ZONE_ARRIVED", "ZONE_CLEAR", "ZONE_CHANGED", "GOAL_UNREACHABLE"}

Pieces ==
    \/ \E way \in {"none", "ZONE_ALARM_CONFIRMED", "FALL_RESOLVED"}, t \in BOOLEAN : Drain(way, t)
    \/ \E w, l, h \in BOOLEAN : Escalate(w, l, h)
    \/ Open
    \/ \E l, t, u, x \in BOOLEAN : Behave(l, t, u, x)
    \/ Account

AlarmNext ==
    \/ Pieces
    \/ \E o \in BOOLEAN, e \in {"none", "ONBOARD_FAILSAFE", "ONBOARD_AVOID", "AVOID_CLEARED"} :
         Report(o, e)
    \/ RequestReset \/ StartPatrol
    \/ \E e \in Seen : Sense(e)
    \/ SeePerson \/ SuspectFall
    \/ \E o \in {"away", "right", "wrong"}, a \in BOOLEAN : SeeBadge(o, a)
    \/ \E e \in {"ESTOP", "MANUAL_ON", "MANUAL_OFF"} : Command(e)
    \/ RouteStop
    \/ AskAlarmConfirm \/ Speak
    \/ \E s \in BOOLEAN : Listening(s)
    \/ \E ok, s \in BOOLEAN : Verdict(ok, s)

\* The loop runs whatever the dashboard does; nothing else is promised.
AlarmSpec == AlarmInit /\ [][AlarmNext]_alarmVars /\ WF_alarmVars(Pieces)

------------------------------------------------------------------------------
\* Properties.

VoiceType == [open : BOOLEAN, tries : 0..(MaxAttempts - 1), deferred : BOOLEAN,
              granted : {"no", "old", "new"}, ready : BOOLEAN]
LoopType  == [at : {"drain", "sense", "open", "behave", "account"},
              trigger : {"none"} \cup RaisesAlarm \cup RaisesFailsafe]

\* Types, and the clocks within their bounds.
AlarmTypeOK ==
    /\ mode \in {"guard", "factory"}
    /\ host \in [fsm : FsmType(Most), lv : LevelType, voice : VoiceType]
    /\ settling \in BOOLEAN /\ asked \in BOOLEAN
    /\ utter \in {"none", "old", "new"} /\ loop \in LoopType

\* The FSM is in FAILSAFE exactly while the level is F, but between a link loss
\* found by Behavior.tick and the end of that tick: the two are told of the same
\* events by different calls (_apply, Runtime.tick), from several threads, and one
\* of them refuses what it cannot use.
FailsafeAgrees ==
    loop.at # "account" => (host.fsm.state = "FAILSAFE" <=> host.lv.level = "F")

Alarmed(l) == (l.level = "L3" /\ ~l.warning) \/ (l.level = "F" /\ l.pending)

\* An alarm, also one under the failsafe, waits for a person (ADR-26).
Latch == INSTANCE AlarmLatch WITH alarm <- Alarmed(host.lv), sealed <- host.lv.level = "F",
                                  asked <- asked, wanted <- settling
AlarmLatched == Latch!Spec

\* Who leaves AUTH_WAIT for ALERT, by time, by words or by badges, is alarmed about,
\* also when the event comes out of Behavior.tick and past _apply
\* (runtime.py, comment above note_event(trigger)).
FailureAlarms ==
    [][ /\ host.fsm.state = "AUTH_WAIT" \/ loop.trigger = "AUTH_FAILED"
        /\ host'.fsm.state = "ALERT" /\ loop'.at # "account"
        => Alarmed(host'.lv) ]_alarmVars

\* A verdict about words spoken before the robot asked neither grants nor counts
\* nor alarms, once the window is open (ADR-37, decision 3).
StaleVerdictIgnored ==
    [][ utter = "old" /\ utter' = "none" /\ loop.at # "open" => UNCHANGED host ]_alarmVars

\* require_both: AUTH_WAIT is passed by somebody who said the passphrase in this
\* very wait and showed a badge after it was away; nothing older is reused.  A held
\* alarm is passed by the person who confirms it.
BothFactors ==
    [][ host.fsm.state = "AUTH_WAIT" /\ host'.fsm.state = "PATROL"
        => \/ host.voice.granted = "new" /\ host.voice.ready
           \/ Holding(host) /\ asked ]_alarmVars

\* Whatever is said meanwhile, and however often, the wait for an answer ends, in
\* time or in an alarm that waits for a person.
AuthWaitEnds == host.fsm.state = "AUTH_WAIT" ~> host.fsm.state # "AUTH_WAIT" \/ Holding(host)
==============================================================================

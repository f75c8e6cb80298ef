------------------------------ MODULE Escalation ------------------------------
(***************************************************************************)
(* The response level of the host (src/host/behavior/escalation.py), as    *)
(* pure operators over a record.                                           *)
(*                                                                         *)
(*   level    Escalation._level; "F" is the failsafe                       *)
(*   warning  _warn_until_ms is set: a red eye without a latch             *)
(*   pending  _alarm_pending: an alarm lies under the failsafe             *)
(*   suspect  _fall_suspected                                              *)
(*   auth     _authenticated                                               *)
(*                                                                         *)
(* Whether a hold time, a warning or the five seconds without a person are *)
(* over is handed in by the caller of Tick.                                *)
(***************************************************************************)
EXTENDS Integers

Levels == {"L0", "L1", "L2", "L3", "F"}
Rank == [l \in Levels |-> CASE l = "L0" -> 0 [] l = "L1" -> 1 [] l = "L2" -> 2
                            [] l = "L3" -> 3 [] l = "F" -> 4]

LevelType == [level : Levels, warning : BOOLEAN, pending : BOOLEAN,
              suspect : BOOLEAN, auth : BOOLEAN]

Calm == [level |-> "L0", warning |-> FALSE, pending |-> FALSE, suspect |-> FALSE, auth |-> FALSE]

\* Only a person releases it; the red of a warning is not latched.
Latched(l) == l.level \in {"L3", "F"} /\ ~l.warning

Enter(l, to) ==
    [l EXCEPT !.level = to, !.warning = FALSE,
              !.pending = IF to = "L3" THEN TRUE ELSE IF to = "L0" THEN FALSE ELSE @]

Release(l) == Enter([l EXCEPT !.auth = FALSE], "L0")

\* An alarm that is stronger than the failsafe.
RaiseOverFailsafe(l, to) ==
    IF Rank[to] > Rank[l.level] \/ to = "L3" THEN Enter(l, to) ELSE l

\* Upwards only; an alarm during a warning latches it, one during F is remembered.
RaiseTo(l, to) ==
    IF Rank[to] > Rank[l.level] \/ (to = "L3" /\ l.warning) THEN Enter(l, to)
    ELSE IF l.level = "F" /\ to = "L3" THEN [l EXCEPT !.pending = TRUE] ELSE l

Warn(l) ==
    IF l.level \in {"L3", "F"} THEN l
    ELSE [Enter(l, "L3") EXCEPT !.pending = FALSE, !.warning = TRUE]

NoteAuthenticated(l) ==
    LET seen == [l EXCEPT !.auth = TRUE]
    IN  IF l.level = "L2" THEN Enter(seen, "L0") ELSE seen

\* A failsafe that takes the alarm underneath with it.
ConfirmFailsafeForgetting(l) == IF l.level # "F" THEN l ELSE Release(l)

ConfirmFailsafe(l) ==
    IF l.level # "F" THEN l ELSE IF l.pending THEN Enter(l, "L3") ELSE Release(l)

\* RAISED_BY.
RaisesAlarm    == {"AUTH_FAILED", "ZONE_CHANGED", "PERSON_DOWN"}
RaisesFailsafe == {"ONBOARD_FAILSAFE", "LINK_LOST", "ESTOP"}

\* note_event: raising does not ask whether the FSM moved, lowering does.
NoteEvent(l, e, accepted) ==
    IF e \in RaisesAlarm THEN RaiseTo(l, "L3")
    ELSE IF e \in RaisesFailsafe THEN RaiseTo(l, "F")
    ELSE IF e = "PPE_VIOLATION" THEN Warn(l)
    ELSE IF e = "AUTH_OK" /\ accepted THEN NoteAuthenticated(l)
    ELSE IF e = "RESET_CONFIRMED" /\ accepted THEN ConfirmFailsafe(l)
    ELSE l

NotePerson(l) == IF Latched(l) THEN l ELSE RaiseTo(l, "L1")

StandDown(l) == IF l.level \in {"L1", "L2"} THEN Release(l) ELSE l

SettlePpe(l) == IF l.level = "L1" THEN Release(l) ELSE l

NoteFallSuspect(l, active) ==
    LET s == [l EXCEPT !.suspect = active]
    IN  IF active THEN RaiseTo(s, "L1") ELSE IF l.level = "L1" THEN Release(s) ELSE s

\* tick: warnDone, lost and held say which of its times are over.
Tick(l, requireAuth, warnDone, lost, held) ==
    IF l.warning /\ warnDone
    THEN IF l.suspect THEN Enter(l, "L1") ELSE Release(l)
    ELSE IF lost /\ ~l.suspect /\ l.level \in {"L1", "L2"}
    THEN IF l.level = "L2" /\ requireAuth THEN RaiseTo(l, "L3") ELSE Release(l)
    ELSE IF requireAuth /\ l.level = "L1" /\ ~l.auth /\ ~l.suspect /\ held
    THEN RaiseTo(l, "L2") ELSE l

\* The only way down from L3; F is not released by it.
ConfirmAlarm(l) == IF l.level = "L3" THEN Release(l) ELSE l
==============================================================================

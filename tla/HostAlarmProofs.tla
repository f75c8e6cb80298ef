---------------------------- MODULE HostAlarmProofs ----------------------------
(***************************************************************************)
(* What HostAlarm keeps in every behaviour, for every length of its times  *)
(* and any number of attempts.                                             *)
(*                                                                         *)
(* The level comes first: how each operator of Escalation treats an alarm  *)
(* and the failsafe (Quiet, Keeps).  Then Apply, which feeds the FSM and   *)
(* the level with the same event (Agree).  Then the steps.                 *)
(***************************************************************************)
EXTENDS HostAlarm, ControlProofs

\* A warning is a red eye without an alarm; every other L3 is one, and remembers it.
LevelOK(l) ==
    /\ l \in LevelType
    /\ l.warning => l.level = "L3" /\ ~l.pending
    /\ l.level = "L3" /\ ~l.warning => l.pending
    /\ l.level \in {"L0", "L1", "L2"} => ~l.pending

\* Neither an alarm nor the failsafe comes or goes.
Quiet(l, m) == LevelOK(m) /\ (Alarmed(m) <=> Alarmed(l)) /\ (m.level = "F" <=> l.level = "F")

\* An alarm may come, and does not go.
Keeps(l, m) == LevelOK(m) /\ (Alarmed(l) => Alarmed(m)) /\ (m.level = "F" <=> l.level = "F")

LEMMA QuietKeeps == ASSUME NEW l, NEW m, Quiet(l, m) PROVE Keeps(l, m)
BY DEF Quiet, Keeps

LEMMA QuietSteps == ASSUME NEW l, NEW m, NEW n, Quiet(l, m), Quiet(m, n) PROVE Quiet(l, n)
BY DEF Quiet

LEMMA KeepsSteps == ASSUME NEW l, NEW m, NEW n, Keeps(l, m), Keeps(m, n) PROVE Keeps(l, n)
BY DEF Keeps

\* A level below the alarm is entered.
LEMMA EnterLow ==
    ASSUME NEW l, LevelOK(l), NEW to \in {"L0", "L1", "L2"}, l.level # "F", ~Alarmed(l)
    PROVE  Quiet(l, Enter(l, to)) /\ Enter(l, to).suspect = l.suspect
BY DEF LevelOK, Quiet, Alarmed, Enter, LevelType, Levels

LEMMA EnterAlarm ==
    ASSUME NEW l, LevelOK(l), l.level # "F"
    PROVE  Keeps(l, Enter(l, "L3")) /\ Alarmed(Enter(l, "L3"))
BY DEF LevelOK, Keeps, Alarmed, Enter, LevelType, Levels

LEMMA EnterFailsafe ==
    ASSUME NEW l, LevelOK(l)
    PROVE  /\ LevelOK(Enter(l, "F")) /\ Enter(l, "F").level = "F"
           /\ Alarmed(Enter(l, "F")) <=> Alarmed(l)
BY DEF LevelOK, Alarmed, Enter, LevelType, Levels

LEMMA ReleaseQuiet ==
    ASSUME NEW l, LevelOK(l), l.level # "F", ~Alarmed(l)
    PROVE  Quiet(l, Release(l))
BY DEF LevelOK, Quiet, Alarmed, Enter, Release, LevelType, Levels

\* RaiseTo never forgets an alarm, and enters F only when it is asked to.
LEMMA RaiseLow ==
    ASSUME NEW l, LevelOK(l), NEW to \in {"L1", "L2"}
    PROVE  Quiet(l, RaiseTo(l, to))
<1>1. CASE Rank[to] > Rank[l.level]
  <2>1. l.level \in {"L0", "L1"}
    BY <1>1 DEF Rank, Levels, LevelOK, LevelType
  <2>2. l.level # "F" /\ ~Alarmed(l) /\ to \in {"L0", "L1", "L2"}
    BY <2>1 DEF Alarmed
  <2> QED  BY <1>1, <2>2, EnterLow DEF RaiseTo
<1>2. CASE ~(Rank[to] > Rank[l.level])
  <2>1. RaiseTo(l, to) = l
    BY <1>2 DEF RaiseTo
  <2> QED  BY <2>1 DEF Quiet
<1> QED  BY <1>1, <1>2

LEMMA RaiseAlarm ==
    ASSUME NEW l, LevelOK(l)
    PROVE  Keeps(l, RaiseTo(l, "L3")) /\ Alarmed(RaiseTo(l, "L3"))
<1>1. CASE l.level # "F" /\ (l.level # "L3" \/ l.warning)
  <2>1. Rank["L3"] > Rank[l.level] \/ l.warning
    BY <1>1 DEF Rank, Levels, LevelOK, LevelType
  <2> QED  BY <1>1, <2>1, EnterAlarm DEF RaiseTo
<1>2. CASE l.level = "L3" /\ ~l.warning
  <2>1. RaiseTo(l, "L3") = l
    BY <1>2 DEF RaiseTo, Rank, Levels
  <2> QED  BY <1>2, <2>1 DEF Keeps, Alarmed
<1>3. CASE l.level = "F"
  <2>1. ~(Rank["L3"] > Rank[l.level]) /\ ~l.warning
    BY <1>3 DEF Rank, Levels, LevelOK
  <2>2. RaiseTo(l, "L3") = [l EXCEPT !.pending = TRUE]
    BY <1>3, <2>1 DEF RaiseTo
  <2> QED  BY <1>3, <2>2 DEF Keeps, LevelOK, LevelType, Alarmed
<1> QED  BY <1>1, <1>2, <1>3

LEMMA RaiseFailsafe ==
    ASSUME NEW l, LevelOK(l)
    PROVE  /\ LevelOK(RaiseTo(l, "F")) /\ RaiseTo(l, "F").level = "F"
           /\ Alarmed(RaiseTo(l, "F")) <=> Alarmed(l)
<1>1. CASE l.level # "F"
  <2>1. Rank["F"] > Rank[l.level]
    BY <1>1 DEF Rank, Levels, LevelOK, LevelType
  <2> QED  BY <2>1, EnterFailsafe DEF RaiseTo
<1>2. CASE l.level = "F"
  <2>1. RaiseTo(l, "F") = l
    BY <1>2 DEF RaiseTo, Rank, Levels, LevelOK
  <2> QED  BY <1>2, <2>1
<1> QED  BY <1>1, <1>2

\* The quiet operators.
LEMMA LevelQuiet ==
    ASSUME NEW l, LevelOK(l)
    PROVE  /\ Quiet(l, l) /\ Quiet(l, Warn(l)) /\ Quiet(l, NoteAuthenticated(l))
           /\ Quiet(l, NotePerson(l)) /\ Quiet(l, StandDown(l)) /\ Quiet(l, SettlePpe(l))
           /\ \A b \in BOOLEAN : Quiet(l, NoteFallSuspect(l, b))
           /\ Quiet(l, [l EXCEPT !.auth = FALSE])
<1>1. Quiet(l, l)
  BY DEF Quiet
<1>2. Quiet(l, Warn(l))
  BY DEF Warn, Enter, Quiet, LevelOK, LevelType, Levels, Alarmed
<1>3. Quiet(l, NoteAuthenticated(l))
  <2> DEFINE seen == [l EXCEPT !.auth = TRUE]
  <2>1. Quiet(l, seen) /\ LevelOK(seen) /\ seen.level = l.level
    BY DEF Quiet, LevelOK, LevelType, Alarmed
  <2> HIDE DEF seen
  <2>2. CASE l.level = "L2"
    <3>1. seen.level # "F" /\ ~Alarmed(seen)
      BY <2>1, <2>2 DEF Alarmed
    <3>2. Quiet(seen, Enter(seen, "L0"))
      BY <2>1, <3>1, EnterLow
    <3> QED  BY <2>1, <2>2, <3>2, QuietSteps DEF NoteAuthenticated, seen
  <2>3. CASE l.level # "L2"
    BY <2>1, <2>3 DEF NoteAuthenticated, seen
  <2> QED  BY <2>2, <2>3
<1>4. Quiet(l, NotePerson(l))
  BY <1>1, RaiseLow DEF NotePerson
<1>5. Quiet(l, StandDown(l)) /\ Quiet(l, SettlePpe(l))
  BY <1>1, ReleaseQuiet DEF StandDown, SettlePpe, Alarmed
<1>6. ASSUME NEW b \in BOOLEAN PROVE Quiet(l, NoteFallSuspect(l, b))
  <2> DEFINE s == [l EXCEPT !.suspect = b]
  <2>1. Quiet(l, s) /\ LevelOK(s) /\ s.level = l.level
    BY DEF Quiet, LevelOK, LevelType, Alarmed
  <2> HIDE DEF s
  <2>2. CASE b
    BY <2>1, <2>2, RaiseLow, QuietSteps DEF NoteFallSuspect, s
  <2>3. CASE ~b /\ l.level = "L1"
    <3>1. Quiet(s, Release(s))
      BY <2>1, <2>3, ReleaseQuiet DEF Alarmed
    <3> QED  BY <2>1, <2>3, <3>1, QuietSteps DEF NoteFallSuspect, s
  <2>4. CASE ~b /\ l.level # "L1"
    BY <2>1, <2>4 DEF NoteFallSuspect, s
  <2> QED  BY <2>2, <2>3, <2>4
<1>7. Quiet(l, [l EXCEPT !.auth = FALSE])
  BY DEF Quiet, LevelOK, LevelType, Alarmed
<1> QED  BY <1>1, <1>2, <1>3, <1>4, <1>5, <1>6, <1>7

\* The times of the level: L2 without an answer becomes an alarm.
LEMMA TickKeeps ==
    ASSUME NEW l, LevelOK(l), NEW r, NEW w, NEW g, NEW h
    PROVE  Keeps(l, Tick(l, r, w, g, h))
<1>1. CASE l.warning /\ w
  <2>1. l.level # "F" /\ ~Alarmed(l)
    BY <1>1 DEF LevelOK, Alarmed
  <2>2. Quiet(l, Enter(l, "L1")) /\ Quiet(l, Release(l))
    BY <2>1, EnterLow, ReleaseQuiet
  <2> QED  BY <1>1, <2>2, QuietKeeps DEF Tick
<1>2. CASE ~(l.warning /\ w) /\ g /\ ~l.suspect /\ l.level \in {"L1", "L2"}
  <2>1. Quiet(l, Release(l)) /\ Keeps(l, RaiseTo(l, "L3"))
    BY <1>2, ReleaseQuiet, RaiseAlarm DEF Alarmed
  <2> QED  BY <1>2, <2>1, QuietKeeps DEF Tick
<1>3. CASE ~(l.warning /\ w) /\ ~(g /\ ~l.suspect /\ l.level \in {"L1", "L2"})
  <2>1. Quiet(l, RaiseTo(l, "L2")) /\ Quiet(l, l)
    BY RaiseLow, LevelQuiet
  <2> QED  BY <1>3, <2>1, QuietKeeps DEF Tick
<1> QED  BY <1>1, <1>2, <1>3

\* The answer to a confirmation: F is as before, and else the alarm is over.
LEMMA ConfirmClears ==
    ASSUME NEW l, LevelOK(l)
    PROVE  LET m == ConfirmAlarm(l)
           IN  /\ LevelOK(m) /\ (m.level = "F" <=> l.level = "F")
               /\ Alarmed(m) <=> Alarmed(l) /\ l.level = "F"
BY DEF ConfirmAlarm, Release, Enter, LevelOK, LevelType, Levels, Alarmed

\* The failsafe is left for the alarm underneath it.
LEMMA FailsafeUnveils ==
    ASSUME NEW l, LevelOK(l)
    PROVE  LET m == ConfirmFailsafe(l)
           IN  LevelOK(m) /\ m.level # "F" /\ (Alarmed(m) <=> Alarmed(l))
BY DEF ConfirmFailsafe, Release, Enter, LevelOK, LevelType, Levels, Alarmed

\* What one event does to the level.
LEMMA EventLevel ==
    ASSUME NEW l, LevelOK(l), NEW e, NEW a
    PROVE  LET m == NoteEvent(l, e, a)
           IN  /\ LevelOK(m) /\ (Alarmed(l) => Alarmed(m))
               /\ e \in RaisesAlarm => Alarmed(m)
               /\ e \notin RaisesAlarm => (Alarmed(m) <=> Alarmed(l))
               /\ e \in RaisesFailsafe => m.level = "F"
               /\ e \notin RaisesFailsafe /\ ~(e = "RESET_CONFIRMED" /\ a)
                  => (m.level = "F" <=> l.level = "F")
               /\ e = "RESET_CONFIRMED" /\ a => m.level # "F"
<1>0. /\ RaisesAlarm \cap RaisesFailsafe = {}
      /\ {"PPE_VIOLATION", "AUTH_OK", "RESET_CONFIRMED"} \cap (RaisesAlarm \cup RaisesFailsafe) = {}
  BY DEF RaisesAlarm, RaisesFailsafe
<1>1. CASE e \in RaisesAlarm
  <2>1. NoteEvent(l, e, a) = RaiseTo(l, "L3")
    BY <1>1 DEF NoteEvent
  <2> QED  BY <1>0, <1>1, <2>1, RaiseAlarm DEF Keeps
<1>2. CASE e \in RaisesFailsafe
  <2>1. NoteEvent(l, e, a) = RaiseTo(l, "F")
    BY <1>0, <1>2 DEF NoteEvent
  <2> QED  BY <1>0, <1>2, <2>1, RaiseFailsafe
<1>3. CASE e = "RESET_CONFIRMED" /\ a
  <2>1. NoteEvent(l, e, a) = ConfirmFailsafe(l)
    BY <1>3 DEF NoteEvent, RaisesAlarm, RaisesFailsafe
  <2> QED  BY <1>0, <1>3, <2>1, FailsafeUnveils
<1>4. CASE e \notin RaisesAlarm \cup RaisesFailsafe /\ ~(e = "RESET_CONFIRMED" /\ a)
  <2>1. NoteEvent(l, e, a) \in {l, Warn(l), NoteAuthenticated(l)}
    BY <1>4 DEF NoteEvent
  <2>2. Quiet(l, NoteEvent(l, e, a))
    BY <2>1, LevelQuiet
  <2> QED  BY <1>4, <2>2 DEF Quiet
<1> QED  BY <1>1, <1>2, <1>3, <1>4

------------------------------------------------------------------------------
\* The FSM and the level together.

HostType  == [fsm : FsmType(Most), lv : LevelType, voice : VoiceType]
HostOK(h) == h \in HostType /\ LevelOK(h.lv)

Agree(h) == h.fsm.state = "FAILSAFE" <=> h.lv.level = "F"

\* In AUTH_WAIT the window is open, and a grant was spoken in this wait.
Window(h) == h.fsm.state = "AUTH_WAIT" => h.voice.open /\ h.voice.granted \in {"no", "new"}

LEMMA MostNat == Most \in Nat /\ Grace + BadgeWait <= Most /\ Grace <= Most
BY AlarmAssumption DEF Most

LEMMA HandleType ==
    ASSUME NEW f \in FsmType(Most), NEW hold, NEW e
    PROVE  Handle(f, hold, e) \in FsmType(Most)
<1> DEFINE k == Handle(f, hold, e)
<1>1. CASE k = f
  BY <1>1
<1>2. CASE Can(f.state, e) /\ k = At(Table[<<f.state, e>>])
  <2>1. Table[<<f.state, e>>] \in States
    BY <1>2, CanStates
  <2> QED  BY <1>2, <2>1, MostNat DEF At, FsmType
<1> QED  BY <1>1, <1>2, HandleMoves

LEMMA VoiceTypes ==
    ASSUME NEW v \in VoiceType
    PROVE  VoiceOpened(v) \in VoiceType /\ VoiceClosed(v) \in VoiceType
<1>1. 0 \in 0..(MaxAttempts - 1)
  BY AlarmAssumption
<1> QED  BY <1>1 DEF VoiceType, VoiceOpened, VoiceClosed

\* Two ways of Apply: the mission has switched the event off, or FSM, level and
\* window are told of it.
LEMMA ApplyCases ==
    ASSUME NEW h, HostOK(h), NEW e, NEW k, k = Apply(h, e)
    PROVE  \/ k = h /\ ~Allows(mode, e)
           \/ /\ Allows(mode, e) /\ k.fsm = Handle(h.fsm, Holding(h), e)
              /\ k.lv = NoteEvent(h.lv, e, k.fsm.state # h.fsm.state)
              /\ k.voice = IF h.fsm.state = "AUTH_WAIT" /\ k.fsm.state # h.fsm.state
                           THEN VoiceClosed(h.voice) ELSE h.voice
              /\ k = [fsm |-> k.fsm, lv |-> k.lv, voice |-> k.voice]
<1> DEFINE f == Handle(h.fsm, Holding(h), e)
           l == NoteEvent(h.lv, e, f.state # h.fsm.state)
           v == IF h.fsm.state = "AUTH_WAIT" /\ f.state # h.fsm.state
                THEN VoiceClosed(h.voice) ELSE h.voice
<1>1. k = IF ~Allows(mode, e) THEN h ELSE [fsm |-> f, lv |-> l, voice |-> v]
  BY Zenon DEF Apply
<1>2. CASE ~Allows(mode, e)
  BY <1>1, <1>2
<1>3. CASE Allows(mode, e)
  <2>1. k = [fsm |-> f, lv |-> l, voice |-> v]
    BY <1>1, <1>3
  <2>2. k.fsm = f /\ k.lv = l /\ k.voice = v
    <3> HIDE DEF f, l, v
    <3> QED  BY <2>1
  <2>3. k = [fsm |-> k.fsm, lv |-> k.lv, voice |-> k.voice]
    <3> HIDE DEF f, l, v
    <3> QED  BY <2>1, <2>2
  <2>4. /\ k.fsm = Handle(h.fsm, Holding(h), e)
        /\ k.lv = NoteEvent(h.lv, e, k.fsm.state # h.fsm.state)
        /\ k.voice = IF h.fsm.state = "AUTH_WAIT" /\ k.fsm.state # h.fsm.state
                     THEN VoiceClosed(h.voice) ELSE h.voice
    BY <2>2, Zenon
  <2> QED  BY <1>3, <2>3, <2>4
<1> QED  BY <1>2, <1>3

LEMMA ApplyOK ==
    ASSUME NEW h, HostOK(h), NEW e
    PROVE  HostOK(Apply(h, e))
<1> DEFINE k == Apply(h, e)
<1>1. h.fsm \in FsmType(Most) /\ h.lv \in LevelType /\ h.voice \in VoiceType /\ LevelOK(h.lv)
  BY DEF HostOK, HostType
<1>2. CASE k = h
  BY <1>2
<1>3. CASE /\ k.fsm = Handle(h.fsm, Holding(h), e)
           /\ k.lv = NoteEvent(h.lv, e, k.fsm.state # h.fsm.state)
           /\ k.voice = IF h.fsm.state = "AUTH_WAIT" /\ k.fsm.state # h.fsm.state
                        THEN VoiceClosed(h.voice) ELSE h.voice
           /\ k = [fsm |-> k.fsm, lv |-> k.lv, voice |-> k.voice]
  <2>1. k.fsm \in FsmType(Most)
    BY <1>1, <1>3, HandleType
  <2>2. LevelOK(k.lv)
    BY <1>1, <1>3, EventLevel
  <2>3. k.voice \in VoiceType
    BY <1>1, <1>3, VoiceTypes
  <2>4. k.lv \in LevelType
    BY <2>2 DEF LevelOK
  <2>5. k \in HostType
    <3> HIDE DEF k
    <3> QED  BY <1>3, <2>1, <2>3, <2>4 DEF HostType
  <2> QED  BY <2>2, <2>5 DEF HostOK
<1> QED  BY <1>2, <1>3, ApplyCases

\* The failsafe is one for both, and is entered by what raises it.
LEMMA ApplyAgrees ==
    ASSUME NEW h, HostOK(h), Agree(h), NEW e
    PROVE  /\ Agree(Apply(h, e))
           /\ e \in RaisesFailsafe => Apply(h, e).fsm.state = "FAILSAFE"
           /\ e # "RESET_CONFIRMED" /\ h.fsm.state = "FAILSAFE" => Apply(h, e).fsm.state = "FAILSAFE"
<1> DEFINE k == Apply(h, e)
<1>1. h.fsm.state \in States /\ LevelOK(h.lv)
  BY DEF HostOK, HostType, FsmType
<1>2. CASE k = h /\ ~Allows(mode, e)
  <2>1. e \notin RaisesFailsafe
    BY <1>2 DEF Allows, GuardOnly, FactoryOnly, RaisesFailsafe
  <2> QED  BY <1>2, <2>1
<1>3. CASE k.fsm = Handle(h.fsm, Holding(h), e) /\ k.lv = NoteEvent(h.lv, e, k.fsm.state # h.fsm.state)
  <2>1. CASE e \in RaisesFailsafe
    <3>1. k.lv.level = "F"
      BY <1>1, <1>3, <2>1, EventLevel
    <3>2. Can(h.fsm.state, e) <=> h.fsm.state # "FAILSAFE"
      BY <1>1, <2>1, CanSeal DEF RaisesFailsafe
    <3>3. e \in PassesHold
      BY <2>1 DEF RaisesFailsafe, PassesHold
    <3>4. CASE h.fsm.state = "FAILSAFE"
      <4>1. k.fsm = h.fsm
        BY <1>3, <3>2, <3>4, HandleMoves
      <4> QED  BY <3>1, <3>4, <4>1 DEF Agree
    <3>5. CASE h.fsm.state # "FAILSAFE"
      <4>1. Can(h.fsm.state, e) /\ k.fsm.state = Table[<<h.fsm.state, e>>]
        BY <1>3, <3>2, <3>3, <3>5, HandleMoves
      <4>2. k.fsm.state = "FAILSAFE"
        BY <2>1, <4>1, CanFailsafe DEF RaisesFailsafe
      <4> QED  BY <3>1, <3>5, <4>2 DEF Agree
    <3> QED  BY <3>4, <3>5
  <2>2. CASE e = "RESET_CONFIRMED" /\ k.fsm.state # h.fsm.state
    <3>1. k.lv.level # "F"
      BY <1>1, <1>3, <2>2, EventLevel
    <3>2. Can(h.fsm.state, e) /\ k.fsm.state = Table[<<h.fsm.state, e>>]
      BY <1>3, <2>2, HandleMoves
    <3>3. k.fsm.state # "FAILSAFE"
      BY <2>2, <3>2, CanFailsafe
    <3> QED  BY <2>2, <3>1, <3>3 DEF Agree, RaisesFailsafe
  <2>3. CASE e \notin RaisesFailsafe /\ ~(e = "RESET_CONFIRMED" /\ k.fsm.state # h.fsm.state)
    <3>1. k.lv.level = "F" <=> h.lv.level = "F"
      <4> DEFINE a == k.fsm.state # h.fsm.state
      <4>1. LevelOK(h.lv) /\ k.lv = NoteEvent(h.lv, e, a)
        BY <1>1, <1>3
      <4>2. e \notin RaisesFailsafe /\ ~(e = "RESET_CONFIRMED" /\ a)
        BY <2>3
      <4> HIDE DEF a
      <4> QED  BY <4>1, <4>2, EventLevel
    <3>2. k.fsm.state = "FAILSAFE" <=> h.fsm.state = "FAILSAFE"
      <4>1. CASE k.fsm = h.fsm
        BY <4>1
      <4>2. CASE /\ Can(h.fsm.state, e) /\ k.fsm.state = Table[<<h.fsm.state, e>>]
                 /\ k.fsm.state # h.fsm.state
        <5>1. k.fsm.state # "FAILSAFE"
          BY <2>3, <4>2, CanFailsafe DEF RaisesFailsafe
        <5>2. h.fsm.state # "FAILSAFE"
          BY <2>3, <4>2, CanSealed
        <5> QED  BY <5>1, <5>2
      <4> QED  BY <1>3, <4>1, <4>2, HandleMoves DEF Can
    <3> QED  BY <2>3, <3>1, <3>2 DEF Agree
  <2> QED  BY <2>1, <2>2, <2>3
<1> QED  BY <1>2, <1>3, ApplyCases

\* No event takes an alarm away, and only the failures raise one.
LEMMA ApplyAlarms ==
    ASSUME NEW h, HostOK(h), NEW e
    PROVE  /\ Alarmed(h.lv) => Alarmed(Apply(h, e).lv)
           /\ e \notin RaisesAlarm => (Alarmed(Apply(h, e).lv) <=> Alarmed(h.lv))
<1> DEFINE k == Apply(h, e)
<1>1. LevelOK(h.lv)
  BY DEF HostOK
<1>2. CASE k = h
  BY <1>2
<1>3. CASE k.lv = NoteEvent(h.lv, e, k.fsm.state # h.fsm.state)
  BY <1>1, <1>3, EventLevel
<1> QED  BY <1>2, <1>3, ApplyCases

\* An event opens no wait but AUTH_REQUIRED, and leaves the window of a wait alone.
LEMMA ApplyWindow ==
    ASSUME NEW h, HostOK(h), NEW e
    PROVE  LET k == Apply(h, e)
           IN  /\ e # "AUTH_REQUIRED" /\ Window(h) => Window(k)
               /\ k.fsm.state = "AUTH_WAIT" => e = "AUTH_REQUIRED" \/ h.fsm.state = "AUTH_WAIT"
               /\ h.fsm.state = "AUTH_WAIT" /\ k.fsm.state = "ALERT" => Alarmed(k.lv)
               /\ h.fsm.state = "AUTH_WAIT" /\ k.fsm.state = "PATROL" => e \in {"AUTH_OK", "ALARM_CONFIRMED"}
<1> DEFINE k == Apply(h, e)
<1>1. LevelOK(h.lv)
  BY DEF HostOK
<1>2. CASE k = h
  BY <1>2
<1>3. CASE /\ k.fsm = Handle(h.fsm, Holding(h), e)
           /\ k.lv = NoteEvent(h.lv, e, k.fsm.state # h.fsm.state)
           /\ k.voice = IF h.fsm.state = "AUTH_WAIT" /\ k.fsm.state # h.fsm.state
                        THEN VoiceClosed(h.voice) ELSE h.voice
  <2>1. CASE k.fsm = h.fsm
    BY <1>3, <2>1 DEF Window
  <2>2. CASE Can(h.fsm.state, e) /\ k.fsm.state = Table[<<h.fsm.state, e>>]
    <3>1. k.fsm.state # h.fsm.state
      BY <2>2 DEF Can
    <3>2. k.fsm.state = "AUTH_WAIT" => e = "AUTH_REQUIRED"
      BY <2>2, CanAuthWait
    <3>3. h.fsm.state = "AUTH_WAIT" /\ k.fsm.state = "ALERT" => Alarmed(k.lv)
      BY <1>1, <1>3, <2>2, CanAuthWait, EventLevel DEF RaisesAlarm
    <3>4. h.fsm.state = "AUTH_WAIT" /\ k.fsm.state = "PATROL" => e \in {"AUTH_OK", "ALARM_CONFIRMED"}
      BY <2>2, CanAuthWait
    <3> QED  BY <3>1, <3>2, <3>3, <3>4 DEF Window
  <2> QED  BY <1>3, <2>1, <2>2, HandleMoves
<1> QED  BY <1>2, <1>3, ApplyCases

------------------------------------------------------------------------------
\* What the pieces of a tick are made of.

Good(h) == HostOK(h) /\ Agree(h) /\ Window(h)

\* No alarm and no failsafe is forgotten; Still also says that none has come.
Forth(h, k) == (Alarmed(h.lv) => Alarmed(k.lv)) /\ (h.lv.level = "F" => k.lv.level = "F")
Still(h, k) == (Alarmed(k.lv) <=> Alarmed(h.lv)) /\ (k.lv.level = "F" <=> h.lv.level = "F")

LEMMA ApplyGood ==
    ASSUME NEW h, Good(h), NEW e, e # "AUTH_REQUIRED"
    PROVE  Good(Apply(h, e))
BY ApplyOK, ApplyAgrees, ApplyWindow DEF Good

LEMMA ApplyForth ==
    ASSUME NEW h, HostOK(h), NEW e, e # "RESET_CONFIRMED"
    PROVE  /\ Forth(h, Apply(h, e))
           /\ e \notin RaisesAlarm \cup RaisesFailsafe => Still(h, Apply(h, e))
<1> DEFINE k == Apply(h, e)
           a == k.fsm.state # h.fsm.state
<1>1. LevelOK(h.lv)
  BY DEF HostOK
<1>2. CASE k = h
  BY <1>2 DEF Forth, Still
<1>3. CASE k.lv = NoteEvent(h.lv, e, a)
  <2> HIDE DEF a
  <2>1. e \in RaisesFailsafe => k.lv.level = "F"
    BY <1>1, <1>3, EventLevel
  <2>2. e \notin RaisesFailsafe => (k.lv.level = "F" <=> h.lv.level = "F")
    BY <1>1, <1>3, EventLevel
  <2> QED  BY <1>1, <2>1, <2>2, ApplyAlarms DEF Forth, Still
<1> QED  BY <1>2, <1>3, ApplyCases

\* The FSM stays, or takes a transition.
LEMMA ApplyState ==
    ASSUME NEW h, HostOK(h), NEW e
    PROVE  \/ Apply(h, e).fsm = h.fsm
           \/ Can(h.fsm.state, e) /\ Apply(h, e).fsm.state = Table[<<h.fsm.state, e>>]
<1>1. Apply(h, e) = h \/ Apply(h, e).fsm = Handle(h.fsm, Holding(h), e)
  BY ApplyCases
<1>2. \/ Handle(h.fsm, Holding(h), e) = h.fsm
      \/ /\ Can(h.fsm.state, e)
         /\ Handle(h.fsm, Holding(h), e).state = Table[<<h.fsm.state, e>>]
  BY HandleMoves
<1> QED  BY <1>1, <1>2

\* FAILSAFE is left by no other event.
LEMMA ApplySealed ==
    ASSUME NEW h, HostOK(h), h.fsm.state = "FAILSAFE", NEW e, e # "RESET_CONFIRMED"
    PROVE  Apply(h, e).fsm = h.fsm
<1>1. ~Can(h.fsm.state, e)
  BY CanSealed
<1> QED  BY <1>1, ApplyState

\* The level alone changes.
LEMMA SetLevel ==
    ASSUME NEW h, HostOK(h), NEW m, Keeps(h.lv, m) \/ Quiet(h.lv, m)
    PROVE  LET k == [h EXCEPT !.lv = m]
           IN  /\ HostOK(k) /\ k.fsm = h.fsm /\ k.voice = h.voice /\ k.lv = m
               /\ Good(h) => Good(k)
               /\ Forth(h, k) /\ (Quiet(h.lv, m) => Still(h, k))
<1> DEFINE k == [h EXCEPT !.lv = m]
<1>1. Keeps(h.lv, m)
  BY QuietKeeps
<1>2. LevelOK(m) /\ m \in LevelType /\ (m.level = "F" <=> h.lv.level = "F")
  BY <1>1 DEF Keeps, LevelOK
<1>3. k \in HostType /\ k.fsm = h.fsm /\ k.voice = h.voice /\ k.lv = m
  <2>1. h \in HostType
    BY DEF HostOK
  <2> QED  BY <1>2, <2>1 DEF HostType
<1> HIDE DEF k
<1>4. HostOK(k) /\ (Good(h) => Good(k))
  BY <1>2, <1>3 DEF HostOK, Good, Agree, Window
<1>5. Forth(h, k) /\ (Quiet(h.lv, m) => Still(h, k))
  BY <1>1, <1>2, <1>3 DEF Keeps, Quiet, Forth, Still
<1> QED  BY <1>3, <1>4, <1>5 DEF k

Ways == {"none", "ZONE_ALARM_CONFIRMED", "FALL_RESOLVED"}

\* A confirmation ends an alarm that is not under the failsafe, and lets nobody out
\* of AUTH_WAIT but from a held alarm.
LEMMA ConfirmedGood ==
    ASSUME NEW h, Good(h), NEW way \in Ways
    PROVE  LET k == Confirmed(h, way)
           IN  /\ Good(k) /\ (k.lv.level = "F" <=> h.lv.level = "F")
               /\ Alarmed(k.lv) <=> Alarmed(h.lv) /\ h.lv.level = "F"
               /\ h.fsm.state = "AUTH_WAIT" =>
                    k.fsm.state = "AUTH_WAIT" \/ (k.fsm.state \in {"PATROL", "IDLE"} /\ Holding(h))
<1> DEFINE k == Confirmed(h, way)
<1>1. CASE h.lv.level # "L3"
  <2>1. k = h
    BY <1>1 DEF Confirmed
  <2> QED  BY <1>1, <2>1 DEF Alarmed
<1>2. CASE h.lv.level = "L3"
  <2> DEFINE calm == [h EXCEPT !.lv = ConfirmAlarm(@)]
             own  == ApplyIf(way # "none", calm, way)
             back == IF way = "FALL_RESOLVED"
                     THEN [own EXCEPT !.lv = NoteFallSuspect(@, FALSE)] ELSE own
             Calmed(g) == Good(g) /\ ~Alarmed(g.lv) /\ g.lv.level # "F"
  <2>1. k = ApplyIf(Holding(h), back, "ALARM_CONFIRMED")
    BY <1>2, Zenon DEF Confirmed
  <2>2. Calmed(calm) /\ calm.fsm = h.fsm
    <3>1. /\ LevelOK(ConfirmAlarm(h.lv)) /\ ConfirmAlarm(h.lv) \in LevelType
          /\ ConfirmAlarm(h.lv).level # "F" /\ ~Alarmed(ConfirmAlarm(h.lv))
      BY <1>2, ConfirmClears DEF Good, HostOK, LevelOK
    <3>2. h \in HostType
      BY DEF Good, HostOK
    <3>3. /\ calm \in HostType /\ calm.fsm = h.fsm /\ calm.voice = h.voice
          /\ calm.lv = ConfirmAlarm(h.lv)
      BY <3>1, <3>2 DEF HostType
    <3> QED  BY <1>2, <3>1, <3>3 DEF Good, HostOK, Agree, Window
  <2> HIDE DEF calm
  <2>3. ASSUME NEW g, Calmed(g), NEW e \in {"ZONE_ALARM_CONFIRMED", "FALL_RESOLVED", "ALARM_CONFIRMED"}
        PROVE  Calmed(Apply(g, e))
    <3>1. e \notin RaisesAlarm \cup RaisesFailsafe \cup {"RESET_CONFIRMED", "AUTH_REQUIRED"}
      BY DEF RaisesAlarm, RaisesFailsafe
    <3>2. Good(Apply(g, e)) /\ Still(g, Apply(g, e))
      BY <2>3, <3>1, ApplyGood, ApplyForth DEF Good
    <3> QED  BY <2>3, <3>2 DEF Still
  <2>4. Calmed(own) /\ (h.fsm.state = "AUTH_WAIT" => own.fsm.state = "AUTH_WAIT")
    <3>1. CASE way = "none"
      BY <2>2, <3>1 DEF ApplyIf
    <3>2. CASE way # "none"
      <4>1. own = Apply(calm, way) /\ way \in {"ZONE_ALARM_CONFIRMED", "FALL_RESOLVED"}
        BY <3>2 DEF ApplyIf, Ways
      <4>2. Calmed(own)
        BY <2>2, <2>3, <4>1
      <4>3. h.fsm.state = "AUTH_WAIT" => own.fsm.state = "AUTH_WAIT"
        <5>1. HostOK(calm) /\ calm.fsm = h.fsm
          BY <2>2 DEF Good
        <5>2. own.fsm = calm.fsm \/ Can(calm.fsm.state, way)
          BY <4>1, <5>1, ApplyState, Zenon
        <5>3. h.fsm.state = "AUTH_WAIT" => ~Can(calm.fsm.state, way)
          BY <4>1, <5>1, CanNotWait
        <5> QED  BY <5>1, <5>2, <5>3
      <4> QED  BY <4>2, <4>3
    <3> QED  BY <3>1, <3>2
  <2> HIDE DEF own
  <2>5. Calmed(back) /\ back.fsm = own.fsm
    <3>1. Quiet(own.lv, NoteFallSuspect(own.lv, FALSE))
      BY <2>4, LevelQuiet DEF Good, HostOK
    <3>2. CASE way = "FALL_RESOLVED"
      BY <2>4, <3>1, <3>2, SetLevel DEF Still, Good
    <3>3. CASE way # "FALL_RESOLVED"
      BY <2>4, <3>3
    <3> QED  BY <3>2, <3>3
  <2> HIDE DEF back
  <2>6. CASE Holding(h)
    <3>1. k = Apply(back, "ALARM_CONFIRMED")
      BY <2>1, <2>6 DEF ApplyIf
    <3>2. Calmed(k)
      BY <2>3, <2>5, <3>1
    <3>3. h.fsm.state = "AUTH_WAIT" => k.fsm.state = "AUTH_WAIT" \/ k.fsm.state \in {"PATROL", "IDLE"}
      <4>1. HostOK(back)
        BY <2>5 DEF Good
      <4>2. \/ k.fsm = back.fsm
            \/ /\ Can(back.fsm.state, "ALARM_CONFIRMED")
               /\ k.fsm.state = Table[<<back.fsm.state, "ALARM_CONFIRMED">>]
        BY <3>1, <4>1, ApplyState, Zenon
      <4> QED  BY <2>4, <2>5, <4>2, CanPatrol
    <3> QED  BY <1>2, <2>6, <3>2, <3>3
  <2>7. CASE ~Holding(h)
    <3>1. k = back
      BY <2>1, <2>7 DEF ApplyIf
    <3> QED  BY <1>2, <2>4, <2>5, <3>1
  <2> QED  BY <2>6, <2>7
<1> QED  BY <1>1, <1>2

\* The end of a fall suspicion is quiet, and moves nobody who is not in its scene.
LEMMA WatchedGood ==
    ASSUME NEW h, Good(h), NEW t \in BOOLEAN
    PROVE  LET k == Watched(h, t)
           IN  /\ Good(k) /\ Still(h, k)
               /\ h.fsm.state \notin {"ALERT", "TRACK"} => k.fsm = h.fsm
<1> DEFINE k == Watched(h, t)
           g == ApplyIf(h.fsm.state \in {"ALERT", "TRACK"}, h, "FALL_RESOLVED")
<1>1. k \in {h, [g EXCEPT !.lv = NoteFallSuspect(@, FALSE)]}
  BY DEF Watched
<1>2. Good(g) /\ Still(h, g) /\ (h.fsm.state \notin {"ALERT", "TRACK"} => g = h)
  <2>1. "FALL_RESOLVED" \notin RaisesAlarm \cup RaisesFailsafe \cup {"RESET_CONFIRMED", "AUTH_REQUIRED"}
    BY DEF RaisesAlarm, RaisesFailsafe
  <2>2. Good(Apply(h, "FALL_RESOLVED")) /\ Still(h, Apply(h, "FALL_RESOLVED"))
    BY <2>1, ApplyGood, ApplyForth DEF Good
  <2> QED  BY <2>2 DEF ApplyIf, Still
<1> HIDE DEF g
<1>3. CASE k = h
  BY <1>3 DEF Still
<1>4. CASE k = [g EXCEPT !.lv = NoteFallSuspect(@, FALSE)]
  <2>1. Quiet(g.lv, NoteFallSuspect(g.lv, FALSE))
    BY <1>2, LevelQuiet DEF Good, HostOK
  <2>2. Good(k) /\ Still(g, k) /\ k.fsm = g.fsm
    <3> HIDE DEF k
    <3> QED  BY <1>2, <1>4, <2>1, SetLevel DEF Good
  <2> QED  BY <1>2, <2>2 DEF Still
<1> QED  BY <1>1, <1>3, <1>4

------------------------------------------------------------------------------
\* The invariant.  Between Behave and Account the FSM may be ahead of the level, by a
\* link loss that is on its way; while the window is being opened it may be the last.

AlarmInv ==
    /\ AlarmTypeOK /\ HostOK(host)
    /\ Agree(host) \/ (loop.at = "account" /\ host.fsm.state = "FAILSAFE" /\ loop.trigger = "LINK_LOST")
    /\ loop.trigger # "none" => loop.at = "account"
    /\ loop.trigger \in RaisesFailsafe => host.fsm.state = "FAILSAFE"
    /\ loop.at # "open" => Window(host)

\* What a step does to the promises: the alarm and the failsafe (AlarmLatch)...
LatchStep ==
    \/ Forth(host, host') /\ (asked => asked') /\ (settling => settling')
    \/ /\ asked /\ ~asked' /\ settling' = settling
       /\ Alarmed(host'.lv) <=> Alarmed(host.lv) /\ host.lv.level = "F"
       /\ host'.lv.level = "F" <=> host.lv.level = "F"
    \/ /\ settling /\ ~settling' /\ asked' = asked
       /\ Alarmed(host'.lv) <=> Alarmed(host.lv)

\* ... and the ways out of AUTH_WAIT.
WaitStep ==
    host.fsm.state = "AUTH_WAIT" =>
        /\ host'.fsm.state = "ALERT" /\ loop'.at # "account" => Alarmed(host'.lv)
        /\ host'.fsm.state = "PATROL" => \/ host.voice.granted = "new" /\ host.voice.ready
                                         \/ Holding(host) /\ asked

\* One state of the host follows another: what the dashboard, the cameras and the
\* loop may do without a reset.
Chain(h, k) ==
    /\ HostOK(k) /\ Forth(h, k)
    /\ Agree(h) => Agree(k)
    /\ h.fsm.state = "FAILSAFE" => k.fsm.state = "FAILSAFE"
    /\ loop.at # "open" /\ Window(h) => Window(k)

LEMMA ChainSteps ==
    ASSUME NEW h, NEW k, NEW m, Chain(h, k), Chain(k, m)
    PROVE  Chain(h, m)
BY DEF Chain, Forth

LEMMA ChainNone == ASSUME NEW h, HostOK(h) PROVE Chain(h, h)
BY DEF Chain, Forth

LEMMA ChainApply ==
    ASSUME NEW h, HostOK(h), NEW e, e \notin {"RESET_CONFIRMED", "AUTH_REQUIRED"}
    PROVE  Chain(h, Apply(h, e))
<1>1. HostOK(Apply(h, e)) /\ Forth(h, Apply(h, e))
  BY ApplyOK, ApplyForth
<1>2. Agree(h) => Agree(Apply(h, e))
  BY ApplyAgrees
<1>3. h.fsm.state = "FAILSAFE" => Apply(h, e).fsm.state = "FAILSAFE"
  BY ApplySealed
<1>4. Window(h) => Window(Apply(h, e))
  BY ApplyWindow
<1> QED  BY <1>1, <1>2, <1>3, <1>4 DEF Chain

LEMMA ChainLevel ==
    ASSUME NEW h, HostOK(h), NEW m, Keeps(h.lv, m) \/ Quiet(h.lv, m)
    PROVE  LET k == [h EXCEPT !.lv = m]
           IN  Chain(h, k) /\ k.fsm = h.fsm /\ k.voice = h.voice /\ k.lv = m
<1> DEFINE k == [h EXCEPT !.lv = m]
<1>1. HostOK(k) /\ k.fsm = h.fsm /\ k.voice = h.voice /\ k.lv = m /\ Forth(h, k)
  BY SetLevel
<1>2. m.level = "F" <=> h.lv.level = "F"
  BY DEF Keeps, Quiet
<1> HIDE DEF k
<1>3. Chain(h, k)
  BY <1>1, <1>2 DEF Chain, Agree, Window
<1> QED  BY <1>1, <1>3 DEF k

\* The window and the wait change, but neither the state nor the level; the grant, if
\* somebody waits, is none or one of this wait.
LEMMA ChainVoice ==
    ASSUME NEW h, HostOK(h), NEW k, k \in HostType, k.lv = h.lv, k.fsm.state = h.fsm.state,
           loop.at # "open" /\ Window(h) => Window(k)
    PROVE  Chain(h, k)
BY DEF Chain, HostOK, Forth, Agree

Pieced == {"drain", "sense", "open", "behave", "account"}

\* Such a step keeps the invariant if it leaves the tick where it is, or goes on
\* before Behave; who moves the FSM before Account also leaves his event there.
LEMMA ChainInv ==
    ASSUME AlarmInv, Chain(host, host'), mode' = mode,
           settling' \in BOOLEAN, asked' \in BOOLEAN, utter' \in {"none", "old", "new"},
           NEW e, e \in RaisesFailsafe => host'.fsm.state = "FAILSAFE",
           \/ loop' = loop
           \/ loop' = Traced(host', e)
           \/ loop.at \in {"drain", "sense"} /\ loop' \in {[at |-> "sense", trigger |-> "none"],
                                                           [at |-> "behave", trigger |-> "none"]}
    PROVE  AlarmInv'
<1>1. host' \in HostType /\ HostOK(host')
  BY DEF Chain, HostOK
<1>2. loop \in LoopType
  BY DEF AlarmInv, AlarmTypeOK
<1>3. CASE loop' = loop
  BY <1>1, <1>3 DEF AlarmInv, AlarmTypeOK, HostType, Chain
<1>4. CASE loop.at = "account" /\ Moved(host', host) /\ loop' = [loop EXCEPT !.trigger = Known(e)]
  <2>1. Known(e) \in {"none"} \cup RaisesAlarm \cup RaisesFailsafe
    BY DEF Known
  <2>2. loop' \in LoopType /\ loop'.at = "account" /\ loop'.trigger = Known(e)
    BY <1>2, <1>4, <2>1 DEF LoopType
  <2>3. Known(e) \in RaisesFailsafe => host'.fsm.state = "FAILSAFE"
    BY DEF Known, RaisesAlarm, RaisesFailsafe
  <2>4. host.fsm.state # "FAILSAFE"
    BY <1>4 DEF Moved, Chain
  <2>5. Agree(host') /\ Window(host')
    BY <1>4, <2>4 DEF AlarmInv, Chain
  <2> QED  BY <1>1, <2>2, <2>3, <2>5 DEF AlarmInv, AlarmTypeOK, HostType
<1>5. CASE loop.at \in {"drain", "sense"} /\ loop' \in {[at |-> "sense", trigger |-> "none"],
                                                         [at |-> "behave", trigger |-> "none"]}
  <2>1. loop' \in LoopType /\ loop'.trigger = "none" /\ loop'.at \in {"sense", "behave"}
    BY <1>5 DEF LoopType
  <2>2. Agree(host') /\ Window(host')
    BY <1>5 DEF AlarmInv, Chain
  <2> QED  BY <1>1, <2>1, <2>2 DEF AlarmInv, AlarmTypeOK, HostType, RaisesFailsafe
<1>6. loop' = Traced(host', e) => loop' = loop \/
        (loop.at = "account" /\ Moved(host', host) /\ loop' = [loop EXCEPT !.trigger = Known(e)])
  BY DEF Traced
<1> QED  BY <1>3, <1>4, <1>5, <1>6

------------------------------------------------------------------------------
\* The steps.  Promised is what every step but Account has to show.

Promised == AlarmInv' /\ LatchStep /\ WaitStep /\ (loop.at = "account" => loop'.at = "account")

\* A step that only asks for something.
LEMMA AskingStep ==
    ASSUME AlarmInv, UNCHANGED <<mode, host, loop>>, asked' \in BOOLEAN, settling' \in BOOLEAN,
           utter' \in {"none", "old", "new"}, asked => asked', settling => settling'
    PROVE  Promised
<1>1. Chain(host, host') /\ host' = host /\ "none" \notin RaisesFailsafe
  BY ChainNone DEF AlarmInv, RaisesFailsafe
<1>2. AlarmInv'
  BY <1>1, ChainInv
<1> QED  BY <1>1, <1>2 DEF Promised, LatchStep, WaitStep, Chain

\* A step of the host that leaves the requests alone.
LEMMA ChainStep ==
    ASSUME AlarmInv, Chain(host, host'), mode' = mode, UNCHANGED <<asked, settling>>,
           utter' \in {"none", "old", "new"}, WaitStep,
           NEW e, e \in RaisesFailsafe => host'.fsm.state = "FAILSAFE",
           \/ loop' = loop
           \/ loop' = Traced(host', e)
           \/ loop.at \in {"drain", "sense"} /\ loop' \in {[at |-> "sense", trigger |-> "none"],
                                                           [at |-> "behave", trigger |-> "none"]}
    PROVE  Promised
<1>1. asked' \in BOOLEAN /\ settling' \in BOOLEAN
  BY DEF AlarmInv, AlarmTypeOK
<1>2. AlarmInv'
  BY <1>1, ChainInv
<1>3. loop.at = "account" => loop'.at = "account"
  BY DEF Traced, AlarmInv, AlarmTypeOK, LoopType
<1> QED  BY <1>2, <1>3 DEF Promised, LatchStep, Chain

\* One event, and nothing else.
LEMMA EventStep ==
    ASSUME AlarmInv, NEW e, e \notin {"RESET_CONFIRMED", "AUTH_REQUIRED"}, host' = Apply(host, e),
           e = "AUTH_OK" /\ host.fsm.state = "AUTH_WAIT" => host.voice.granted = "new" /\ host.voice.ready,
           e # "ALARM_CONFIRMED",
           mode' = mode, UNCHANGED <<asked, settling>>, utter' \in {"none", "old", "new"},
           loop' = Traced(host', e) \/ (loop' = loop /\ loop.at # "account")
    PROVE  Promised
<1>1. Chain(host, host')
  BY ChainApply DEF AlarmInv
<1>2. WaitStep
  BY ApplyWindow DEF AlarmInv, WaitStep
<1>3. CASE loop' = loop
  <2>1. "none" \notin RaisesFailsafe
    BY DEF RaisesFailsafe
  <2> QED  BY <1>1, <1>2, <1>3, <2>1, ChainStep
<1>4. CASE loop' = Traced(host', e) /\ loop.at = "account" /\ Moved(host', host)
  <2>1. Agree(host)
    <3>1. host.fsm.state # "FAILSAFE"
      BY <1>1, <1>4 DEF Chain, Moved
    <3> QED  BY <3>1 DEF AlarmInv
  <2>2. e \in RaisesFailsafe => host'.fsm.state = "FAILSAFE"
    BY <2>1, ApplyAgrees DEF AlarmInv
  <2> QED  BY <1>1, <1>2, <1>4, <2>2, ChainStep
<1>5. CASE loop' = Traced(host', e) /\ ~(loop.at = "account" /\ Moved(host', host))
  BY <1>3, <1>5 DEF Traced
<1> QED  BY <1>3, <1>4, <1>5

LEMMA StepStartPatrol == ASSUME AlarmInv, StartPatrol PROVE Promised
BY EventStep DEF StartPatrol, AlarmInv, AlarmTypeOK

LEMMA StepCommand ==
    ASSUME AlarmInv, NEW e \in {"ESTOP", "MANUAL_ON", "MANUAL_OFF"}, Command(e)
    PROVE  Promised
BY EventStep DEF Command, AlarmInv, AlarmTypeOK

LEMMA StepRequestReset == ASSUME AlarmInv, RequestReset PROVE Promised
<1>1. settling' \in BOOLEAN
  BY Zenon DEF RequestReset
<1> QED  BY <1>1, AskingStep DEF RequestReset, AlarmInv, AlarmTypeOK

LEMMA StepAskAlarmConfirm == ASSUME AlarmInv, AskAlarmConfirm PROVE Promised
<1>1. asked' \in BOOLEAN
  BY Zenon DEF AskAlarmConfirm
<1> QED  BY <1>1, AskingStep DEF AskAlarmConfirm, AlarmInv, AlarmTypeOK

LEMMA StepSpeak == ASSUME AlarmInv, Speak PROVE Promised
BY AskingStep DEF Speak, AlarmInv, AlarmTypeOK

\* MANUAL_ON and MANUAL_OFF in one call.
LEMMA StepRouteStop == ASSUME AlarmInv, RouteStop PROVE Promised
<1> DEFINE on == Apply(host, "MANUAL_ON")
<1>0. HostOK(host) /\ host' = Apply(on, "MANUAL_OFF")
  BY DEF RouteStop, AlarmInv
<1>1. HostOK(on) /\ Chain(host, on)
  BY <1>0, ChainApply, ApplyOK
<1>2. \/ on.fsm = host.fsm
      \/ on.fsm.state = "MANUAL"
  <2>1. \/ on.fsm = host.fsm
        \/ /\ Can(host.fsm.state, "MANUAL_ON")
           /\ on.fsm.state = Table[<<host.fsm.state, "MANUAL_ON">>]
    BY <1>0, ApplyState, Zenon
  <2> HIDE DEF on
  <2> QED  BY <2>1, CanManualEnds
<1> HIDE DEF on
<1>3. Chain(host, host')
  BY <1>0, <1>1, ChainApply, ChainSteps
<1>4. \/ host'.fsm = on.fsm
      \/ host'.fsm.state = "IDLE"
  BY <1>0, <1>1, ApplyState, CanManualEnds
<1>5. WaitStep
  BY <1>2, <1>4 DEF WaitStep
<1>6. "MANUAL_OFF" \notin RaisesFailsafe
  BY DEF RaisesFailsafe
<1>7. loop' = Traced(host', "MANUAL_OFF") /\ UNCHANGED <<mode, settling, asked, utter>>
  BY DEF RouteStop
<1>8. utter' \in {"none", "old", "new"}
  BY <1>7 DEF AlarmInv, AlarmTypeOK
<1> QED  BY <1>3, <1>5, <1>6, <1>7, <1>8, ChainStep

\* The judges of the pictures.
LEMMA StepSense == ASSUME AlarmInv, NEW e \in Seen, Sense(e) PROVE Promised
<1> DEFINE h == Apply(host, e)
<1>0. /\ HostOK(host) /\ loop.at = "sense" /\ UNCHANGED <<mode, settling, asked, utter, loop>>
      /\ host' = IF e = "PPE_SETTLED" /\ Moved(h, host) THEN [h EXCEPT !.lv = SettlePpe(@)] ELSE h
  BY DEF Sense, Sensing, AlarmInv
<1>1. /\ e \notin {"RESET_CONFIRMED", "AUTH_REQUIRED", "AUTH_OK", "ALARM_CONFIRMED"}
      /\ utter' \in {"none", "old", "new"}
  BY <1>0 DEF Seen, AlarmInv, AlarmTypeOK
<1>2. HostOK(h) /\ Chain(host, h)
  BY <1>0, <1>1, ApplyOK, ChainApply
<1>3. CASE host' = h
  BY <1>0, <1>1, <1>3, EventStep
<1>4. CASE host' = [h EXCEPT !.lv = SettlePpe(@)]
  <2>1. Quiet(h.lv, SettlePpe(h.lv))
    BY <1>2, LevelQuiet DEF HostOK
  <2>2. host.fsm.state = "AUTH_WAIT" => /\ h.fsm.state = "ALERT" => Alarmed(h.lv)
                                        /\ h.fsm.state # "PATROL"
    BY <1>0, <1>1, ApplyWindow
  <2> HIDE DEF h
  <2>3. Chain(h, host') /\ host'.fsm = h.fsm
    BY <1>2, <1>4, <2>1, ChainLevel
  <2>4. Chain(host, host')
    BY <1>2, <2>3, ChainSteps
  <2>5. WaitStep
    BY <2>2, <2>3 DEF WaitStep, Chain, Forth
  <2>6. "none" \notin RaisesFailsafe
    BY DEF RaisesFailsafe
  <2> QED  BY <1>0, <1>1, <2>4, <2>5, <2>6, ChainStep
<1> QED  BY <1>0, <1>3, <1>4

\* The level alone, with what a person in sight does to it.
LEMMA LevelStep ==
    ASSUME AlarmInv, NEW m, Keeps(host.lv, m) \/ Quiet(host.lv, m), host' = [host EXCEPT !.lv = m],
           UNCHANGED <<mode, settling, asked, utter, loop>>
    PROVE  Promised
<1>1. Chain(host, host') /\ host'.fsm = host.fsm
  BY ChainLevel DEF AlarmInv
<1>2. WaitStep
  BY <1>1 DEF WaitStep
<1>3. "none" \notin RaisesFailsafe /\ utter' \in {"none", "old", "new"}
  BY DEF RaisesFailsafe, AlarmInv, AlarmTypeOK
<1> QED  BY <1>1, <1>2, <1>3, ChainStep

LEMMA StepSeePerson == ASSUME AlarmInv, SeePerson PROVE Promised
<1>1. Quiet(host.lv, NotePerson(host.lv))
  BY LevelQuiet DEF AlarmInv, HostOK
<1> QED  BY <1>1, LevelStep DEF SeePerson, Sensing

LEMMA StepSuspectFall == ASSUME AlarmInv, SuspectFall PROVE Promised
<1> DEFINE h == ApplyIf(host.fsm.state \notin {"ALERT", "TRACK"}, host, "FALL_SUSPECTED")
<1>0. /\ HostOK(host) /\ host' = [h EXCEPT !.lv = NoteFallSuspect(@, TRUE)]
      /\ UNCHANGED <<mode, settling, asked, utter, loop>>
  BY DEF SuspectFall, Sensing, AlarmInv
<1>1. /\ HostOK(h) /\ Chain(host, h)
      /\ host.fsm.state = "AUTH_WAIT" => /\ h.fsm.state = "ALERT" => Alarmed(h.lv)
                                         /\ h.fsm.state # "PATROL"
  BY <1>0, ApplyOK, ChainApply, ChainNone, ApplyWindow DEF ApplyIf
<1> HIDE DEF h
<1>2. Quiet(h.lv, NoteFallSuspect(h.lv, TRUE))
  BY <1>1, LevelQuiet DEF HostOK
<1>3. Chain(h, host') /\ host'.fsm = h.fsm
  BY <1>0, <1>1, <1>2, ChainLevel
<1>4. Chain(host, host') /\ WaitStep
  BY <1>1, <1>3, ChainSteps DEF WaitStep, Chain, Forth
<1>5. "none" \notin RaisesFailsafe /\ utter' \in {"none", "old", "new"}
  BY <1>0 DEF RaisesFailsafe, AlarmInv, AlarmTypeOK
<1> QED  BY <1>0, <1>4, <1>5, ChainStep

\* The badges.  In AUTH_WAIT a grant is one of this wait (Window).
LEMMA StepSeeBadge ==
    ASSUME AlarmInv, NEW o \in {"away", "right", "wrong"}, NEW all \in BOOLEAN, SeeBadge(o, all)
    PROVE  Promised
<1> DEFINE b == host.voice.ready \/ host.voice.granted # "no"
           away == [host EXCEPT !.voice.ready = b]
           h == CASE o = "away" -> away
                  [] o = "right" -> Apply(host, "AUTH_OK")
                  [] o = "wrong" -> Apply(host, "AUTH_FAILED")
           m == IF all /\ host.voice.granted # "no" THEN NoteAuthenticated(h.lv)
                ELSE [h.lv EXCEPT !.auth = FALSE]
<1>0. /\ HostOK(host) /\ host' = [h EXCEPT !.lv = m] /\ loop.at = "sense" /\ Window(host)
      /\ UNCHANGED <<mode, settling, asked, utter, loop>>
      /\ o # "away" => host.voice.granted # "no" /\ host.voice.ready
  BY DEF SeeBadge, Sensing, AlarmInv
<1>1. /\ away \in HostType /\ away.lv = host.lv /\ away.fsm = host.fsm
      /\ away.voice.open = host.voice.open /\ away.voice.granted = host.voice.granted
  <2>1. b \in BOOLEAN
    BY Zenon
  <2> HIDE DEF b
  <2> QED  BY <1>0, <2>1 DEF HostOK, HostType, VoiceType
<1> HIDE DEF away
<1>2. Chain(host, away)
  BY <1>0, <1>1, ChainVoice DEF Window
<1>3. Chain(host, Apply(host, "AUTH_OK")) /\ Chain(host, Apply(host, "AUTH_FAILED"))
  BY <1>0, ChainApply
<1>4. Chain(host, h)
  BY <1>2, <1>3
<1>5. host.fsm.state = "AUTH_WAIT" =>
          /\ h.fsm.state = "ALERT" => Alarmed(h.lv)
          /\ h.fsm.state = "PATROL" => host.voice.granted = "new" /\ host.voice.ready
  <2>1. CASE o = "away"
    BY <1>1, <2>1
  <2>2. CASE o = "right"
    BY <1>0, <2>2, ApplyWindow DEF Window
  <2>3. CASE o = "wrong"
    BY <1>0, <2>3, ApplyWindow
  <2> QED  BY <2>1, <2>2, <2>3
<1> HIDE DEF h
<1>6. HostOK(h) /\ Quiet(h.lv, m)
  BY <1>4, LevelQuiet DEF Chain, HostOK
<1> HIDE DEF m
<1>7. Chain(h, host') /\ host'.fsm = h.fsm
  BY <1>0, <1>6, ChainLevel
<1>8. Chain(host, host') /\ WaitStep
  BY <1>4, <1>5, <1>7, ChainSteps DEF WaitStep, Chain, Forth
<1>9. "none" \notin RaisesFailsafe /\ utter' \in {"none", "old", "new"}
  BY <1>0 DEF RaisesFailsafe, AlarmInv, AlarmTypeOK
<1> QED  BY <1>0, <1>8, <1>9, ChainStep

\* A wait that is prolonged stays within its bound.
LEMMA DeferType ==
    ASSUME NEW f \in FsmType(Most), NEW by \in Nat, NEW cap \in Nat, cap <= Most
    PROVE  Defer(f, by, cap) \in FsmType(Most) /\ Defer(f, by, cap).state = f.state
<1>1. f.deferred \in 0..Most
  BY DEF FsmType
<1> DEFINE d == IF cap <= f.deferred THEN f.deferred
                ELSE IF by < cap - f.deferred THEN f.deferred + by ELSE cap
<1>2. d \in 0..Most
  BY <1>1, MostNat
<1>3. Defer(f, by, cap) = [f EXCEPT !.deferred = d]
  BY DEF Defer
<1> HIDE DEF d
<1> QED  BY <1>2, <1>3 DEF FsmType

LEMMA StepListening ==
    ASSUME AlarmInv, NEW s \in BOOLEAN, Listening(s)
    PROVE  Promised
<1> DEFINE f == Defer(host.fsm, Grace, Grace)
<1>0. /\ HostOK(host) /\ host' = [host EXCEPT !.fsm = f, !.voice.deferred = TRUE]
      /\ UNCHANGED <<mode, settling, asked, utter, loop>>
  BY DEF Listening, AlarmInv
<1>1. f \in FsmType(Most) /\ f.state = host.fsm.state
  BY <1>0, DeferType, MostNat, AlarmAssumption DEF HostOK, HostType
<1> HIDE DEF f
<1>2. /\ host' \in HostType /\ host'.lv = host.lv /\ host'.fsm.state = host.fsm.state
      /\ host'.voice.open = host.voice.open /\ host'.voice.granted = host.voice.granted
  BY <1>0, <1>1 DEF HostOK, HostType, VoiceType
<1>3. Chain(host, host') /\ WaitStep
  BY <1>0, <1>2, ChainVoice DEF Window, WaitStep
<1>4. "none" \notin RaisesFailsafe /\ utter' \in {"none", "old", "new"}
  BY <1>0 DEF RaisesFailsafe, AlarmInv, AlarmTypeOK
<1> QED  BY <1>0, <1>3, <1>4, ChainStep

\* The passphrase.  Outside of the opening only words of this wait count.
LEMMA StepVerdict ==
    ASSUME AlarmInv, NEW ok \in BOOLEAN, NEW s \in BOOLEAN, Verdict(ok, s)
    PROVE  /\ Promised
           /\ utter = "old" /\ loop.at # "open" => host' = host
<1> DEFINE counts == ~Stale(s) /\ host.fsm.state = "AUTH_WAIT" /\ mode = "guard"
<1>0. /\ HostOK(host) /\ utter \in {"old", "new"} /\ utter' = "none"
      /\ host' = IF ~counts THEN host ELSE IF ok THEN Granted(host) ELSE Rejected(host)
      /\ loop' = Traced(host', "AUTH_FAILED") /\ UNCHANGED <<mode, settling, asked>>
  BY DEF Verdict, AlarmInv, AlarmTypeOK
<1>1. counts /\ loop.at # "open" => utter = "new"
  BY <1>0 DEF Stale, AlarmInv, Window
<1>2. "AUTH_FAILED" \notin RaisesFailsafe /\ utter' \in {"none", "old", "new"}
  BY <1>0 DEF RaisesFailsafe
<1>3. ASSUME host' \in HostType, host'.lv = host.lv, host'.fsm.state = host.fsm.state,
             loop.at # "open" /\ Window(host) => Window(host')
      PROVE  Promised
  <2>1. Chain(host, host') /\ WaitStep
    BY <1>0, <1>3, ChainVoice DEF WaitStep
  <2> QED  BY <1>0, <1>2, <2>1, ChainStep
<1>4. ASSUME host' = host PROVE Promised
  BY <1>0, <1>3, <1>4 DEF HostOK
<1>5. ASSUME counts, host' = Granted(host), host' # host PROVE Promised
  <2> DEFINE f == Defer(host.fsm, BadgeWait, Grace + BadgeWait)
  <2>1. host' = [host EXCEPT !.voice.granted = utter, !.voice.ready = FALSE, !.fsm = f]
    BY <1>5 DEF Granted
  <2>2. f \in FsmType(Most) /\ f.state = host.fsm.state
    <3>1. host.fsm \in FsmType(Most)
      BY <1>0 DEF HostOK, HostType
    <3>2. BadgeWait \in Nat /\ Grace + BadgeWait \in Nat /\ Grace + BadgeWait <= Most
      BY MostNat, AlarmAssumption
    <3> QED  BY <3>1, <3>2, DeferType
  <2> HIDE DEF f
  <2>3. /\ host' \in HostType /\ host'.lv = host.lv /\ host'.fsm.state = host.fsm.state
        /\ host'.voice.open = host.voice.open /\ host'.voice.granted = utter
    <3>1. host \in HostType /\ host.voice \in VoiceType /\ utter \in {"old", "new"}
      BY <1>0 DEF HostOK, HostType
    <3> DEFINE v == [host.voice EXCEPT !.granted = utter, !.ready = FALSE]
    <3>2. v \in VoiceType /\ v.open = host.voice.open /\ v.granted = utter
      BY <3>1 DEF VoiceType
    <3>3. host' = [host EXCEPT !.voice = v, !.fsm = f]
      BY <2>1, <3>1 DEF HostType
    <3> HIDE DEF v
    <3> QED  BY <2>2, <3>1, <3>2, <3>3 DEF HostType
  <2> QED  BY <1>1, <1>3, <1>5, <2>3 DEF Window
<1>6. ASSUME counts, host' = Rejected(host) PROVE Promised
  <2> DEFINE n == host.voice.tries + 1
  <2>1. CASE n < MaxAttempts
    <3>1. host' = [host EXCEPT !.voice.tries = n]
      BY <1>6, <2>1 DEF Rejected
    <3>2. n \in 0..(MaxAttempts - 1)
      BY <1>0, <2>1, AlarmAssumption DEF HostOK, HostType, VoiceType
    <3> HIDE DEF n
    <3>3. /\ host' \in HostType /\ host'.lv = host.lv /\ host'.fsm = host.fsm
          /\ host'.voice.open = host.voice.open /\ host'.voice.granted = host.voice.granted
      BY <1>0, <3>1, <3>2 DEF HostOK, HostType, VoiceType
    <3> QED  BY <1>3, <3>3 DEF Window
  <2>2. CASE ~(n < MaxAttempts)
    <3>1. host' = Apply(host, "AUTH_FAILED")
      BY <1>6, <2>2 DEF Rejected
    <3> QED  BY <1>0, <1>2, <3>1, EventStep
  <2> QED  BY <2>1, <2>2
<1>7. utter = "old" /\ loop.at # "open" => host' = host
  BY <1>0, <1>1
<1> QED  BY <1>0, <1>4, <1>5, <1>6, <1>7

\* A datagram: the reset is the only step that lowers the failsafe, and takes nothing
\* from the alarm underneath.
LEMMA StepReport ==
    ASSUME AlarmInv, NEW open \in BOOLEAN,
           NEW e \in {"none", "ONBOARD_FAILSAFE", "ONBOARD_AVOID", "AVOID_CLEARED"}, Report(open, e)
    PROVE  Promised
<1> DEFINE settles == settling /\ open
           h == ApplyIf(settles /\ host.fsm.state = "FAILSAFE", host, "RESET_CONFIRMED")
<1>0. /\ Good(host) /\ loop.at = "drain"
      /\ settling' = (settling /\ ~(settles /\ h.fsm.state # "FAILSAFE"))
      /\ host' = ApplyIf(e # "none", h, e) /\ UNCHANGED <<mode, asked, utter, loop>>
  BY DEF Report, AlarmInv, Good
<1>1. /\ Good(h) /\ (Alarmed(h.lv) <=> Alarmed(host.lv))
      /\ h = host \/ (settles /\ host.fsm.state = "FAILSAFE")
  <2>1. "RESET_CONFIRMED" \notin RaisesAlarm
    BY DEF RaisesAlarm
  <2>2. /\ Good(Apply(host, "RESET_CONFIRMED"))
        /\ Alarmed(Apply(host, "RESET_CONFIRMED").lv) <=> Alarmed(host.lv)
    BY <1>0, <2>1, ApplyGood, ApplyAlarms DEF Good
  <2> QED  BY <1>0, <2>2 DEF ApplyIf
<1> HIDE DEF h
<1>2. e \notin RaisesAlarm \cup {"RESET_CONFIRMED", "AUTH_REQUIRED", "AUTH_OK", "ALARM_CONFIRMED"}
  BY DEF RaisesAlarm
<1>3. /\ Good(host') /\ (Alarmed(host'.lv) <=> Alarmed(h.lv)) /\ Forth(h, host')
      /\ h.fsm.state = "AUTH_WAIT" => /\ host'.fsm.state = "ALERT" => Alarmed(host'.lv)
                                      /\ host'.fsm.state # "PATROL"
  <2>1. CASE e = "none"
    BY <1>0, <1>1, <2>1 DEF ApplyIf, Forth
  <2>2. CASE e # "none"
    <3>1. host' = Apply(h, e)
      BY <1>0, <2>2 DEF ApplyIf
    <3> QED  BY <1>1, <1>2, <3>1, ApplyGood, ApplyAlarms, ApplyForth, ApplyWindow DEF Good
  <2> QED  BY <2>1, <2>2
<1>4. settling' \in BOOLEAN /\ (settling' => settling)
  BY <1>0, Zenon
<1>5. AlarmInv'
  <2> HIDE DEF settles
  <2>1. UNCHANGED <<mode, asked, utter, loop>>
    BY <1>0
  <2>2. host' \in HostType /\ HostOK(host') /\ Agree(host') /\ Window(host')
    BY <1>3 DEF Good, HostOK
  <2>3. AlarmTypeOK'
    BY <1>4, <2>1, <2>2 DEF HostType, AlarmInv, AlarmTypeOK
  <2>4. loop.trigger = "none" /\ loop'.trigger = "none"
    BY <1>0, <2>1 DEF AlarmInv
  <2> QED  BY <2>2, <2>3, <2>4 DEF AlarmInv, RaisesFailsafe
<1>6. LatchStep
  <2>1. CASE settles /\ h.fsm.state # "FAILSAFE"
    BY <1>0, <1>1, <1>3, <2>1 DEF LatchStep
  <2>2. CASE ~(settles /\ h.fsm.state # "FAILSAFE")
    <3>1. settling => settling'
      BY <1>0, <2>2
    <3>2. host.lv.level = "F" => h.lv.level = "F"
      BY <1>0, <1>1, <2>2 DEF Good, Agree
    <3> QED  BY <1>0, <1>1, <1>3, <3>1, <3>2 DEF LatchStep, Forth
  <2> QED  BY <2>1, <2>2
<1>7. WaitStep
  BY <1>1, <1>3 DEF WaitStep
<1> QED  BY <1>0, <1>5, <1>6, <1>7 DEF Promised

\* Confirmations, and the ends of levels that nobody needs any longer.
LEMMA StepDrain ==
    ASSUME AlarmInv, NEW way \in Ways, NEW t \in BOOLEAN, Drain(way, t)
    PROVE  Promised
<1> DEFINE h == IF asked THEN Confirmed(host, way) ELSE host
           k == IF h.fsm.state \in STANDBY THEN [h EXCEPT !.lv = StandDown(@)] ELSE h
<1>0. /\ Good(host) /\ loop.at = "drain" /\ host' = Watched(k, t) /\ asked' = FALSE
      /\ loop' = [at |-> "sense", trigger |-> "none"] /\ UNCHANGED <<mode, settling, utter>>
  BY DEF Drain, Then, AlarmInv, Good
<1>1. /\ Good(h) /\ (h.lv.level = "F" <=> host.lv.level = "F")
      /\ Alarmed(h.lv) <=> Alarmed(host.lv) /\ (asked => host.lv.level = "F")
      /\ host.fsm.state = "AUTH_WAIT" =>
           h.fsm.state = "AUTH_WAIT" \/ (h.fsm.state \in {"PATROL", "IDLE"} /\ Holding(host) /\ asked)
  <2>1. CASE asked
    BY <1>0, <2>1, ConfirmedGood
  <2>2. CASE ~asked
    BY <1>0, <2>2
  <2> QED  BY <2>1, <2>2
<1> HIDE DEF h
<1>2. Good(k) /\ Still(h, k) /\ k.fsm = h.fsm
  <2>1. Quiet(h.lv, StandDown(h.lv)) /\ HostOK(h)
    BY <1>1, LevelQuiet DEF Good, HostOK
  <2>2. CASE h.fsm.state \in STANDBY
    <3>1. k = [h EXCEPT !.lv = StandDown(@)]
      BY <2>2
    <3> HIDE DEF k
    <3> QED  BY <1>1, <2>1, <3>1, SetLevel
  <2>3. CASE h.fsm.state \notin STANDBY
    BY <1>1, <2>3 DEF Still
  <2> QED  BY <2>2, <2>3
<1> HIDE DEF k
<1>3. /\ Good(host') /\ Still(k, host')
      /\ k.fsm.state \notin {"ALERT", "TRACK"} => host'.fsm = k.fsm
  BY <1>0, <1>2, WatchedGood
<1>4. /\ host'.lv.level = "F" <=> host.lv.level = "F"
      /\ Alarmed(host'.lv) <=> Alarmed(host.lv) /\ (asked => host.lv.level = "F")
  BY <1>1, <1>2, <1>3 DEF Still
<1>5. WaitStep
  BY <1>1, <1>2, <1>3 DEF WaitStep
<1>6. asked' \in BOOLEAN /\ loop' \in LoopType
  <2>1. asked' \in BOOLEAN
    BY <1>0, Zenon
  <2>2. loop' \in LoopType
    BY <1>0 DEF LoopType
  <2> QED  BY <2>1, <2>2
<1>7. AlarmInv'
  BY <1>0, <1>3, <1>6 DEF Good, HostOK, HostType, AlarmInv, AlarmTypeOK, RaisesFailsafe
<1>8. LatchStep
  <2>1. asked \in BOOLEAN
    BY DEF AlarmInv, AlarmTypeOK
  <2>2. CASE asked
    BY <1>0, <1>4, <2>2 DEF LatchStep
  <2>3. CASE ~asked
    BY <1>0, <1>4, <2>3 DEF LatchStep, Forth
  <2> QED  BY <2>1, <2>2, <2>3
<1> QED  BY <1>0, <1>5, <1>7, <1>8 DEF Promised

\* The times of the level, and AUTH_WAIT, whose window is not open yet.
LEMMA StepEscalate ==
    ASSUME AlarmInv, NEW w \in BOOLEAN, NEW l \in BOOLEAN, NEW d \in BOOLEAN, Escalate(w, l, d)
    PROVE  /\ Promised
           /\ utter = "old" => utter' = "old"
<1> DEFINE m == Tick(host.lv, mode = "guard", w, l, d)
           h == [host EXCEPT !.lv = m]
           k == ApplyIf(h.lv.level = "L2" /\ Can(h.fsm.state, "AUTH_REQUIRED"), h, "AUTH_REQUIRED")
<1>0. /\ Good(host) /\ loop.at = "sense" /\ UNCHANGED <<mode, settling, asked>>
      /\ host' = IF Moved(h, k) THEN [k EXCEPT !.voice.granted = Aged(@)] ELSE k
      /\ loop' = [at |-> IF Moved(h, k) THEN "open" ELSE "behave", trigger |-> "none"]
      /\ utter' \in IF Moved(h, k) THEN {Aged(utter), "old"} ELSE {utter}
  BY DEF Escalate, Then, AlarmInv, Good
<1>1. /\ Good(h) /\ Chain(host, h) /\ h.fsm = host.fsm
  <2>1. Keeps(host.lv, m)
    BY <1>0, TickKeeps DEF Good, HostOK
  <2> HIDE DEF m
  <2> QED  BY <1>0, <2>1, SetLevel, ChainLevel DEF Good
<1> HIDE DEF h
<1>2. /\ HostOK(k) /\ Agree(k) /\ Forth(h, k)
      /\ ~Moved(h, k) => Window(k)
      /\ host.fsm.state = "AUTH_WAIT" => /\ k.fsm.state = "ALERT" => Alarmed(k.lv)
                                         /\ k.fsm.state # "PATROL"
  <2>1. CASE k = h
    BY <1>1, <2>1 DEF Good, Forth
  <2>2. CASE k = Apply(h, "AUTH_REQUIRED")
    <3>1. HostOK(k) /\ Agree(k) /\ Forth(h, k)
      BY <1>1, <2>2, ApplyOK, ApplyAgrees, ApplyForth DEF Good
    <3>2. /\ host.fsm.state = "AUTH_WAIT" => /\ k.fsm.state = "ALERT" => Alarmed(k.lv)
                                             /\ k.fsm.state # "PATROL"
      BY <1>1, <2>2, ApplyWindow DEF Good
    <3>3. ~Moved(h, k) => k.voice = h.voice
      BY <1>1, <2>2, ApplyCases DEF Good, Moved
    <3>4. ~Moved(h, k) => Window(k)
      BY <1>1, <3>3 DEF Good, Window, Moved
    <3> QED  BY <3>1, <3>2, <3>4
  <2> QED  BY <2>1, <2>2 DEF ApplyIf
<1> HIDE DEF k
<1>3. /\ HostOK(host') /\ Agree(host') /\ host'.fsm = k.fsm /\ host'.lv = k.lv
      /\ ~Moved(h, k) => Window(host')
  <2>1. CASE ~Moved(h, k)
    BY <1>0, <1>2, <2>1
  <2>2. CASE Moved(h, k)
    <3> DEFINE u == Aged(k.voice.granted)
    <3>1. host' = [k EXCEPT !.voice.granted = u]
      BY <1>0, <2>2
    <3>2. k \in HostType /\ k.voice.granted \in {"no", "old", "new"}
      BY <1>2 DEF HostOK, HostType, VoiceType
    <3>3. u \in {"no", "old", "new"}
      BY <3>2 DEF Aged
    <3> HIDE DEF u
    <3>4. host' \in HostType /\ host'.fsm = k.fsm /\ host'.lv = k.lv
      BY <3>1, <3>2, <3>3 DEF HostType, VoiceType
    <3> QED  BY <1>2, <2>2, <3>4 DEF HostOK, Agree
  <2> QED  BY <2>1, <2>2
<1>4. Forth(host, host') /\ WaitStep
  BY <1>1, <1>2, <1>3 DEF Forth, Chain, WaitStep
<1>5. /\ loop' \in LoopType /\ loop'.trigger = "none"
      /\ loop'.at # "open" => ~Moved(h, k)
  BY <1>0 DEF LoopType
<1>6. utter' \in {"none", "old", "new"} /\ (utter = "old" => utter' = "old")
  BY <1>0 DEF Aged, AlarmInv, AlarmTypeOK
<1>7. AlarmInv'
  BY <1>0, <1>3, <1>5, <1>6 DEF HostOK, HostType, AlarmInv, AlarmTypeOK, RaisesFailsafe
<1> QED  BY <1>0, <1>4, <1>6, <1>7 DEF Promised, LatchStep

LEMMA StepOpen == ASSUME AlarmInv, Open PROVE Promised
<1>0. /\ HostOK(host) /\ Agree(host) /\ loop' = [at |-> "behave", trigger |-> "none"]
      /\ host' = IF host.fsm.state = "AUTH_WAIT" THEN [host EXCEPT !.voice = VoiceOpened(@)] ELSE host
      /\ loop.at = "open" /\ UNCHANGED <<mode, settling, asked, utter>>
  BY DEF Open, Then, AlarmInv
<1>1. HostOK(host') /\ host'.fsm = host.fsm /\ host'.lv = host.lv /\ Window(host')
  <2>1. CASE host.fsm.state = "AUTH_WAIT"
    <3> DEFINE v == VoiceOpened(host.voice)
    <3>1. host \in HostType /\ host.voice \in VoiceType
      BY <1>0 DEF HostOK, HostType
    <3>2. v \in VoiceType /\ v.open /\ v.granted = "no"
      BY <3>1, VoiceTypes DEF VoiceOpened, VoiceType
    <3> HIDE DEF v
    <3>3. host' = [host EXCEPT !.voice = v]
      BY <1>0, <2>1 DEF v
    <3>4. host' \in HostType /\ host'.fsm = host.fsm /\ host'.lv = host.lv /\ host'.voice = v
      BY <3>1, <3>2, <3>3 DEF HostType
    <3> QED  BY <1>0, <3>2, <3>4 DEF HostOK, Window
  <2>2. CASE host.fsm.state # "AUTH_WAIT"
    BY <1>0, <2>2 DEF Window
  <2> QED  BY <2>1, <2>2
<1>2. loop' \in LoopType
  BY <1>0 DEF LoopType
<1>3. AlarmInv'
  BY <1>0, <1>1, <1>2 DEF HostOK, HostType, Agree, AlarmInv, AlarmTypeOK, RaisesFailsafe
<1>4. LatchStep /\ WaitStep
  BY <1>0, <1>1 DEF LatchStep, Forth, WaitStep
<1> QED  BY <1>0, <1>3, <1>4 DEF Promised

\* Behavior.tick: a link loss seals the FSM before the level hears of it, and it is
\* then what Account will be told; a wait ends in FAILSAFE or in ALERT.
LEMMA StepBehave ==
    ASSUME AlarmInv, NEW ll \in BOOLEAN, NEW tl \in BOOLEAN, NEW un \in BOOLEAN,
           NEW ex \in BOOLEAN, Behave(ll, tl, un, ex)
    PROVE  Promised
<1> DEFINE hold == Holding(host)
           f0 == Elapse(host.fsm, Most)
           f1 == HandleIf(ll, f0, hold, "LINK_LOST")
           f2 == HandleIf(tl, f1, hold, "TARGET_LOST")
           f3 == WatchTimers(f2, hold, After)
           f4 == HandleIf(un /\ ~hold /\ f3.state = "PATROL", f3, hold, "GOAL_UNREACHABLE")
           g  == IF ex THEN "no" ELSE host.voice.granted
           tr == IF f4.state # f3.state THEN Known("GOAL_UNREACHABLE")
                 ELSE IF f3.state # f2.state THEN Known(TimerEvent(f2.state))
                 ELSE IF f2.state # f1.state THEN Known("TARGET_LOST")
                 ELSE IF f1.state # f0.state THEN "LINK_LOST" ELSE "none"
           S  == host.fsm.state
<1>0. /\ HostOK(host) /\ Agree(host) /\ Window(host) /\ loop.at = "behave"
      /\ host' = [host EXCEPT !.fsm = f4, !.voice.granted = g]
      /\ loop' = [at |-> "account", trigger |-> tr]
      /\ UNCHANGED <<mode, settling, asked, utter>>
  BY DEF Behave, AlarmInv
<1>1. f0 \in FsmType(Most) /\ f0.state = S /\ S \in States
  <2>1. host.fsm \in FsmType(Most)
    BY <1>0 DEF HostOK, HostType
  <2> QED  BY <2>1, MostNat DEF Elapse, FsmType
<1> HIDE DEF f0
<1>2. f1 \in FsmType(Most) /\ \/ f1 = f0 /\ (ll => S = "FAILSAFE")
                              \/ S # "FAILSAFE" /\ f1.state = "FAILSAFE"
  <2>1. CASE ~ll
    BY <1>1, <2>1 DEF HandleIf
  <2>2. CASE ll
    <3>1. f1 = Handle(f0, hold, "LINK_LOST")
      BY <2>2 DEF HandleIf
    <3>2. Can(f0.state, "LINK_LOST") <=> S # "FAILSAFE"
      BY <1>1, CanSeal
    <3>3. "LINK_LOST" \in PassesHold
      BY DEF PassesHold
    <3>4. S # "FAILSAFE" => f1.state = "FAILSAFE"
      <4> HIDE DEF f1, hold
      <4>1. S # "FAILSAFE" => /\ Can(f0.state, "LINK_LOST")
                              /\ f1.state = Table[<<f0.state, "LINK_LOST">>]
        BY <3>1, <3>2, <3>3, HandleMoves
      <4> QED  BY <4>1, CanFailsafe
    <3>5. S = "FAILSAFE" => f1 = f0
      BY <3>1, <3>2, HandleMoves
    <3> QED  BY <1>1, <3>1, <3>4, <3>5, HandleType
  <2> QED  BY <2>1, <2>2
<1> HIDE DEF f1
<1>3. ASSUME NEW f \in FsmType(Most), NEW c, NEW e, NEW k,
             e \in {"TARGET_LOST", "GOAL_UNREACHABLE", "SCAN_DUE", "SCAN_DONE", "AUTH_FAILED"},
             k = f \/ k = Handle(f, c, e)
      PROVE  /\ k \in FsmType(Most)
             /\ k.state = f.state \/ (k.state \notin {"FAILSAFE", "AUTH_WAIT"} /\ f.state # "FAILSAFE"
                                      /\ Can(f.state, e) /\ k.state = Table[<<f.state, e>>])
  <2>1. CASE k = f
    BY <1>3, <2>1
  <2>2. CASE k = Handle(f, c, e)
    <3>1. k \in FsmType(Most)
      BY <2>2, HandleType
    <3>2. CASE Can(f.state, e) /\ k.state = Table[<<f.state, e>>]
      <4>1. k.state # "FAILSAFE" /\ k.state # "AUTH_WAIT" /\ f.state # "FAILSAFE"
        BY <1>3, <3>2, CanFailsafe, CanAuthWait, CanSealed
      <4> QED  BY <3>1, <3>2, <4>1
    <3> QED  BY <2>2, <3>1, <3>2, HandleMoves
  <2> QED  BY <1>3, <2>1, <2>2
<1>4. /\ f2 \in FsmType(Most)
      /\ f2.state = f1.state \/ (f2.state \notin {"FAILSAFE", "AUTH_WAIT"} /\ f1.state # "FAILSAFE"
                                 /\ f1.state # "AUTH_WAIT")
  <2>1. f2 = f1 \/ f2 = Handle(f1, hold, "TARGET_LOST")
    BY DEF HandleIf
  <2> HIDE DEF f2, hold
  <2>2. /\ f2 \in FsmType(Most)
        /\ f2.state = f1.state \/ (f2.state \notin {"FAILSAFE", "AUTH_WAIT"} /\ f1.state # "FAILSAFE"
                                   /\ Can(f1.state, "TARGET_LOST"))
    <3>1. f1 \in FsmType(Most)
      BY <1>2
    <3>2. CASE f2 = f1
      BY <3>1, <3>2
    <3>3. CASE f2 = Handle(f1, hold, "TARGET_LOST")
      <4>1. /\ f2 \in FsmType(Most)
            /\ f2.state = f1.state \/ (f2.state \notin {"FAILSAFE", "AUTH_WAIT"} /\ f1.state # "FAILSAFE"
                    /\ Can(f1.state, "TARGET_LOST") /\ f2.state = Table[<<f1.state, "TARGET_LOST">>])
        BY <1>3, <3>1, <3>3
      <4> QED  BY <4>1
    <3> QED  BY <2>1, <3>2, <3>3
  <2>3. f1.state = "AUTH_WAIT" => ~Can(f1.state, "TARGET_LOST")
    BY CanNotWait
  <2> QED  BY <2>2, <2>3
<1> HIDE DEF f2
<1>5. /\ f3 \in FsmType(Most)
      /\ f3.state = f2.state \/ (f3.state \notin {"FAILSAFE", "AUTH_WAIT"} /\ f2.state # "FAILSAFE"
                                 /\ (f2.state = "AUTH_WAIT" => f3.state # "PATROL"))
  <2>1. CASE ~Due(f2, After)
    BY <1>4, <2>1 DEF WatchTimers
  <2>2. CASE Due(f2, After)
    <3> DEFINE q == [f2 EXCEPT !.fired = TRUE]
               e == TimerEvent(f2.state)
    <3>1. q \in FsmType(Most) /\ q.state = f2.state
      BY <1>4 DEF FsmType
    <3>2. e \in {"SCAN_DUE", "SCAN_DONE", "AUTH_FAILED"} /\ (f2.state = "AUTH_WAIT" => e = "AUTH_FAILED")
      BY <2>2 DEF Due, TimerEvent
    <3>3. f3 = Handle(q, hold, e)
      BY <2>2 DEF WatchTimers
    <3> HIDE DEF q, e, f3, hold
    <3>4. /\ f3 \in FsmType(Most)
          /\ f3.state = q.state \/ (f3.state \notin {"FAILSAFE", "AUTH_WAIT"} /\ q.state # "FAILSAFE"
                                    /\ Can(q.state, e) /\ f3.state = Table[<<q.state, e>>])
      BY <1>3, <3>1, <3>2, <3>3
    <3>5. q.state = "AUTH_WAIT" => f3.state = q.state \/ f3.state # "PATROL"
      BY <3>1, <3>2, <3>4, CanAuthWait
    <3> QED  BY <3>1, <3>4, <3>5
  <2> QED  BY <2>1, <2>2
<1> HIDE DEF f3
<1>6. /\ f4 \in FsmType(Most)
      /\ f4.state = f3.state \/ (f4.state \notin {"FAILSAFE", "AUTH_WAIT", "PATROL"} /\ f3.state = "PATROL")
  <2>1. CASE un /\ ~hold /\ f3.state = "PATROL"
    <3>1. f4 = Handle(f3, hold, "GOAL_UNREACHABLE")
      BY <2>1 DEF HandleIf
    <3> HIDE DEF f4, hold
    <3>2. /\ f4 \in FsmType(Most)
          /\ f4.state = f3.state \/ (f4.state \notin {"FAILSAFE", "AUTH_WAIT"} /\ f3.state # "FAILSAFE"
                  /\ Can(f3.state, "GOAL_UNREACHABLE") /\ f4.state = Table[<<f3.state, "GOAL_UNREACHABLE">>])
      BY <1>3, <1>5, <3>1
    <3> QED  BY <2>1, <3>2 DEF Can
  <2>2. CASE ~(un /\ ~hold /\ f3.state = "PATROL")
    <3>1. f4 = f3
      BY <2>2 DEF HandleIf
    <3> QED  BY <1>5, <3>1
  <2> QED  BY <2>1, <2>2
<1> HIDE DEF f4
<1>7. /\ f4.state = "AUTH_WAIT" => S = "AUTH_WAIT"
      /\ S = "AUTH_WAIT" => f4.state # "PATROL"
      /\ S = "FAILSAFE" => f4.state = "FAILSAFE"
      /\ f4.state = "FAILSAFE" => S = "FAILSAFE" \/ tr = "LINK_LOST"
      /\ tr = "LINK_LOST" => f4.state = "FAILSAFE"
      /\ tr \in {"none", "LINK_LOST"} \cup RaisesAlarm
  <2>1. /\ Known("GOAL_UNREACHABLE") = "none" /\ Known("TARGET_LOST") = "none"
        /\ Known(TimerEvent(f2.state)) \in {"none"} \cup RaisesAlarm
        /\ "LINK_LOST" \notin {"none"} \cup RaisesAlarm
    BY DEF Known, TimerEvent, RaisesAlarm, RaisesFailsafe
  <2>2. /\ f4.state = "AUTH_WAIT" => S = "AUTH_WAIT"
        /\ S = "AUTH_WAIT" => f4.state # "PATROL"
        /\ S = "FAILSAFE" => f4.state = "FAILSAFE"
    BY <1>1, <1>2, <1>4, <1>5, <1>6
  <2>3. /\ f4.state = "FAILSAFE" => S = "FAILSAFE" \/ tr = "LINK_LOST"
        /\ tr = "LINK_LOST" => f4.state = "FAILSAFE"
    BY <1>1, <1>2, <1>4, <1>5, <1>6, <2>1
  <2>4. tr \in {"none", "LINK_LOST"} \cup RaisesAlarm
    BY <2>1
  <2> QED  BY <2>2, <2>3, <2>4
<1> HIDE DEF tr
<1>8. /\ host' \in HostType /\ host'.fsm = f4 /\ host'.lv = host.lv
      /\ host'.voice.open = host.voice.open /\ host'.voice.granted = g
  <2>1. host \in HostType
    BY <1>0 DEF HostOK
  <2>2. g \in {"no", "old", "new"}
    BY <2>1 DEF HostType, VoiceType
  <2> HIDE DEF g
  <2> QED  BY <1>0, <1>6, <2>1, <2>2 DEF HostType, VoiceType
<1>9. HostOK(host') /\ Window(host')
  BY <1>0, <1>7, <1>8 DEF HostOK, Window
<1>10. loop' \in LoopType /\ loop'.at = "account" /\ loop'.trigger = tr
  BY <1>0, <1>7 DEF LoopType, RaisesFailsafe
<1>11. Agree(host') \/ (host'.fsm.state = "FAILSAFE" /\ loop'.trigger = "LINK_LOST")
  BY <1>0, <1>7, <1>8, <1>10 DEF Agree
<1>12. loop'.trigger \in RaisesFailsafe => host'.fsm.state = "FAILSAFE"
  BY <1>7, <1>8, <1>10 DEF RaisesFailsafe, RaisesAlarm
<1>13. AlarmInv'
  BY <1>0, <1>8, <1>9, <1>10, <1>11, <1>12 DEF HostType, AlarmInv, AlarmTypeOK
<1>14. LatchStep /\ WaitStep
  BY <1>0, <1>7, <1>8, <1>10 DEF LatchStep, Forth, WaitStep
<1> QED  BY <1>0, <1>13, <1>14 DEF Promised

\* The end of Runtime.tick: the level hears what Behavior.tick has done.
LEMMA StepAccount ==
    ASSUME AlarmInv, Account
    PROVE  /\ AlarmInv' /\ LatchStep /\ WaitStep
           /\ loop.trigger = "AUTH_FAILED" => Alarmed(host'.lv)
<1> DEFINE m == NoteEvent(host.lv, loop.trigger, TRUE)
<1>0. /\ HostOK(host) /\ Window(host) /\ loop.at = "account" /\ host' = [host EXCEPT !.lv = m]
      /\ loop' = [at |-> "drain", trigger |-> "none"]
      /\ UNCHANGED <<mode, settling, asked, utter>>
  BY DEF Account, Then, AlarmInv
<1>1. loop.trigger \in {"none"} \cup RaisesAlarm \cup RaisesFailsafe
  BY DEF AlarmInv, AlarmTypeOK, LoopType
<1>2. loop.trigger # "RESET_CONFIRMED"
  BY <1>1 DEF RaisesAlarm, RaisesFailsafe
<1>3. /\ LevelOK(m) /\ (Alarmed(host.lv) => Alarmed(m))
      /\ loop.trigger \in RaisesAlarm => Alarmed(m)
      /\ loop.trigger \in RaisesFailsafe => m.level = "F"
      /\ loop.trigger \notin RaisesFailsafe => (m.level = "F" <=> host.lv.level = "F")
  BY <1>0, <1>2, EventLevel DEF HostOK
<1> HIDE DEF m
<1>4. host' \in HostType /\ host'.lv = m /\ host'.fsm = host.fsm /\ host'.voice = host.voice
  <2>1. host \in HostType /\ m \in LevelType
    BY <1>0, <1>3 DEF HostOK, LevelOK
  <2> QED  BY <1>0, <2>1 DEF HostType
<1>5. Agree(host')
  <2>1. CASE loop.trigger \in RaisesFailsafe
    BY <1>3, <1>4, <2>1 DEF Agree, AlarmInv
  <2>2. CASE loop.trigger \notin RaisesFailsafe
    BY <1>3, <1>4, <2>2 DEF Agree, AlarmInv, RaisesFailsafe
  <2> QED  BY <2>1, <2>2
<1>6. loop' \in LoopType
  BY <1>0 DEF LoopType
<1>7. HostOK(host') /\ Window(host')
  BY <1>0, <1>3, <1>4 DEF HostOK, Window
<1>8. AlarmInv'
  BY <1>0, <1>4, <1>5, <1>6, <1>7 DEF HostType, AlarmInv, AlarmTypeOK, RaisesFailsafe
<1>9. LatchStep /\ WaitStep
  BY <1>0, <1>3, <1>4 DEF LatchStep, Forth, WaitStep
<1> QED  BY <1>3, <1>4, <1>8, <1>9 DEF RaisesAlarm

------------------------------------------------------------------------------
\* Every step together, and the first state.

LEMMA AlarmInitOK == AlarmInit => AlarmInv
<1> SUFFICES ASSUME AlarmInit PROVE AlarmInv
  OBVIOUS
<1> DEFINE v == [open |-> FALSE, tries |-> 0, deferred |-> FALSE, granted |-> "no", ready |-> FALSE]
<1>1. /\ host = [fsm |-> At("IDLE"), lv |-> Calm, voice |-> v]
      /\ mode \in {"guard", "factory"} /\ utter = "none" /\ loop = [at |-> "drain", trigger |-> "none"]
  BY DEF AlarmInit
<1>2. settling \in BOOLEAN /\ asked \in BOOLEAN
  BY Zenon DEF AlarmInit
<1>3. At("IDLE") \in FsmType(Most) /\ At("IDLE").state = "IDLE"
  BY MostNat DEF At, FsmType, States
<1>4. LevelOK(Calm) /\ Calm \in LevelType /\ Calm.level # "F"
  BY DEF Calm, LevelOK, LevelType, Levels
<1>5. v \in VoiceType
  <2>1. 0 \in 0..(MaxAttempts - 1)
    BY AlarmAssumption
  <2> QED  BY <2>1 DEF VoiceType
<1> HIDE DEF v
<1>6. host \in HostType /\ host.fsm.state = "IDLE" /\ host.lv = Calm
  BY <1>1, <1>3, <1>4, <1>5 DEF HostType
<1>7. loop \in LoopType /\ loop.trigger = "none"
  BY <1>1 DEF LoopType
<1> QED  BY <1>1, <1>2, <1>4, <1>6, <1>7 DEF AlarmInv, AlarmTypeOK, HostOK, HostType, Agree, Window, RaisesFailsafe

\* A judge of the loop hears its old words, if the window is open, without effect.
Unheard == utter = "old" /\ utter' = "none" /\ loop.at # "open" => host' = host

\* The failed wait is an alarm by the end of the tick at the latest.
Told == loop.trigger = "AUTH_FAILED" => loop'.at = "account" \/ Alarmed(host'.lv)

LEMMA StepPieces ==
    ASSUME AlarmInv, Pieces
    PROVE  AlarmInv' /\ LatchStep /\ WaitStep /\ Unheard /\ Told
<1>0. loop.trigger = "AUTH_FAILED" => loop.at = "account"
  BY DEF AlarmInv
<1>1. ASSUME NEW way \in Ways, NEW t \in BOOLEAN, Drain(way, t) PROVE Promised /\ utter' = utter
  BY <1>1, StepDrain DEF Drain
<1>2. ASSUME NEW w \in BOOLEAN, NEW l \in BOOLEAN, NEW h \in BOOLEAN, Escalate(w, l, h)
      PROVE  Promised /\ (utter = "old" => utter' = "old")
  BY <1>2, StepEscalate
<1>3. ASSUME Open PROVE Promised /\ utter' = utter
  BY <1>3, StepOpen DEF Open
<1>4. ASSUME NEW l \in BOOLEAN, NEW t \in BOOLEAN, NEW u \in BOOLEAN, NEW x \in BOOLEAN, Behave(l, t, u, x)
      PROVE  Promised /\ utter' = utter
  BY ZenonT(30), <1>4, StepBehave DEF Behave
<1>5. CASE Account
  <2>1. utter' = utter
    BY <1>5 DEF Account
  <2> QED  BY <1>5, <2>1, StepAccount DEF Unheard, Told
<1>6. CASE Promised /\ (utter = "old" => utter' = "old")
  BY <1>0, <1>6 DEF Promised, Unheard, Told
<1> QED  BY <1>1, <1>2, <1>3, <1>4, <1>5, <1>6 DEF Pieces, Ways

LEMMA StepNext ==
    ASSUME AlarmInv, [AlarmNext]_alarmVars
    PROVE  AlarmInv' /\ LatchStep /\ WaitStep /\ Unheard /\ Told
<1>0. loop.trigger = "AUTH_FAILED" => loop.at = "account"
  BY DEF AlarmInv
<1>1. CASE Promised /\ (utter = "old" => utter' # "none")
  BY <1>0, <1>1 DEF Promised, Unheard, Told
<1>2. CASE Promised /\ Unheard
  BY <1>0, <1>2 DEF Promised, Told
<1>3. utter' = utter => (utter = "old" => utter' # "none")
  OBVIOUS
<1>4. CASE Pieces
  BY <1>4, StepPieces
<1>5. ASSUME NEW o \in BOOLEAN, NEW e \in {"none", "ONBOARD_FAILSAFE", "ONBOARD_AVOID", "AVOID_CLEARED"},
             Report(o, e)
      PROVE  Promised /\ utter' = utter
  BY <1>5, StepReport DEF Report
<1>6. ASSUME RequestReset PROVE Promised /\ utter' = utter
  BY <1>6, StepRequestReset DEF RequestReset
<1>7. ASSUME StartPatrol PROVE Promised /\ utter' = utter
  BY <1>7, StepStartPatrol DEF StartPatrol
<1>8. ASSUME NEW e \in Seen, Sense(e) PROVE Promised /\ utter' = utter
  BY <1>8, StepSense DEF Sense, Sensing
<1>9. ASSUME SeePerson PROVE Promised /\ utter' = utter
  BY <1>9, StepSeePerson DEF SeePerson, Sensing
<1>10. ASSUME SuspectFall PROVE Promised /\ utter' = utter
  BY <1>10, StepSuspectFall DEF SuspectFall, Sensing
<1>11. ASSUME NEW o \in {"away", "right", "wrong"}, NEW a \in BOOLEAN, SeeBadge(o, a)
       PROVE  Promised /\ utter' = utter
  BY ZenonT(30), <1>11, StepSeeBadge DEF SeeBadge, Sensing
<1>12. ASSUME NEW e \in {"ESTOP", "MANUAL_ON", "MANUAL_OFF"}, Command(e) PROVE Promised /\ utter' = utter
  BY <1>12, StepCommand DEF Command
<1>13. ASSUME RouteStop PROVE Promised /\ utter' = utter
  BY <1>13, StepRouteStop DEF RouteStop
<1>14. ASSUME AskAlarmConfirm PROVE Promised /\ utter' = utter
  BY <1>14, StepAskAlarmConfirm DEF AskAlarmConfirm
<1>15. ASSUME Speak PROVE Promised /\ (utter = "old" => utter' # "none")
  BY <1>15, StepSpeak DEF Speak
<1>16. ASSUME NEW s \in BOOLEAN, Listening(s) PROVE Promised /\ utter' = utter
  BY <1>16, StepListening DEF Listening
<1>17. ASSUME NEW ok \in BOOLEAN, NEW s \in BOOLEAN, Verdict(ok, s) PROVE Promised /\ Unheard
  BY <1>17, StepVerdict DEF Unheard
<1>18. CASE UNCHANGED alarmVars
  <2>1. UNCHANGED <<mode, host, settling, asked, utter, loop>>
    BY <1>18 DEF alarmVars
  <2>2. Promised
    BY <2>1, AskingStep DEF AlarmInv, AlarmTypeOK
  <2> QED  BY <1>1, <1>3, <2>1, <2>2
<1> QED
  BY <1>1, <1>2, <1>3, <1>4, <1>5, <1>6, <1>7, <1>8, <1>9, <1>10, <1>11, <1>12, <1>13, <1>14,
     <1>15, <1>16, <1>17, <1>18 DEF AlarmNext

\* AlarmInv is inductive.
LEMMA AlarmInvHolds == AlarmSpec => []AlarmInv
<1>1. AlarmInv /\ [AlarmNext]_alarmVars => AlarmInv'
  BY StepNext
<1> QED  BY <1>1, AlarmInitOK, PTL DEF AlarmSpec

\* The types of the alarm, the FSM and the window; the clock of a stay never passes
\* its bound, nor does the number of failed attempts (fsm.py, voice_auth.py).
THEOREM AlarmTyped == AlarmSpec => []AlarmTypeOK
<1>1. AlarmInv => AlarmTypeOK
  BY DEF AlarmInv
<1> QED  BY <1>1, AlarmInvHolds, PTL

\* FSM and level agree on the failsafe whenever Runtime.tick is not between
\* Behavior.tick and note_event: from whichever thread and in whichever order the
\* events come.
THEOREM FailsafeAgreed == AlarmSpec => []FailsafeAgrees
<1>1. AlarmInv => FailsafeAgrees
  BY DEF AlarmInv, FailsafeAgrees, Agree
<1> QED  BY <1>1, AlarmInvHolds, PTL

\* The host implements AlarmLatch: an alarm is taken down by a person's confirmation
\* and by nothing else, an emergency stop in between included, and the failsafe ends
\* with a reset that a person asked for (escalation.py, ADR-26).
THEOREM AlarmsLatched == AlarmSpec => AlarmLatched
<1>1. AlarmInit => Latch!Init
  <2> SUFFICES ASSUME AlarmInit PROVE Latch!Init
    OBVIOUS
  <2>1. host.lv = Calm /\ asked = FALSE /\ settling = FALSE
    BY DEF AlarmInit
  <2> QED  BY <2>1 DEF Latch!Init, Alarmed, Calm
<1>2. AlarmInv /\ [AlarmNext]_alarmVars => [Latch!Next]_<<Alarmed(host.lv), host.lv.level = "F", asked, settling>>
  <2> SUFFICES ASSUME AlarmInv, [AlarmNext]_alarmVars PROVE Latch!Next
    OBVIOUS
  <2>1. LatchStep /\ AlarmInv'
    BY StepNext
  <2>2. asked' \in BOOLEAN /\ settling' \in BOOLEAN
    BY <2>1 DEF AlarmInv, AlarmTypeOK
  <2>3. Alarmed(host'.lv) \in BOOLEAN /\ (host'.lv.level = "F") \in BOOLEAN
    <3>1. LevelOK(host'.lv)
      BY <2>1 DEF AlarmInv, HostOK
    <3> QED  BY <3>1, Zenon DEF Alarmed
  <2>4. CASE Forth(host, host') /\ (asked => asked') /\ (settling => settling')
    BY <2>2, <2>3, <2>4, Zenon DEF Forth, Latch!Next, Latch!Raise
  <2>5. CASE /\ asked /\ ~asked' /\ settling' = settling
             /\ Alarmed(host'.lv) <=> Alarmed(host.lv) /\ host.lv.level = "F"
             /\ host'.lv.level = "F" <=> host.lv.level = "F"
    <3>1. asked' = FALSE /\ (settling => settling')
      BY <2>2, <2>5, Zenon
    <3>2. Alarmed(host'.lv) = (Alarmed(host.lv) /\ host.lv.level = "F")
      BY <2>5, Zenon DEF Alarmed
    <3>3. (host'.lv.level = "F") = (host.lv.level = "F")
      BY <2>5
    <3> QED  BY <2>2, <2>5, <3>1, <3>2, <3>3, Zenon DEF Latch!Next, Latch!Confirm
  <2>6. CASE /\ settling /\ ~settling' /\ asked' = asked
             /\ Alarmed(host'.lv) <=> Alarmed(host.lv)
    <3>1. settling' = FALSE
      BY <2>2, <2>6, Zenon
    <3>2. Alarmed(host'.lv) = Alarmed(host.lv)
      BY <2>6, Zenon DEF Alarmed
    <3> QED  BY <2>3, <2>6, <3>1, <3>2, Zenon DEF Latch!Next, Latch!Unseal
  <2> QED  BY <2>1, <2>4, <2>5, <2>6 DEF LatchStep
<1> QED  BY <1>1, <1>2, AlarmInvHolds, PTL DEF AlarmSpec, AlarmLatched, Latch!Spec

\* A wait that ends in ALERT, by its time, by a wrong word too many or by a wrong
\* badge, is an alarm, also when Behavior.tick ends it and Runtime.tick tells the
\* level afterwards (runtime.py).
THEOREM FailuresAlarm == AlarmSpec => FailureAlarms
<1>1. ASSUME AlarmInv, [AlarmNext]_alarmVars,
             host.fsm.state = "AUTH_WAIT" \/ loop.trigger = "AUTH_FAILED",
             host'.fsm.state = "ALERT", loop'.at # "account"
      PROVE  Alarmed(host'.lv)
  BY <1>1, StepNext DEF WaitStep, Told
<1>2. AlarmInv /\ [AlarmNext]_alarmVars =>
        [ /\ host.fsm.state = "AUTH_WAIT" \/ loop.trigger = "AUTH_FAILED"
          /\ host'.fsm.state = "ALERT" /\ loop'.at # "account"
          => Alarmed(host'.lv) ]_alarmVars
  BY <1>1
<1> QED  BY <1>2, AlarmInvHolds, PTL DEF AlarmSpec, FailureAlarms

\* A verdict about words that are older than the wait changes nothing of the host
\* once the window is open (voice_auth.py, _stale_against).
THEOREM StaleIgnored == AlarmSpec => StaleVerdictIgnored
<1>1. AlarmInv /\ [AlarmNext]_alarmVars =>
        [ utter = "old" /\ utter' = "none" /\ loop.at # "open" => UNCHANGED host ]_alarmVars
  BY StepNext DEF Unheard
<1> QED  BY <1>1, AlarmInvHolds, PTL DEF AlarmSpec, StaleVerdictIgnored

\* AUTH_WAIT goes back to the patrol for a badge after a passphrase of this very
\* wait, or for the confirmation of a held alarm (auth_judge.py, voice_auth.py).
THEOREM BothShown == AlarmSpec => BothFactors
<1>1. AlarmInv /\ [AlarmNext]_alarmVars =>
        [ host.fsm.state = "AUTH_WAIT" /\ host'.fsm.state = "PATROL"
          => \/ host.voice.granted = "new" /\ host.voice.ready
             \/ Holding(host) /\ asked ]_alarmVars
  BY StepNext DEF WaitStep
<1> QED  BY <1>1, AlarmInvHolds, PTL DEF AlarmSpec, BothFactors
==============================================================================

----------------------------- MODULE ControlProofs -----------------------------
(***************************************************************************)
(* Theorems about the host's transition table and about Control.           *)
(*                                                                         *)
(* The table.  What Table says of every transition, for the proofs here    *)
(* and for those of HostAlarmProofs: a lookup chooses one row (RowOf), so  *)
(* a fact about all rows is a fact about every transition.                 *)
(*                                                                         *)
(* Control.  A stop of the mission is final.  StopIsFinal is not           *)
(* inductive: that the robot rests after a stop depends on what the loop   *)
(* has taken and not handed over yet (IdleTaken), on the goal that waits   *)
(* to be dropped (OldGoal), and on the requests that a stop has forgotten  *)
(* and nobody has made again (Rests).                                      *)
(***************************************************************************)
EXTENDS Control, TLAPS

------------------------------------------------------------------------------
\* The table.

\* A transition that Can allows is a row of the table into another state: the
\* function that looks it up chooses that row and no other.
LEMMA RowOf ==
    ASSUME NEW s, NEW e, Can(s, e)
    PROVE  /\ <<s, e, Table[<<s, e>>]>> \in Rows
           /\ Table[<<s, e>>] # s /\ ~Sealed(s, e)
<1>1. /\ <<s, e>> \in DOMAIN Table /\ Table[<<s, e>>] # s /\ ~Sealed(s, e)
  BY DEF Can
<1>2. <<s, e>> \in { <<r[1], r[2]>> : r \in Rows }
  BY <1>1 DEF Table
<1>3. Table[<<s, e>>] = (CHOOSE r \in Rows : <<r[1], r[2]>> = <<s, e>>)[3]
  BY <1>2 DEF Table
<1>4. PICK q \in Rows : <<q[1], q[2]>> = <<s, e>>
  BY <1>2
<1> DEFINE r == CHOOSE r \in Rows : <<r[1], r[2]>> = <<s, e>>
<1>5. r \in Rows /\ <<r[1], r[2]>> = <<s, e>>
  BY <1>4
<1>6. \A x \in Rows : x = <<x[1], x[2], x[3]>>
  BY DEF Rows
<1>7. r = <<s, e, Table[<<s, e>>]>>
  BY <1>3, <1>5, <1>6
<1> QED  BY <1>1, <1>5, <1>7

\* No transition leads out of the states.
LEMMA CanStates ==
    ASSUME NEW s, NEW e, Can(s, e)
    PROVE  s \in States /\ Table[<<s, e>>] \in States
<1>1. <<s, e, Table[<<s, e>>]>> \in Rows
  BY RowOf
<1>2. ASSUME NEW d, <<s, e, d>> \in Rows PROVE s \in States /\ d \in States
  BY <1>2 DEF Rows, States
<1> QED  BY <1>1, <1>2

\* FAILSAFE is entered by these three events, wherever they are heard, and by no other.
LEMMA CanFailsafe ==
    ASSUME NEW s, NEW e, Can(s, e)
    PROVE  Table[<<s, e>>] = "FAILSAFE" <=> e \in {"ONBOARD_FAILSAFE", "LINK_LOST", "ESTOP"}
<1>1. <<s, e, Table[<<s, e>>]>> \in Rows
  BY RowOf
<1>2. ASSUME NEW d, <<s, e, d>> \in Rows
      PROVE  d = "FAILSAFE" <=> e \in {"ONBOARD_FAILSAFE", "LINK_LOST", "ESTOP"}
  BY <1>2 DEF Rows, States
<1> QED  BY <1>1, <1>2

\* A robot that rests is set going by a patrol, a manual command, an alarm of the
\* hazard map or a lost position, and by no other event.
LEMMA CanFromRest ==
    ASSUME NEW s \in {"IDLE", "MANUAL", "FAILSAFE"}, NEW e, Can(s, e),
           e \notin {"START_PATROL", "MANUAL_ON", "HAZARD_ALARM", "POSE_STALE"}
    PROVE  Table[<<s, e>>] \in {"IDLE", "FAILSAFE"}
<1>1. <<s, e, Table[<<s, e>>]>> \in Rows
  BY RowOf
<1>2. ASSUME NEW d, <<s, e, d>> \in Rows PROVE d \in {"IDLE", "FAILSAFE"}
  BY <1>2 DEF Rows, States
<1> QED  BY <1>1, <1>2

\* FAILSAFE is heard in every other state, and left by one event only.
LEMMA CanSeal ==
    ASSUME NEW s \in States, NEW e \in {"ONBOARD_FAILSAFE", "LINK_LOST", "ESTOP"}
    PROVE  Can(s, e) <=> s # "FAILSAFE"
<1>1. <<s, e, "FAILSAFE">> \in Rows
  BY DEF Rows
<1>2. <<s, e>> \in DOMAIN Table
  BY <1>1 DEF Table
<1>3. \A d : <<s, e, d>> \in Rows => d = "FAILSAFE"
  BY DEF Rows
<1>4. Table[<<s, e>>] = (CHOOSE r \in Rows : <<r[1], r[2]>> = <<s, e>>)[3]
  BY <1>2 DEF Table
<1> DEFINE r == CHOOSE r \in Rows : <<r[1], r[2]>> = <<s, e>>
<1>5. r \in Rows /\ <<r[1], r[2]>> = <<s, e>>
  BY <1>1
<1>6. \A x \in Rows : x = <<x[1], x[2], x[3]>>
  BY DEF Rows
<1>7. Table[<<s, e>>] = "FAILSAFE"
  BY <1>3, <1>4, <1>5, <1>6
<1> QED  BY <1>2, <1>7 DEF Can, Sealed

\* Manual control is taken from every state but FAILSAFE, and MANUAL itself.
LEMMA CanManual ==
    ASSUME NEW s \in States, ~Can(s, "MANUAL_ON")
    PROVE  s \in {"MANUAL", "FAILSAFE"}
<1>1. <<s, "MANUAL_ON", "MANUAL">> \in Rows
  BY DEF Rows
<1>2. <<s, "MANUAL_ON">> \in DOMAIN Table
  BY <1>1 DEF Table
<1>3. \A d : <<s, "MANUAL_ON", d>> \in Rows => d = "MANUAL"
  BY DEF Rows
<1>4. Table[<<s, "MANUAL_ON">>] = (CHOOSE r \in Rows : <<r[1], r[2]>> = <<s, "MANUAL_ON">>)[3]
  BY <1>2 DEF Table
<1> DEFINE r == CHOOSE r \in Rows : <<r[1], r[2]>> = <<s, "MANUAL_ON">>
<1>5. r \in Rows /\ <<r[1], r[2]>> = <<s, "MANUAL_ON">>
  BY <1>1
<1>6. \A x \in Rows : x = <<x[1], x[2], x[3]>>
  BY DEF Rows
<1>7. Table[<<s, "MANUAL_ON">>] = "MANUAL"
  BY <1>3, <1>4, <1>5, <1>6
<1> QED  BY <1>2, <1>7 DEF Can, Sealed

\* AUTH_WAIT is entered by one event; an answer, or the person who confirms a held
\* alarm, leads on to PATROL, and a failure to ALERT.
LEMMA CanAuthWait ==
    ASSUME NEW s, NEW e, Can(s, e)
    PROVE  /\ Table[<<s, e>>] = "AUTH_WAIT" => e = "AUTH_REQUIRED"
           /\ s = "AUTH_WAIT" /\ Table[<<s, e>>] = "ALERT" => e = "AUTH_FAILED"
           /\ s = "AUTH_WAIT" /\ Table[<<s, e>>] = "PATROL" => e \in {"AUTH_OK", "ALARM_CONFIRMED"}
<1>1. <<s, e, Table[<<s, e>>]>> \in Rows
  BY RowOf
<1>2. ASSUME NEW d, <<s, e, d>> \in Rows
      PROVE  /\ d = "AUTH_WAIT" => e = "AUTH_REQUIRED"
             /\ s = "AUTH_WAIT" /\ d = "ALERT" => e = "AUTH_FAILED"
             /\ s = "AUTH_WAIT" /\ d = "PATROL" => e \in {"AUTH_OK", "ALARM_CONFIRMED"}
  BY <1>2 DEF Rows, States
<1> QED  BY <1>1, <1>2

\* FAILSAFE hears one event.
LEMMA CanSealed ==
    ASSUME NEW e, Can("FAILSAFE", e)
    PROVE  e = "RESET_CONFIRMED"
BY DEF Can, Sealed

\* A patrol and the three states a fall, a zone or a timer may change from.
LEMMA CanPatrol ==
    ASSUME NEW e \in {"ZONE_ALARM_CONFIRMED", "FALL_RESOLVED", "ALARM_CONFIRMED", "TARGET_LOST",
                      "GOAL_UNREACHABLE", "START_PATROL", "MANUAL_OFF"}, NEW s, Can(s, e)
    PROVE  Table[<<s, e>>] \in {"PATROL", "IDLE"}
<1>1. <<s, e, Table[<<s, e>>]>> \in Rows
  BY RowOf
<1>2. ASSUME NEW d, <<s, e, d>> \in Rows PROVE d \in {"PATROL", "IDLE"}
  BY <1>2 DEF Rows, States
<1> QED  BY <1>1, <1>2

\* Where Handle leads: nowhere, or along a transition to the start of a new stay.
LEMMA HandleMoves ==
    ASSUME NEW f, NEW hold, NEW e, NEW k, k = Handle(f, hold, e)
    PROVE  \/ k = f /\ ~(Can(f.state, e) /\ (hold => e \in PassesHold))
           \/ /\ Can(f.state, e) /\ (hold => e \in PassesHold)
              /\ k = At(Table[<<f.state, e>>]) /\ k.state = Table[<<f.state, e>>]
BY DEF Handle, At

\* What AUTH_WAIT does not hear.
LEMMA CanNotWait ==
    ASSUME NEW e \in {"ZONE_ALARM_CONFIRMED", "FALL_RESOLVED", "TARGET_LOST", "START_PATROL"}
    PROVE  ~Can("AUTH_WAIT", e)
<1>1. ASSUME NEW d, <<"AUTH_WAIT", e, d>> \in Rows PROVE FALSE
  BY <1>1 DEF Rows
<1> QED  BY <1>1, RowOf

\* Where manual control leads, on and off.
LEMMA CanManualEnds ==
    ASSUME NEW s, NEW e, Can(s, e)
    PROVE  /\ e = "MANUAL_ON" => Table[<<s, e>>] = "MANUAL"
           /\ e = "MANUAL_OFF" => Table[<<s, e>>] = "IDLE"
<1>1. <<s, e, Table[<<s, e>>]>> \in Rows
  BY RowOf
<1>2. ASSUME NEW d, <<s, e, d>> \in Rows
      PROVE  (e = "MANUAL_ON" => d = "MANUAL") /\ (e = "MANUAL_OFF" => d = "IDLE")
  BY <1>2 DEF Rows, States
<1> QED  BY <1>1, <1>2

------------------------------------------------------------------------------
\* Control.

IdleTaken == tick.at \notin {"settle", "go"} => tick.taken = "none"

OldGoal == goal.old => requests.cancel /\ tick.at \in {"rest", "settle"}

Resting == {"IDLE", "MANUAL", "FAILSAFE"}

Rests ==
    stopped => /\ state \in Resting /\ intent = "stop"
               /\ requests.want = "none" /\ ~requests.patrol
               /\ tick.taken = "none" /\ tick.at \notin {"walk", "stand", "patrol"}

StopInv == ControlTypeOK /\ IdleTaken /\ OldGoal /\ Rests

\* Where an event leads: to a state, and out of rest only when somebody asks.
LEMMA TargetStates ==
    ASSUME NEW s \in States, NEW e
    PROVE  Target(s, e) \in States
BY CanStates DEF Target

LEMMA TargetRests ==
    ASSUME NEW s \in Resting, NEW e \in OfTick \cup OfRobot \cup {"ESTOP", "MANUAL_OFF"}
    PROVE  Target(s, e) \in Resting
<1>1. e \notin {"START_PATROL", "MANUAL_ON", "HAZARD_ALARM", "POSE_STALE"}
  BY DEF OfTick, OfRobot
<1> QED  BY <1>1, CanFromRest DEF Target, Resting

\* An event keeps the types, adds no request, and lets a robot rest.
LEMMA FireKeeps ==
    ASSUME ControlTypeOK, NEW e, Fire(e)
    PROVE  /\ state' \in States
           /\ requests' \in [want : {"none", "goto", "route"}, patrol : BOOLEAN,
                             cancel : BOOLEAN, feedback : BOOLEAN]
           /\ requests.cancel => requests'.cancel
           /\ requests.want = "none" => requests'.want = "none"
           /\ ~requests.patrol => ~requests'.patrol
           /\ e \in OfTick \cup OfRobot \cup {"ESTOP", "MANUAL_OFF"} /\ state \in Resting
              => state' \in Resting
<1> DEFINE ends == EndsMission(state, Target(state, e))
           Q == [want : {"none", "goto", "route"}, patrol : BOOLEAN,
                 cancel : BOOLEAN, feedback : BOOLEAN]
<1>1. state \in States /\ requests \in Q
  BY DEF ControlTypeOK
<1>2. state' = Target(state, e) /\ requests' = IF ends THEN Cancelled(requests) ELSE requests
  BY DEF Fire
<1>3. /\ Cancelled(requests) \in Q /\ Cancelled(requests).cancel
      /\ Cancelled(requests).want = "none" /\ ~Cancelled(requests).patrol
  BY <1>1 DEF Cancelled
<1>4. requests' \in {requests, Cancelled(requests)}
  BY <1>2
<1> HIDE DEF Q, ends
<1>5. /\ requests' \in Q
      /\ requests.cancel => requests'.cancel
      /\ requests.want = "none" => requests'.want = "none"
      /\ ~requests.patrol => ~requests'.patrol
  <2>1. CASE requests' = requests  BY <1>1, <2>1
  <2>2. CASE requests' = Cancelled(requests)  BY <1>3, <2>2
  <2> QED  BY <1>4, <2>1, <2>2
<1>6. state' \in States
  BY <1>1, <1>2, TargetStates
<1>7. e \in OfTick \cup OfRobot \cup {"ESTOP", "MANUAL_OFF"} /\ state \in Resting
      => state' \in Resting
  BY <1>2, TargetRests
<1> QED  BY <1>5, <1>6, <1>7 DEF Q

\* The first state.
LEMMA StopInit == ControlInit => StopInv
<1> SUFFICES ASSUME ControlInit PROVE StopInv
  OBVIOUS
<1>1. stopped \in BOOLEAN /\ hands \in BOOLEAN
  BY Zenon DEF ControlInit
<1>2. ControlTypeOK
  BY <1>1 DEF ControlInit, ControlTypeOK, NoGoal, States
<1>3. IdleTaken /\ OldGoal /\ Rests
  BY DEF ControlInit, IdleTaken, OldGoal, Rests, NoGoal
<1> QED  BY <1>2, <1>3 DEF StopInv

\* Every step of the loop and of the dashboard preserves the invariant.
LEMMA StopNext == StopInv /\ [ControlNext]_controlVars => StopInv'
<1> SUFFICES ASSUME StopInv, [ControlNext]_controlVars PROVE StopInv'
  OBVIOUS
<1> USE DEF StopInv
<1>1. CASE TakeRequest
  BY <1>1 DEF TakeRequest, ControlTypeOK, IdleTaken, OldGoal, Rests
<1>2. CASE SettleCancel
  <2>1. CASE requests.cancel
    <3> DEFINE b == requests.patrol /\ tick.taken = "none" /\ ~requests.feedback
    <3>1. /\ requests' = [requests EXCEPT !.cancel = FALSE, !.patrol = b]
          /\ goal' = NoGoal /\ tick' = [at |-> "go", taken |-> "none"]
          /\ UNCHANGED <<state, intent, desk, stopped, hands>>
      BY <1>2, <2>1 DEF SettleCancel
    <3>2. b \in BOOLEAN /\ (b => requests.patrol)
      BY Zenon
    <3> HIDE DEF b
    <3> QED  BY <3>1, <3>2 DEF NoGoal, ControlTypeOK, IdleTaken, OldGoal, Rests
  <2>2. CASE ~requests.cancel
    BY <1>2, <2>2 DEF SettleCancel, GoTo, ControlTypeOK, IdleTaken, OldGoal, Rests
  <2> QED  BY <2>1, <2>2
<1>3. ASSUME NEW a \in BOOLEAN, HandOver(a) PROVE StopInv'
  BY <1>3 DEF HandOver, ControlTypeOK, IdleTaken, OldGoal, Rests
<1>4. ASSUME NEW a \in {"started", "deferred", "refused"}, StartAsked(a) PROVE StopInv'
  BY <1>4, TargetStates DEF StartAsked, GoTo, NoGoal, ControlTypeOK, IdleTaken, OldGoal, Rests
<1>5. ASSUME NEW e \in OfTick, Occur(e) PROVE StopInv'
  BY <1>5, FireKeeps DEF Occur, GoTo, ControlTypeOK, IdleTaken, OldGoal, Rests
<1>6. ASSUME NEW h \in BOOLEAN, Direct(h) PROVE StopInv'
  BY <1>6 DEF Direct, GoTo, Halts, Yields, Resting, ControlTypeOK, IdleTaken, OldGoal, Rests
<1>7. ASSUME NEW w \in BOOLEAN, Sequence(w) PROVE StopInv'
  BY <1>7 DEF Sequence, GoTo, ControlTypeOK, IdleTaken, OldGoal, Rests
<1>8. ASSUME NEW w \in BOOLEAN, NEW s \in BOOLEAN,
             NEW at \in {"none", "going", "reached", "blocked"}, Steer(w, at, s)
      PROVE  StopInv'
  BY <1>8, TargetStates DEF Steer, GoTo, ControlTypeOK, IdleTaken, OldGoal, Rests
<1>9. ASSUME NEW e \in OfRobot, Ingest(e) PROVE StopInv'
  BY <1>9, FireKeeps DEF Ingest, ControlTypeOK, IdleTaken, OldGoal, Rests
<1>10. ASSUME NEW e \in {"MANUAL_ON", "MANUAL_OFF"}, Manual(e, "halt") PROVE StopInv'
  BY <1>10, FireKeeps DEF Manual, ControlTypeOK, IdleTaken, OldGoal, Rests
<1>11. CASE ManualHalt
  BY <1>11 DEF ManualHalt, ControlTypeOK, IdleTaken, OldGoal, Rests
<1>12. ASSUME NEW w \in BOOLEAN, Drive(w) PROVE StopInv'
  <2>1. stopped' \in BOOLEAN /\ hands' \in BOOLEAN
    BY <1>12, Zenon DEF Drive
  <2> QED  BY <1>12, <2>1 DEF Drive, ControlTypeOK, IdleTaken, OldGoal, Rests
<1>13. CASE AskPatrol \/ AskGoto
  BY ZenonT(30), <1>13 DEF AskPatrol, AskGoto, ControlTypeOK, IdleTaken, OldGoal, Rests
<1>14. CASE ReadRoute
  BY <1>14 DEF ReadRoute, ControlTypeOK, IdleTaken, OldGoal, Rests
<1>15. ASSUME NEW f \in BOOLEAN, BookRoute(f) PROVE StopInv'
  BY <1>15 DEF BookRoute, ControlTypeOK, IdleTaken, OldGoal, Rests
<1>16. CASE StopMission
  <2>1. state' \in Resting
    <3>1. CASE state # "IDLE" /\ Can(state, "MANUAL_ON")
      BY <1>16, <3>1 DEF StopMission, Resting
    <3>2. CASE state = "IDLE"
      BY <1>16, <3>2 DEF StopMission, Resting
    <3>3. CASE ~Can(state, "MANUAL_ON")
      BY <1>16, <3>3, CanManual DEF StopMission, Resting, ControlTypeOK
    <3> QED  BY <3>1, <3>2, <3>3
  <2> QED
    BY <1>16, <2>1 DEF StopMission, Cancelled, Resting, States, ControlTypeOK, IdleTaken, OldGoal, Rests
<1>17. CASE SendEstop
  BY <1>17 DEF SendEstop, ControlTypeOK, IdleTaken, OldGoal, Rests
<1>18. CASE Estop
  BY <1>18, FireKeeps DEF Estop, ControlTypeOK, IdleTaken, OldGoal, Rests
<1>19. CASE UNCHANGED controlVars
  BY <1>19 DEF controlVars, ControlTypeOK, IdleTaken, OldGoal, Rests
<1> QED
  BY <1>1, <1>2, <1>3, <1>4, <1>5, <1>6, <1>7, <1>8, <1>9, <1>10, <1>11, <1>12, <1>13,
     <1>14, <1>15, <1>16, <1>17, <1>18, <1>19 DEF ControlNext

LEMMA StopInvariant == ControlSpec => []StopInv
BY StopInit, StopNext, PTL DEF ControlSpec

\* The types of Control hold always.
THEOREM ControlTyped == ControlSpec => []ControlTypeOK
<1>1. StopInv => ControlTypeOK
  BY DEF StopInv
<1> QED  BY <1>1, StopInvariant, PTL

\* After a stop the robot rests until somebody asks again, and no patrol steers to a
\* goal from before it, whatever the loop and the dashboard were doing.
THEOREM StopFinal == ControlSpec => []StopIsFinal
<1>1. StopInv => StopIsFinal
  BY DEF StopInv, OldGoal, Rests, Resting, StopIsFinal
<1> QED  BY <1>1, StopInvariant, PTL
==============================================================================

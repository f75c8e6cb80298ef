------------------------- MODULE ResetHandshakeProofs -------------------------
(***************************************************************************)
(* What host and robot keep of each other for any number of datagrams      *)
(* under way.                                                              *)
(***************************************************************************)
EXTENDS ResetHandshake, SequenceTheorems, TLAPS

USE BoundAssumption

------------------------------------------------------------------------------
(***************************************************************************)
(* The network.                                                            *)
(***************************************************************************)

\* Sending keeps what is newest: all of it is a command sent now or before, and there
\* is never more under way than fits.
LEMMA SentKeeps ==
    ASSUME commands \in Seq(Command), NEW d \in Seq(Command)
    PROVE  /\ Sent(d) \in Seq(Command)
           /\ Len(Sent(d)) <= MaxFlight
           /\ \A i \in DOMAIN Sent(d) :
                 \/ \E j \in DOMAIN commands : Sent(d)[i] = commands[j]
                 \/ \E j \in DOMAIN d : Sent(d)[i] = d[j]
<1> DEFINE all == commands \o d
           old == IF Len(all) > MaxFlight THEN Len(all) - MaxFlight ELSE 0
<1>1. /\ all \in Seq(Command) /\ Len(all) = Len(commands) + Len(d)
      /\ \A i \in 1 .. Len(commands) + Len(d) :
            all[i] = IF i <= Len(commands) THEN commands[i] ELSE d[i - Len(commands)]
  BY ConcatProperties
<1>2. Len(commands) \in Nat /\ Len(d) \in Nat
  OBVIOUS
<1>3. old \in Nat /\ old <= Len(all) /\ Len(all) - old <= MaxFlight /\ Len(all) \in Nat
  BY <1>1, <1>2
<1>4. Sent(d) = SubSeq(all, old + 1, Len(all))
  BY DEF Sent
<1> HIDE DEF all, old
<1>5. \A i \in old + 1 .. Len(all) : all[i] \in Command
  BY <1>1, <1>3
<1>6. /\ Sent(d) \in Seq(Command)
      /\ Len(Sent(d)) = IF old + 1 <= Len(all) THEN Len(all) - (old + 1) + 1 ELSE 0
      /\ \A i \in 1 .. Len(all) - (old + 1) + 1 : Sent(d)[i] = all[old + 1 + i - 1]
  BY <1>3, <1>4, <1>5, SubSeqProperties
<1>7. Len(Sent(d)) = Len(all) - old
  BY <1>3, <1>6
<1>8. ASSUME NEW i \in DOMAIN Sent(d)
      PROVE  \/ \E j \in DOMAIN commands : Sent(d)[i] = commands[j]
             \/ \E j \in DOMAIN d : Sent(d)[i] = d[j]
  <2>1. i \in 1 .. Len(all) - old
    BY <1>6, <1>7
  <2>2. Sent(d)[i] = all[old + i] /\ old + i \in 1 .. Len(commands) + Len(d)
    BY <1>1, <1>3, <1>6, <2>1
  <2>3. CASE old + i <= Len(commands)
    <3>1. Sent(d)[i] = commands[old + i] /\ old + i \in DOMAIN commands
      BY <1>1, <1>2, <1>3, <2>1, <2>2, <2>3
    <3> QED
      BY <3>1
  <2>4. CASE old + i > Len(commands)
    <3>1. /\ Sent(d)[i] = d[old + i - Len(commands)]
          /\ old + i - Len(commands) \in DOMAIN d
      BY <1>1, <1>2, <1>3, <2>1, <2>2, <2>4
    <3> QED
      BY <3>1
  <2> QED
    BY <1>2, <1>3, <2>1, <2>3, <2>4
<1> QED
  BY <1>3, <1>6, <1>7, <1>8

\* What a tick puts on the network, that a RESET_SAFE is in it only if asked for, and a
\* MOVE only as the intent.
LEMMA TickSends ==
    ASSUME NEW s \in State, NEW intent \in Intent
    PROVE  /\ Append(OneShots(s), intent) \in Seq(Command)
           /\ asked = FALSE => \A i \in DOMAIN Append(OneShots(s), intent) :
                                  Append(OneShots(s), intent)[i] # "RESET_SAFE"
           /\ intent # "MOVE" => \A i \in DOMAIN Append(OneShots(s), intent) :
                                    Append(OneShots(s), intent)[i] # "MOVE"
<1> DEFINE request == IF asked THEN <<"RESET_SAFE">> ELSE <<>>
           news    == IF s # announced THEN <<StateCommand(s)>> ELSE <<>>
<1>1. StateCommand(s) \in Command /\ StateCommand(s) # "RESET_SAFE" /\ StateCommand(s) # "MOVE"
  BY DEF StateCommand, Command, Echoed, Intent
<1>2. /\ request \in Seq(Command) /\ Len(request) \in Nat
      /\ \A i \in DOMAIN request : request[i] # "MOVE"
  <2>1. CASE asked
    <3>1. request = <<"RESET_SAFE">> /\ "RESET_SAFE" \in Command
      BY <2>1 DEF Command
    <3> QED
      BY <3>1
  <2>2. CASE ~asked
    <3>1. request = <<>>
      BY <2>2
    <3> QED
      BY <3>1, EmptySeq
  <2> QED
    BY <2>1, <2>2
<1>3. /\ news \in Seq(Command) /\ Len(news) \in Nat
      /\ \A i \in DOMAIN news : news[i] # "RESET_SAFE" /\ news[i] # "MOVE"
  BY <1>1
<1>4. OneShots(s) = request \o news
  BY DEF OneShots
<1>5. asked = FALSE => request = <<>>
  OBVIOUS
<1> HIDE DEF request, news
<1>6. OneShots(s) \in Seq(Command)
  BY <1>2, <1>3, <1>4, ConcatProperties
<1>7. asked = FALSE => OneShots(s) = news
  BY <1>3, <1>4, <1>5, ConcatEmptySeq
<1>8. intent \in Command /\ intent # "RESET_SAFE"
  BY DEF Command, Intent
<1>9. /\ Append(OneShots(s), intent) \in Seq(Command)
      /\ Len(Append(OneShots(s), intent)) = Len(OneShots(s)) + 1
      /\ \A i \in 1 .. Len(OneShots(s)) : Append(OneShots(s), intent)[i] = OneShots(s)[i]
      /\ Append(OneShots(s), intent)[Len(OneShots(s)) + 1] = intent
  BY <1>6, <1>8, AppendProperties
<1>10. ASSUME asked = FALSE, NEW i \in DOMAIN Append(OneShots(s), intent)
       PROVE  Append(OneShots(s), intent)[i] # "RESET_SAFE"
  <2>1. CASE i = Len(OneShots(s)) + 1
    BY <1>8, <1>9, <2>1
  <2>2. CASE i \in 1 .. Len(OneShots(s))
    BY <1>3, <1>7, <1>9, <1>10, <2>2
  <2> QED
    BY <1>6, <1>9, <2>1, <2>2
<1>11. \A i \in DOMAIN OneShots(s) : OneShots(s)[i] # "MOVE"
  <2>1. /\ Len(OneShots(s)) = Len(request) + Len(news)
        /\ \A i \in 1 .. Len(request) + Len(news) :
              OneShots(s)[i] = IF i <= Len(request) THEN request[i] ELSE news[i - Len(request)]
    BY <1>2, <1>3, <1>4, ConcatProperties
  <2>2. ASSUME NEW i \in 1 .. Len(request) + Len(news) PROVE OneShots(s)[i] # "MOVE"
    <3>1. CASE i <= Len(request)
      BY <1>2, <2>1, <2>2, <3>1
    <3>2. CASE i > Len(request)
      <4>1. OneShots(s)[i] = news[i - Len(request)] /\ i - Len(request) \in DOMAIN news
        BY <1>2, <1>3, <2>1, <2>2, <3>2
      <4> QED
        BY <1>3, <4>1
    <3> QED
      BY <1>2, <2>2, <3>1, <3>2
  <2> QED
    BY <1>6, <2>1, <2>2
<1>12. ASSUME intent # "MOVE", NEW i \in DOMAIN Append(OneShots(s), intent)
       PROVE  Append(OneShots(s), intent)[i] # "MOVE"
  <2>1. CASE i = Len(OneShots(s)) + 1
    BY <1>9, <1>12, <2>1
  <2>2. CASE i \in 1 .. Len(OneShots(s))
    BY <1>6, <1>9, <1>11, <2>2
  <2> QED
    BY <1>6, <1>9, <2>1, <2>2
<1> QED
  BY <1>9, <1>10, <1>12

\* A datagram that leaves the queue leaves the others as they were.
LEMMA HeadLeaves ==
    ASSUME commands \in Seq(Command), Len(commands) <= MaxFlight, commands # <<>>
    PROVE  /\ Tail(commands) \in Seq(Command) /\ Len(Tail(commands)) <= MaxFlight
           /\ Head(commands) = commands[1] /\ 1 \in DOMAIN commands
           /\ \A i \in DOMAIN Tail(commands) :
                 i + 1 \in DOMAIN commands /\ Tail(commands)[i] = commands[i + 1]
  BY HeadTailProperties

------------------------------------------------------------------------------
(***************************************************************************)
(* The tick.                                                               *)
(***************************************************************************)

\* Every tick, overtaken or not, announces a state and sends what TickSends is about.
LEMMA TickIs ==
    TypeOK /\ (Tick \/ TickOvertaken) =>
        /\ TakesRequest
        /\ \E s \in State, intent \in Intent : state' = s /\ Sends(s, intent)
<1> SUFFICES ASSUME TypeOK, Tick \/ TickOvertaken
             PROVE  /\ TakesRequest
                    /\ \E s \in State, intent \in Intent : state' = s /\ Sends(s, intent)
  OBVIOUS
<1>1. CASE Tick
  <2>1. StatesAfterTick \subseteq State
    BY DEF StatesAfterTick, StatesAfterDrain, State, TypeOK
  <2>2. \A s : Directed(s) \subseteq Intent
    BY DEF Directed, Intent
  <2> QED
    BY <1>1, <2>1, <2>2 DEF Tick
<1>2. CASE TickOvertaken
  <2>1. state' \in State /\ "MOVE" \in Intent /\ Sends(state', "MOVE")
    BY <1>2 DEF TickOvertaken, State, Intent
  <2> QED
    BY <1>2, <2>1 DEF TickOvertaken
<1> QED
  BY <1>1, <1>2

------------------------------------------------------------------------------
(***************************************************************************)
(* Types.                                                                  *)
(***************************************************************************)

\* The commands under way stay commands, and within the bound.
LEMMA QueueTyped ==
    TypeOK /\ [Next]_vars => commands' \in Seq(Command) /\ Len(commands') <= MaxFlight
<1> SUFFICES ASSUME TypeOK, [Next]_vars
             PROVE  commands' \in Seq(Command) /\ Len(commands') <= MaxFlight
  OBVIOUS
<1>1. commands \in Seq(Command) /\ Len(commands) <= MaxFlight
  BY DEF TypeOK
<1>2. CASE Tick \/ TickOvertaken
  <2>1. PICK s \in State, intent \in Intent : Sends(s, intent)
    BY <1>2, TickIs
  <2> QED
    BY <1>1, <2>1, TickSends, SentKeeps DEF Sends
<1>3. CASE SendEstop
  <2>1. <<"ESTOP">> \in Seq(Command)
    BY DEF Command
  <2> QED
    BY <1>1, <1>3, <2>1, SentKeeps DEF SendEstop
<1>4. CASE Arrives \/ LoseCommand
  <2>1. commands # <<>> /\ commands' = Tail(commands)
    BY <1>4 DEF Arrives, Obey, Release, Refuse, Take, LoseCommand
  <2> QED
    BY <1>1, <2>1, HeadLeaves
<1>5. CASE UNCHANGED commands
  BY <1>1, <1>5
<1> QED
  BY <1>2, <1>3, <1>4, <1>5
     DEF Next, vars, host, net, robot, HearTelemetry, HearOpenReply, LinkAges, AskReset, PatrolEnds,
         ManualTaken, EstopPressed, EstopApplied, LidarDanger, RobotLatches, ReflexStops,
         RobotReboots, PublishTelemetry, LoseOpenReply, LoseTelemetry

\* The host's part of a step keeps its types.
LEMMA HostTyped ==
    TypeOK /\ [Next]_vars =>
        /\ state' \in State /\ announced' \in State \cup {"none"}
        /\ asked' \in BOOLEAN /\ pending' \in BOOLEAN /\ edge' \in BOOLEAN
        /\ link' \in {"never", "alive", "old"}
<1> SUFFICES ASSUME TypeOK, [Next]_vars
             PROVE  /\ state' \in State /\ announced' \in State \cup {"none"}
                    /\ asked' \in BOOLEAN /\ pending' \in BOOLEAN /\ edge' \in BOOLEAN
                    /\ link' \in {"never", "alive", "old"}
  OBVIOUS
<1>1. /\ state \in State /\ announced \in State \cup {"none"}
      /\ asked \in BOOLEAN /\ pending \in BOOLEAN /\ edge \in BOOLEAN
      /\ link \in {"never", "alive", "old"}
  BY DEF TypeOK
<1>2. CASE Tick \/ TickOvertaken
  <2>1. PICK s \in State, intent \in Intent : state' = s /\ Sends(s, intent)
    BY <1>2, TickIs
  <2>2. TakesRequest
    BY <1>2, TickIs
  <2> QED
    BY <1>1, <2>1, <2>2 DEF Sends, TakesRequest
<1>3. CASE HearTelemetry
  BY <1>1, <1>3 DEF HearTelemetry, Note, Settles, StateAfterReport, OnboardEvent, State
<1>4. CASE HearOpenReply
  BY <1>1, <1>4 DEF HearOpenReply, Note, Settles, StateAfterReport, State
<1>5. CASE Arrives
  BY <1>1, <1>5 DEF Arrives, Obey, Release, Refuse, Take, Reply
<1>6. CASE \/ LinkAges \/ AskReset \/ PatrolEnds \/ ManualTaken \/ EstopApplied \/ RobotReboots
  BY <1>1, <1>6
     DEF LinkAges, AskReset, PatrolEnds, ManualTaken, EstopApplied, RobotReboots, State
<1>7. CASE UNCHANGED host
  BY <1>1, <1>7 DEF host
<1> QED
  BY <1>2, <1>3, <1>4, <1>5, <1>6, <1>7
     DEF Next, vars, EstopPressed, LidarDanger, SendEstop, RobotLatches, ReflexStops,
         PublishTelemetry, LoseCommand, LoseOpenReply, LoseTelemetry

\* The robot's part and the datagrams to the host keep theirs.
LEMMA RobotTyped ==
    TypeOK /\ [Next]_vars =>
        /\ latched' \in BOOLEAN /\ walking' \in BOOLEAN /\ echoes' \in BOOLEAN
        /\ openReply' \in BOOLEAN /\ telemetry' \in Record \cup {"none"}
<1> SUFFICES ASSUME TypeOK, [Next]_vars
             PROVE  /\ latched' \in BOOLEAN /\ walking' \in BOOLEAN /\ echoes' \in BOOLEAN
                    /\ openReply' \in BOOLEAN /\ telemetry' \in Record \cup {"none"}
  OBVIOUS
<1> USE DEF Robot!Obeys, Robot!Stops, Robot!Starts, Robot!Latches, Robot!Releases,
            Robot!Ignores, Robot!vars, robot
<1>1. /\ latched \in BOOLEAN /\ walking \in BOOLEAN /\ echoes \in BOOLEAN
      /\ openReply \in BOOLEAN /\ telemetry \in Record \cup {"none"}
  BY DEF TypeOK
<1>2. CASE Obey(Head(commands))
  BY <1>1, <1>2 DEF Obey, Take, Reply
<1>3. CASE Release \/ Refuse
  BY <1>1, <1>3 DEF Release, Refuse, Take, Reply
<1>4. CASE RobotLatches \/ ReflexStops \/ RobotReboots
  BY <1>1, <1>4 DEF RobotLatches, ReflexStops, RobotReboots, net
<1>5. CASE PublishTelemetry \/ LoseOpenReply \/ LoseTelemetry \/ HearTelemetry
  BY <1>1, <1>5 DEF PublishTelemetry, LoseOpenReply, LoseTelemetry, HearTelemetry, Record
<1>6. CASE UNCHANGED <<robot, openReply, telemetry>>
  BY <1>1, <1>6
<1> QED
  BY <1>2, <1>3, <1>4, <1>5, <1>6, TickIs
     DEF Next, vars, net, Arrives, TakesRequest, HearOpenReply, LinkAges, AskReset, PatrolEnds,
         ManualTaken, EstopPressed, EstopApplied, LidarDanger, SendEstop, LoseCommand

\* Every variable keeps its type, and the network its bound.
THEOREM HandshakeTyped == Spec => []TypeOK
<1>1. ASSUME Init PROVE TypeOK
  <2>1. commands \in Seq(Command) /\ Len(commands) <= MaxFlight
    BY <1>1, EmptySeq DEF Init
  <2>2. {asked, pending, openReply, latched, walking, echoes, edge} \subseteq BOOLEAN
    BY <1>1, Zenon DEF Init, Robot!Init
  <2> QED
    BY <1>1, <2>1, <2>2 DEF Init, TypeOK, State
<1>2. TypeOK /\ [Next]_vars => TypeOK'
  BY QueueTyped, HostTyped, RobotTyped DEF TypeOK
<1> QED
  BY <1>1, <1>2, PTL DEF Spec

------------------------------------------------------------------------------
(***************************************************************************)
(* Only a person opens the latch.                                          *)
(***************************************************************************)

\* Nothing that is sent is a request as long as nobody has asked.
LEMMA NoRequestSent ==
    ASSUME TypeOK, NoRequest, NEW d \in Seq(Command),
           \A i \in DOMAIN d : d[i] # "RESET_SAFE"
    PROVE  \A i \in DOMAIN Sent(d) : Sent(d)[i] # "RESET_SAFE"
  BY SentKeeps DEF NoRequest, TypeOK

\* Without a request a step makes none and opens no latch, unless it is a person's.
LEMMA RequestStep ==
    TypeOK /\ NoRequest /\ ~AskReset /\ [Next]_vars => NoRequest' /\ (latched => latched')
<1> SUFFICES ASSUME TypeOK, NoRequest, ~AskReset, [Next]_vars
             PROVE  NoRequest' /\ (latched => latched')
  OBVIOUS
<1>1. asked = FALSE /\ \A i \in DOMAIN commands : commands[i] # "RESET_SAFE"
  BY DEF NoRequest, TypeOK
<1>2. CASE Tick \/ TickOvertaken
  <2>1. PICK s \in State, intent \in Intent : Sends(s, intent)
    BY <1>2, TickIs
  <2>2. asked' = FALSE /\ UNCHANGED latched
    BY <1>2, TickIs DEF TakesRequest, robot
  <2>3. \A i \in DOMAIN commands' : commands'[i] # "RESET_SAFE"
    BY <1>1, <2>1, TickSends, NoRequestSent DEF Sends
  <2> QED
    BY <2>2, <2>3 DEF NoRequest
<1>3. CASE SendEstop
  <2>1. <<"ESTOP">> \in Seq(Command) /\ \A i \in DOMAIN <<"ESTOP">> : <<"ESTOP">>[i] # "RESET_SAFE"
    BY DEF Command
  <2>2. \A i \in DOMAIN commands' : commands'[i] # "RESET_SAFE"
    BY <1>3, <2>1, NoRequestSent DEF SendEstop
  <2> QED
    BY <1>1, <1>3, <2>2 DEF SendEstop, NoRequest, host, robot
<1>4. CASE Arrives \/ LoseCommand
  <2>1. commands # <<>> /\ commands' = Tail(commands) /\ UNCHANGED asked
    BY <1>4 DEF Arrives, Obey, Release, Refuse, Take, LoseCommand, host
  <2>2. /\ Head(commands) # "RESET_SAFE"
        /\ \A i \in DOMAIN commands' : commands'[i] # "RESET_SAFE"
    BY <1>1, <2>1, HeadLeaves DEF TypeOK
  <2>3. latched => latched'
    BY <1>4, <2>2
       DEF Arrives, Obey, Release, Refuse, Take, LoseCommand, robot, Robot!Obeys, Robot!Stops,
           Robot!Starts, Robot!Latches, Robot!Ignores, Robot!vars
  <2> QED
    BY <1>1, <2>1, <2>2, <2>3 DEF NoRequest
<1>5. ASSUME UNCHANGED <<asked, commands>>, latched => latched'
      PROVE  NoRequest' /\ (latched => latched')
  BY <1>1, <1>5 DEF NoRequest
<1>6. CASE \/ HearTelemetry \/ HearOpenReply \/ LinkAges \/ PatrolEnds \/ ManualTaken
           \/ EstopApplied \/ PublishTelemetry \/ LoseOpenReply \/ LoseTelemetry
           \/ UNCHANGED vars
  <2>1. CASE HearTelemetry \/ HearOpenReply
    BY <1>5, <2>1 DEF net, robot, HearTelemetry, HearOpenReply
  <2>2. CASE LinkAges \/ PatrolEnds \/ ManualTaken \/ EstopApplied
    BY <1>5, <2>2 DEF net, robot, LinkAges, PatrolEnds, ManualTaken, EstopApplied
  <2>3. CASE PublishTelemetry \/ LoseOpenReply \/ LoseTelemetry
    BY <1>5, <2>3 DEF host, robot, PublishTelemetry, LoseOpenReply, LoseTelemetry
  <2>4. CASE UNCHANGED vars
    BY <1>5, <2>4 DEF vars, host, net, robot
  <2> QED
    BY <1>6, <2>1, <2>2, <2>3, <2>4
<1>7. CASE RobotLatches \/ RobotReboots
  BY <1>5, <1>7 DEF host, net, RobotLatches, RobotReboots, Robot!Latches
<1>8. CASE ReflexStops
  BY <1>5, <1>8 DEF host, net, ReflexStops, Robot!Stops
<1> QED
  BY <1>2, <1>3, <1>4, <1>6, <1>7, <1>8 DEF Next, EstopPressed, LidarDanger

\* A latch that closes while no request waits or is under way stays closed until a
\* person asks: the boundary of what a waiting reset can undo.
THEOREM OnlyAskedOpens == Spec => OnlyAskedReleases
  BY HandshakeTyped, RequestStep, PTL DEF Spec, OnlyAskedReleases

------------------------------------------------------------------------------
(***************************************************************************)
(* FAILSAFE holds the robot.                                               *)
(***************************************************************************)

\* A tick that begins in FAILSAFE stays there and sends STOP; nothing overtakes it.
LEMMA FailsafeTick ==
    state = "FAILSAFE" /\ (Tick \/ TickOvertaken) => TakesRequest /\ Sends("FAILSAFE", "STOP")
<1> SUFFICES ASSUME state = "FAILSAFE", Tick \/ TickOvertaken
             PROVE  TakesRequest /\ Sends("FAILSAFE", "STOP")
  OBVIOUS
<1>1. StatesAfterTick = {"FAILSAFE"}
  BY DEF StatesAfterTick, StatesAfterDrain
<1>2. Directed("FAILSAFE") = {"STOP"}
  BY DEF Directed
<1>3. ~TickOvertaken
  BY <1>1 DEF TickOvertaken
<1> QED
  BY <1>1, <1>2, <1>3 DEF Tick

\* Nothing that is sent is an order to walk if what is added is none.
LEMMA NoMoveSent ==
    ASSUME TypeOK, NoMove, NEW d \in Seq(Command), \A i \in DOMAIN d : d[i] # "MOVE"
    PROVE  \A i \in DOMAIN Sent(d) : Sent(d)[i] # "MOVE"
  BY SentKeeps DEF NoMove, TypeOK

\* In FAILSAFE a step makes no order to walk and starts no legs.
LEMMA FailsafeStep ==
    TypeOK /\ state = "FAILSAFE" /\ NoMove /\ ~walking /\ [Next]_vars => NoMove' /\ ~walking'
<1> SUFFICES ASSUME TypeOK, state = "FAILSAFE", NoMove, ~walking, [Next]_vars
             PROVE  NoMove' /\ ~walking'
  OBVIOUS
<1>1. walking = FALSE /\ \A i \in DOMAIN commands : commands[i] # "MOVE"
  BY DEF NoMove, TypeOK
<1>2. CASE Tick \/ TickOvertaken
  <2>1. Sends("FAILSAFE", "STOP") /\ UNCHANGED walking
    BY <1>2, FailsafeTick DEF TakesRequest, robot
  <2>2. "FAILSAFE" \in State /\ "STOP" \in Intent
    BY DEF State, Intent
  <2>3. \A i \in DOMAIN commands' : commands'[i] # "MOVE"
    BY <2>1, <2>2, TickSends, NoMoveSent DEF Sends
  <2> QED
    BY <1>1, <2>1, <2>3 DEF NoMove
<1>3. CASE SendEstop
  <2>1. <<"ESTOP">> \in Seq(Command) /\ \A i \in DOMAIN <<"ESTOP">> : <<"ESTOP">>[i] # "MOVE"
    BY DEF Command
  <2>2. \A i \in DOMAIN commands' : commands'[i] # "MOVE"
    BY <1>3, <2>1, NoMoveSent DEF SendEstop
  <2> QED
    BY <1>1, <1>3, <2>2 DEF SendEstop, NoMove, robot
<1>4. CASE Arrives \/ LoseCommand
  <2>1. commands # <<>> /\ commands' = Tail(commands)
    BY <1>4 DEF Arrives, Obey, Release, Refuse, Take, LoseCommand
  <2>2. Head(commands) # "MOVE" /\ \A i \in DOMAIN commands' : commands'[i] # "MOVE"
    BY <1>1, <2>1, HeadLeaves DEF TypeOK
  <2>3. walking' = FALSE
    BY <1>1, <1>4, <2>2
       DEF Arrives, Obey, Release, Refuse, Take, LoseCommand, robot, Robot!Obeys, Robot!Stops,
           Robot!Starts, Robot!Latches, Robot!Releases, Robot!Ignores, Robot!vars
  <2> QED
    BY <2>2, <2>3 DEF NoMove
<1>5. ASSUME UNCHANGED commands, walking' \in {walking, FALSE}
      PROVE  NoMove' /\ ~walking'
  BY <1>1, <1>5 DEF NoMove
<1>6. CASE HearTelemetry \/ HearOpenReply
  BY <1>5, <1>6 DEF net, robot, HearTelemetry, HearOpenReply
<1>7. CASE LinkAges \/ AskReset \/ PatrolEnds \/ ManualTaken \/ EstopApplied
  BY <1>5, <1>7 DEF net, robot, LinkAges, AskReset, PatrolEnds, ManualTaken, EstopApplied
<1>8. CASE PublishTelemetry \/ LoseOpenReply \/ LoseTelemetry
  BY <1>5, <1>8 DEF robot, PublishTelemetry, LoseOpenReply, LoseTelemetry
<1>9. CASE RobotLatches \/ ReflexStops \/ RobotReboots
  BY <1>5, <1>9 DEF net, RobotLatches, ReflexStops, RobotReboots, Robot!Latches, Robot!Stops
<1>10. CASE UNCHANGED vars
  BY <1>5, <1>10 DEF vars, net, robot
<1> QED
  BY <1>2, <1>3, <1>4, <1>6, <1>7, <1>8, <1>9, <1>10 DEF Next, EstopPressed, LidarDanger

\* While the host is in FAILSAFE no order to walk comes into being, and a robot that
\* stands with none under way stays standing.
THEOREM FailsafeHolds == Spec => StandsInFailsafe
  BY HandshakeTyped, FailsafeStep, PTL DEF Spec, StandsInFailsafe

==============================================================================

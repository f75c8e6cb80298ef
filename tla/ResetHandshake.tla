---------------------------- MODULE ResetHandshake ----------------------------
(***************************************************************************)
(* How host and robot agree, over UDP, that the robot is stopped and that  *)
(* it is free again (docs/DECISIONS.md ADR-21).                            *)
(*                                                                         *)
(* The robot latches on its own and reports it; the host follows into      *)
(* FAILSAFE.  A person asks for the release; the host sends RESET_SAFE and *)
(* leaves FAILSAFE when a report says that the latch is open.  Three       *)
(* things run beside each other: the host's loop (Runtime.serve: receive   *)
(* one datagram, then tick), the dashboard's threads, and the robot.       *)
(*                                                                         *)
(* Commands carry sequence numbers and the robot discards what is out of   *)
(* order (CommandGate), so their path is a FIFO that loses; telemetry is   *)
(* numbered too, and one record is under way at a time.  Command replies   *)
(* carry no number the host checks: one that says the latch is open may    *)
(* come at any time, again and again, or never; one that says it is closed *)
(* only keeps the link alive and is not delayed.                           *)
(*                                                                         *)
(* The robot is RobotView, to which MotionFirmware is shown to conform.    *)
(* The host FSM is reduced to IDLE, FAILSAFE and PATROL, which stands for  *)
(* every state whose directive may walk; LED, sound and pose commands are  *)
(* left out.  A tick between two send deadlines, which decides the same    *)
(* and sends nothing, is merged with the tick at the deadline.  A host     *)
(* that does not know the robot's address yet is not modelled.             *)
(***************************************************************************)
EXTENDS Integers, Sequences

CONSTANT MaxFlight   \* bound: commands under way at a time; more lose the oldest

\* A RESET_SAFE and the intent of the same tick fit.
ASSUME BoundAssumption == MaxFlight \in Nat /\ MaxFlight >= 2

VARIABLES
    state,         \* Fsm._state
    asked,         \* Runtime._reset_asked
    pending,       \* Runtime._reset_pending
    announced,     \* Commander._announced
    link,          \* Behavior._last_telemetry_ms: never, within link_loss_ms, or older
    edge,          \* TelemetryReceiver: a FAILSAFE report would be news
    commands,      \* command datagrams under way
    openReply,     \* a command reply with safe_latched = false is under way
    telemetry,     \* the telemetry record under way, or "none"
    latched,       \* robot: the safety latch
    walking,       \* robot: the legs move
    echoes         \* robot: g_reported_state is FAILSAFE

host   == <<state, asked, pending, announced, link, edge>>
net    == <<commands, openReply, telemetry>>
robot  == <<latched, walking, echoes>>
vars   == <<host, net, robot>>

\* The robot's latch and legs.
Robot == INSTANCE RobotView

State == {"IDLE", "PATROL", "FAILSAFE"}

\* STATE is kept as far as the robot's echo of it can be taken for its own state.
StateCommand(s) == IF s = "FAILSAFE" THEN "STATE FAILSAFE" ELSE "STATE other"

Intent  == {"STOP", "MOVE"}
Echoed  == {"STATE FAILSAFE", "STATE other"}
Command == Intent \cup Echoed \cup {"ESTOP", "RESET_SAFE"}

\* What a telemetry record says: the latch is closed, or it is open and the state
\* FAILSAFE is an echo of the host's, or it is open and the state another one.
Record == {"latched", "echo", "free"}

------------------------------------------------------------------------------
\* A host that has just been started, and a robot that has booted.
Init ==
    /\ Robot!Init
    /\ state = "IDLE" /\ asked = FALSE /\ pending = FALSE
    /\ announced = "none" /\ link = "never" /\ edge = TRUE
    /\ commands = <<>> /\ openReply = FALSE /\ telemetry = "none"
    /\ echoes = FALSE

------------------------------------------------------------------------------
(***************************************************************************)
(* The loop's tick: _drain_confirmations, Behavior.tick, Commander.tick.   *)
(***************************************************************************)

\* A patrol that is started in FAILSAFE too, as soon as no reset is waited for.
StatesAfterDrainUnsealed == {state} \cup IF ~pending /\ ~asked THEN {"PATROL"} ELSE {}

\* _drain_confirmations: a patrol somebody asked for waits for a reset to settle.
StatesAfterDrain ==
    {state} \cup IF state = "IDLE" /\ ~pending /\ ~asked THEN {"PATROL"} ELSE {}

\* _watch_links: a link gone silent is LINK_LOST.
StatesAfterTick == IF link = "old" THEN {"FAILSAFE"} ELSE StatesAfterDrain

\* A RESET_SAFE that is sent again as long as no answer came.
OneShotsAgain(s) ==
    (IF asked \/ pending THEN <<"RESET_SAFE">> ELSE <<>>)
      \o (IF s # announced THEN <<StateCommand(s)>> ELSE <<>>)

\* What the tick sends once: request_reset's RESET_SAFE, and a state that is new.
OneShots(s) ==
    (IF asked THEN <<"RESET_SAFE">> ELSE <<>>)
      \o (IF s # announced THEN <<StateCommand(s)>> ELSE <<>>)

\* Datagrams put on the network.
Sent(datagrams) ==
    LET all == commands \o datagrams
        old == IF Len(all) > MaxFlight THEN Len(all) - MaxFlight ELSE 0
    IN  SubSeq(all, old + 1, Len(all))

\* Directives in which FAILSAFE keeps the intent of the patrol.
DirectedKeeps(s) == IF s = "IDLE" THEN {"STOP"} ELSE Intent

\* DIRECTIVES: HALT in IDLE and FAILSAFE, a sequence that may walk elsewhere.
Directed(s) == IF s = "PATROL" THEN Intent ELSE {"STOP"}

\* A request waiting is taken up (request_reset).
TakesRequest ==
    /\ asked' = FALSE /\ pending' = (pending \/ asked)
    /\ UNCHANGED <<link, edge, openReply, telemetry, robot>>

\* Commander.announce and tick: the one-shot commands go out first, then the intent.
Sends(s, intent) ==
    /\ announced' = s
    /\ commands' = Sent(Append(OneShots(s), intent))

Tick ==
    /\ TakesRequest
    /\ \E s \in StatesAfterTick : \E intent \in Directed(s) :
          state' = s /\ Sends(s, intent)

\* A walking tick that another thread overtakes once its directive was read: an
\* E-Stop is applied or the walk is ended, the tick announces the state it finds
\* then and still sends the old intent.  (With the intent STOP it is a tick that
\* comes after the change.)
TickOvertaken ==
    /\ TakesRequest
    /\ "PATROL" \in StatesAfterTick
    /\ state' \in {"FAILSAFE", "IDLE"}
    /\ Sends(state', "MOVE")

------------------------------------------------------------------------------
(***************************************************************************)
(* The loop's receive: Runtime.ingest.                                     *)
(***************************************************************************)

\* A release that waits for the FAILSAFE state to go away, the robot's or an echo.
SettlesByState(report) == pending /\ ~report /\ edge

\* _settle_reset: a pending reset is settled by a report that the latch is open.
Settles(report) == pending /\ ~report

StateAfterReport(report) == IF Settles(report) /\ state = "FAILSAFE" THEN "IDLE" ELSE state

\* note_telemetry and _settle_reset's flag.
Note(report) == link' = "alive" /\ pending' = (pending /\ ~Settles(report))

\* A reply that is taken for a sign of life only.
HearOpenReplyIgnored ==
    /\ openReply
    /\ link' = "alive"
    /\ UNCHANGED <<state, asked, pending, announced, edge, net, robot>>

\* A reply that the latch is open; the datagram comes again until LoseOpenReply.
HearOpenReply ==
    /\ openReply
    /\ Note(FALSE)
    /\ state' = StateAfterReport(FALSE)
    /\ UNCHANGED <<asked, announced, edge, net, robot>>

\* The event that only a walking host takes notice of.
OnboardEventWalking(failsafe) == failsafe /\ edge /\ state = "PATROL"

\* TelemetryReceiver._events_for: FAILSAFE is an event after any other state, also
\* after one the host had given the robot itself.
OnboardEvent(failsafe) == failsafe /\ edge

\* A telemetry record: the latch it reports first, then its event.
HearTelemetry ==
    /\ telemetry # "none" /\ telemetry' = "none"
    /\ LET report   == telemetry = "latched"
           failsafe == telemetry \in {"latched", "echo"}
       IN  /\ Note(report)
           /\ state' = IF OnboardEvent(failsafe) THEN "FAILSAFE" ELSE StateAfterReport(report)
           /\ edge' = ~failsafe
    /\ UNCHANGED <<asked, announced, commands, openReply, robot>>

\* link_loss_ms pass without a datagram.
LinkAges ==
    /\ link = "alive" /\ link' = "old"
    /\ UNCHANGED <<state, asked, pending, announced, edge, net, robot>>

------------------------------------------------------------------------------
(***************************************************************************)
(* The host's other threads: dashboard, console and LiDAR.                 *)
(***************************************************************************)

\* CommandService.reset / the console's R: ask_reset, carried out by the tick.
AskReset ==
    /\ asked' = TRUE
    /\ UNCHANGED <<state, pending, announced, link, edge, net, robot>>

\* The patrol is stopped, or a manual or goal mission ends.
PatrolEnds ==
    /\ state = "PATROL" /\ state' = "IDLE"
    /\ UNCHANGED <<asked, pending, announced, link, edge, net, robot>>

\* manual_on: applied at once, also while a reset is asked for or pending.
ManualTaken ==
    /\ state = "IDLE" /\ state' = "PATROL"
    /\ UNCHANGED <<asked, pending, announced, link, edge, net, robot>>

\* send_emergency_stop: under the send lock, ahead of the queue.
SendEstop ==
    /\ UNCHANGED <<host, openReply, telemetry, robot>>
    /\ commands' = Sent(<<"ESTOP">>)

\* CommandService.estop, first half: the datagram, in whatever state.
EstopPressed == SendEstop

\* CommandService.estop, second half: apply_external(ESTOP), outside the lock.  Which
\* press it belongs to is not kept: the datagram of any of them may have been lost.
EstopApplied ==
    /\ state' = "FAILSAFE"
    /\ UNCHANGED <<asked, pending, announced, link, edge, net, robot>>

\* LidarFeed: on_danger sends the datagram only; the FSM learns it from the robot.
LidarDanger == state = "PATROL" /\ SendEstop

------------------------------------------------------------------------------
(***************************************************************************)
(* The robot, which MotionFirmware models in full, and the network.        *)
(***************************************************************************)

\* handlePacket, before the command is applied.
Take(c) ==
    /\ commands # <<>> /\ Head(commands) = c
    /\ commands' = Tail(commands)
    /\ UNCHANGED <<state, asked, pending, announced, edge, telemetry>>

\* sendAck, after it was applied: an answer that the latch is closed is heard at
\* once or never.
Reply ==
    IF latched' THEN link' \in {link, "alive"} /\ UNCHANGED openReply
                ELSE openReply' = TRUE /\ UNCHANGED link

\* STOP, MOVE, ESTOP and STATE of applyCommand.
Obey(c) ==
    /\ Take(c) /\ c # "RESET_SAFE"
    /\ Robot!Obeys(c) \/ (c \in Echoed /\ Robot!Ignores)
    /\ echoes' = (c = "STATE FAILSAFE" \/ (echoes /\ c # "STATE other"))
    /\ Reply

\* RESET_SAFE, the cause being gone.
Release ==
    /\ Take("RESET_SAFE")
    /\ Robot!Releases /\ echoes' = FALSE
    /\ Reply

\* RESET_SAFE while the battery is critical or the image is not confirmed.
Refuse ==
    /\ Take("RESET_SAFE")
    /\ UNCHANGED robot
    /\ Reply

\* loop(): the next datagram is handled.
Arrives == commands # <<>> /\ (Obey(Head(commands)) \/ Release \/ Refuse)

\* latchFailsafe: command timeout, lost link or a critical battery; or SERVICE mode.
RobotLatches ==
    /\ ~latched /\ Robot!Latches
    /\ UNCHANGED <<host, net, echoes>>

\* The reflex stop at an obstacle.
ReflexStops ==
    /\ walking /\ Robot!Stops
    /\ UNCHANGED <<host, net, echoes>>

\* A restart: the latch is on, and a new boot_id makes a new telemetry session.
RobotReboots ==
    /\ Robot!Latches /\ echoes' = FALSE
    /\ edge' = TRUE
    /\ telemetry' = "none"
    /\ UNCHANGED <<state, asked, pending, announced, link, commands, openReply>>

\* pollTelemetry; the record replaces one that is still under way.  No record is
\* published while a sensor has no valid sample.
PublishTelemetry ==
    /\ telemetry' = IF latched THEN "latched" ELSE IF echoes THEN "echo" ELSE "free"
    /\ UNCHANGED <<host, commands, openReply, robot>>

LoseCommand ==
    /\ commands # <<>> /\ commands' = Tail(commands)
    /\ UNCHANGED <<host, openReply, telemetry, robot>>

LoseOpenReply ==
    /\ openReply /\ openReply' = FALSE
    /\ UNCHANGED <<host, commands, telemetry, robot>>

LoseTelemetry ==
    /\ telemetry # "none" /\ telemetry' = "none"
    /\ UNCHANGED <<host, commands, openReply, robot>>

Next ==
    \/ Tick \/ TickOvertaken
    \/ HearTelemetry \/ HearOpenReply \/ LinkAges
    \/ AskReset \/ PatrolEnds \/ ManualTaken \/ EstopPressed \/ EstopApplied \/ LidarDanger
    \/ Arrives
    \/ RobotLatches \/ ReflexStops \/ RobotReboots \/ PublishTelemetry
    \/ LoseCommand \/ LoseOpenReply \/ LoseTelemetry

(***************************************************************************)
(* Fairness.  The loop ticks at its deadlines.  A datagram under way       *)
(* arrives or is lost; the network loses but not for ever: where intents   *)
(* are next again and again, one is taken, the same of RESET_SAFE, and a   *)
(* reply under way again and again is heard.  Nothing is assumed of        *)
(* telemetry, which a failing sensor suppresses, nor of the dashboard.     *)
(***************************************************************************)
Fairness ==
    /\ WF_vars(Tick) /\ WF_vars(Arrives \/ LoseCommand)
    /\ SF_vars(Obey("STOP") \/ Obey("MOVE")) /\ SF_vars(Release \/ Refuse)
    /\ SF_vars(HearOpenReply)

Spec == Init /\ [][Next]_vars /\ Fairness

------------------------------------------------------------------------------
\* The type invariant.
TypeOK ==
    /\ state \in State /\ announced \in State \cup {"none"}
    /\ {asked, pending, openReply, latched, walking,
        echoes, edge} \subseteq BOOLEAN
    /\ link \in {"never", "alive", "old"}
    /\ commands \in Seq(Command) /\ Len(commands) <= MaxFlight
    /\ telemetry \in Record \cup {"none"}

\* No release is under way: nobody's request waits to be sent or obeyed.
NoRequest == ~asked /\ \A i \in DOMAIN commands : commands[i] # "RESET_SAFE"

\* Only a person opens the latch: while nobody asks, no request comes into being, and
\* without one a closed latch stays closed, whatever is lost, late or repeated and
\* whoever restarts (fsm.py:17: there is no automatic return).
OnlyAskedReleases ==
    [][NoRequest /\ ~AskReset => NoRequest' /\ (latched => latched')]_vars

\* No order to walk is under way.
NoMove == \A i \in DOMAIN commands : commands[i] # "MOVE"

\* FAILSAFE holds the robot: once it stands and no order to walk is left under way, none
\* is sent and the robot stays standing until the host has left FAILSAFE, whatever
\* waits in the loop, is asked for or comes late (fsm.py:116-142).
StandsInFailsafe ==
    [][state = "FAILSAFE" /\ NoMove /\ ~walking => NoMove' /\ ~walking']_vars

\* A robot that walks while the host is in FAILSAFE is stopped, whether or not the
\* E-Stop datagram arrived: every tick of FAILSAFE sends STOP (DIRECTIVES, FR-4.4).
FailsafeStops == (state = "FAILSAFE" /\ walking) ~> (~walking \/ state # "FAILSAFE")

\* A release that happened is learned from the command replies alone, also while a
\* failing sensor suppresses telemetry (runtime.py:755-762).
ReleaseLearned == (pending /\ ~latched) ~> (~pending \/ latched)

\* What may stop the robot, keep it stopped or make the host believe it is stopped.
Fault ==
    \/ RobotLatches \/ RobotReboots \/ EstopPressed \/ LidarDanger \/ LinkAges
    \/ EstopApplied \/ (TickOvertaken /\ state' = "FAILSAFE")
    \/ (Refuse /\ latched)

\* A person who keeps asking gets the host out of FAILSAFE once faults have ceased:
\* lost datagrams, echoed states and stale reports do not lock the host into its own
\* FAILSAFE (ADR-21: "the host locks itself for ever").
ResetSettles == <>[][~Fault]_vars /\ []<><<AskReset>>_vars => []<>(state # "FAILSAFE")

\* A robot that latches when the host has last heard it in another state brings the
\* host to FAILSAFE, if telemetry arrives (receiver.py:163-191).
RelatchFollowed ==
    []<><<HearTelemetry>>_vars => ((latched /\ edge) ~> (~latched \/ state = "FAILSAFE"))

\* "Only the host is IDLE and the robot stays locked" does not last (ADR-21): while
\* telemetry arrives, a robot that stays latched brings the host to FAILSAFE.
LatchFollowed == <>[]latched /\ []<><<HearTelemetry>>_vars => []<>(state = "FAILSAFE")
==============================================================================

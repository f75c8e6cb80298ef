----------------------------- MODULE CommandGate -----------------------------
(***************************************************************************)
(* Which commands of which host process the robot obeys.                   *)
(*                                                                         *)
(* A host process numbers its commands from 1 (CommandEncoder) and opens   *)
(* with STOP, seq 1 (Commander.open_session).  They travel over UDP, which *)
(* loses, repeats and reorders; processes die and are started again, and   *)
(* the robot reboots.  The robot's parser (CommandParser::decode) admits a *)
(* command by its sequence number and time stamp.  The reference decoder   *)
(* of the host (CommandDecoder.validate, used by the simulated robot) sees *)
(* the same datagrams and has to give the same verdicts.                   *)
(*                                                                         *)
(* Only the header fields the gate reads are kept; a command whose body is *)
(* refused later has passed this gate as well.                             *)
(***************************************************************************)
EXTENDS Integers

CONSTANTS
    MaxSession,   \* bound: host processes started
    MaxSeq,       \* bound: commands a process sends
    MaxClock      \* bound: epoch clock

ASSUME GateAssumption == {MaxSession, MaxSeq, MaxClock} \subseteq Nat \ {0}

VARIABLES
    clock,      \* the host's epoch clock
    session,    \* number of the running host process
    nextSeq,    \* CommandEncoder._seq of that process
    sent,       \* datagrams sent so far: any may arrive, now, later, twice or never
    gate,       \* CommandParser: [has, last, latest, started]
    twin,       \* CommandDecoder: [last, latest, started]
    heard,      \* ghost: per session, the highest seq accepted since the robot booted
    opened      \* ghost: session whose opening the gate took as a restart, or 0

hostVars  == <<clock, session, nextSeq, sent>>
robotVars == <<gate, twin, heard, opened>>
vars == <<hostVars, robotVars>>

Session == 1..MaxSession
Datagram == [session : Session, seq : 1..MaxSeq, ts : 1..MaxClock]

\* The first command of a process is its opening STOP; later commands are any.
IsOpening(m) == m.seq = 1

None == -1
LaterOf(a, b) == IF a > b THEN a ELSE b

------------------------------------------------------------------------------
(***************************************************************************)
(* CommandParser::decode.                                                  *)
(***************************************************************************)
ClosedGate == [has |-> FALSE, last |-> 0, latest |-> None, started |-> None]

\* A gate that opens for any STOP with seq 1, however old.
OpensForOld(g, m) == g.has /\ IsOpening(m)

\* The restart handshake: an opening newer than anything heard.
Opens(g, m) == g.has /\ IsOpening(m) /\ m.ts > g.latest

FromOldSession(g, m) == g.started >= 0 /\ m.ts < g.started

\* A gate without the restart handshake.
AcceptsNoHandshake(g, m) == ~FromOldSession(g, m) /\ (~g.has \/ m.seq > g.last)

Accepts(g, m) ==
    /\ ~FromOldSession(g, m)
    /\ Opens(g, m) \/ ~g.has \/ m.seq > g.last

\* The gate after a restart it did not date.
AcceptedUndated(g, m) ==
    [has |-> TRUE, last |-> m.seq, latest |-> LaterOf(g.latest, m.ts), started |-> g.started]

\* The gate after accepting m.
Accepted(g, m) ==
    [has     |-> TRUE,
     last    |-> m.seq,
     latest  |-> LaterOf(g.latest, m.ts),
     started |-> IF Opens(g, m) THEN m.ts ELSE g.started]

(***************************************************************************)
(* CommandDecoder.validate, with _SeqGate: None stands for Python's None.  *)
(***************************************************************************)
ClosedTwin == [last |-> None, latest |-> None, started |-> None]

TwinOpens(t, m) ==
    /\ t.last # None /\ IsOpening(m)
    /\ t.latest = None \/ m.ts > t.latest

TwinAccepts(t, m) ==
    /\ t.started = None \/ m.ts >= t.started
    /\ TwinOpens(t, m) \/ t.last = None \/ m.seq > t.last

TwinAccepted(t, m) ==
    [last    |-> m.seq,
     latest  |-> IF t.latest = None THEN m.ts ELSE LaterOf(t.latest, m.ts),
     started |-> IF TwinOpens(t, m) THEN m.ts ELSE t.started]

------------------------------------------------------------------------------
Init ==
    /\ clock = 1 /\ session = 1 /\ nextSeq = 1 /\ sent = {}
    /\ gate = ClosedGate /\ twin = ClosedTwin
    /\ heard = [s \in Session |-> 0] /\ opened = 0

ClockAdvances ==
    /\ clock < MaxClock
    /\ clock' = clock + 1
    /\ UNCHANGED <<session, nextSeq, sent, robotVars>>

\* CommandEncoder.build and the socket.
Send ==
    /\ nextSeq <= MaxSeq
    /\ sent' = sent \cup {[session |-> session, seq |-> nextSeq, ts |-> clock]}
    /\ nextSeq' = nextSeq + 1
    /\ UNCHANGED <<clock, session, robotVars>>

\* The host process dies; its successor starts at a later time.
HostRestarts ==
    /\ session < MaxSession /\ clock < MaxClock
    /\ session' = session + 1 /\ nextSeq' = 1
    /\ clock' = clock + 1
    /\ UNCHANGED <<sent, robotVars>>

\* A datagram reaches the robot and passes the gate.
Admit(m) ==
    /\ Accepts(gate, m)
    /\ gate' = Accepted(gate, m)
    /\ twin' = IF TwinAccepts(twin, m) THEN TwinAccepted(twin, m) ELSE twin
    /\ heard' = [heard EXCEPT ![m.session] = LaterOf(@, m.seq)]
    /\ opened' = IF Opens(gate, m) THEN m.session ELSE opened
    /\ UNCHANGED hostVars

\* A datagram reaches the robot and is discarded.
Discard(m) ==
    /\ ~Accepts(gate, m)
    /\ twin' = IF TwinAccepts(twin, m) THEN TwinAccepted(twin, m) ELSE twin
    /\ UNCHANGED <<hostVars, gate, heard, opened>>

\* The robot boots: CommandParser starts anew, and so does what it remembers.
RobotReboots ==
    /\ gate' = ClosedGate /\ twin' = ClosedTwin
    /\ heard' = [s \in Session |-> 0] /\ opened' = 0
    /\ UNCHANGED hostVars

Next ==
    \/ ClockAdvances \/ Send \/ HostRestarts \/ RobotReboots
    \/ \E m \in sent : Admit(m) \/ Discard(m)

Spec == Init /\ [][Next]_vars

------------------------------------------------------------------------------
\* The type invariant.
TypeOK ==
    /\ clock \in 1..MaxClock /\ session \in Session /\ nextSeq \in 1..(MaxSeq + 1)
    /\ sent \subseteq Datagram
    /\ gate \in [has : BOOLEAN, last : 0..MaxSeq, latest : None..MaxClock,
                 started : None..MaxClock]
    /\ twin \in [last : None..MaxSeq, latest : None..MaxClock, started : None..MaxClock]
    /\ heard \in [Session -> 0..MaxSeq]
    /\ opened \in 0..MaxSession

\* Within one host process no command is obeyed twice or after a later one,
\* whatever the network does and however processes alternate (rule 1 of
\* docs/PROTOCOL.md section 3).
NoReplay == [][\A m \in sent : Admit(m) => m.seq > heard[m.session]]_vars

\* After a restart handshake nothing of an earlier process is obeyed
\* (docs/PROTOCOL.md "Host 재시작"; session_started_ts_).
HandshakeExcludesOlder ==
    [][\A m \in sent : Admit(m) => m.session >= opened]_vars

\* The opening of the running process always gets through, unless one of its
\* later commands or a delayed opening of it got there first: a host that was
\* restarted is never locked out by its predecessor's numbering.
OpeningGetsThrough ==
    \A m \in sent :
        m.session = session /\ IsOpening(m) /\ heard[session] = 0 => Accepts(gate, m)

\* The firmware's parser and the host's reference decoder agree on every datagram
\* that can still arrive.
DecodersAgree == \A m \in sent : Accepts(gate, m) <=> TwinAccepts(twin, m)
==============================================================================

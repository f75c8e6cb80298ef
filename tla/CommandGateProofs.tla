-------------------------- MODULE CommandGateProofs --------------------------
(***************************************************************************)
(* Theorems about CommandGate, for any number of host processes, commands  *)
(* and clock values.                                                       *)
(*                                                                         *)
(* The argument.  The clock stands between two processes, so time stamps   *)
(* order the sessions (SentOrdered).  The gate's `latest` is the stamp of  *)
(* something it obeyed, and an opening newer than that belongs to a        *)
(* session it has heard nothing of (GateFacts).  `last` therefore only     *)
(* goes back when the sessions it had counted can no longer pass.          *)
(***************************************************************************)
EXTENDS CommandGate, TLAPS

------------------------------------------------------------------------------
\* What is under way: nothing comes from the future, sessions are dated apart
\* and within a session the stamps follow the numbers.
SentOrdered ==
    /\ \A m \in sent : /\ m.session <= session /\ m.ts <= clock
                       /\ m.session = session => m.seq < nextSeq
                       /\ m.session < session => m.ts < clock
    /\ \A m, n \in sent : /\ m.session < n.session => m.ts < n.ts
                          /\ m.session = n.session /\ m.seq <= n.seq => m.ts <= n.ts

\* A gate that has obeyed nothing knows nothing.
FreshGate ==
    ~gate.has => gate = ClosedGate /\ opened = 0 /\ heard = [s \in Session |-> 0]

\* `latest` is the stamp of a command that was obeyed, and no obeyed one is newer.
LatestIsHeard ==
    /\ gate.has => \E n \in sent : n.ts = gate.latest /\ heard[n.session] > 0
    /\ \A s \in Session : heard[s] > 0 =>
           \E n \in sent : n.session = s /\ n.seq = heard[s] /\ n.ts <= gate.latest

\* `started` is the stamp of the opening that was taken for a restart.
StartedIsOpening ==
    /\ opened = 0 => gate.started = None
    /\ opened > 0 => heard[opened] > 0
    /\ opened > 0 => \E n \in sent : n.session = opened /\ n.ts = gate.started

\* Only sessions from before the restart were heard beyond `last`.
LastCoversHeard == \A s \in Session : heard[s] > gate.last => s < opened

GateFacts == FreshGate /\ LatestIsHeard /\ StartedIsOpening /\ LastCoversHeard

\* The host's decoder remembers the same, in Python's terms.
TwinFollows ==
    twin = IF gate.has
           THEN [last |-> gate.last, latest |-> gate.latest, started |-> gate.started]
           ELSE ClosedTwin

\* The inductive invariant.
IInv == TypeOK /\ SentOrdered /\ GateFacts /\ TwinFollows

------------------------------------------------------------------------------
\* The gate never looks back behind a handshake: what it accepts is no older than
\* the session that opened it (CommandParser::decode, ts against the start).
LEMMA NoOlder ==
    ASSUME IInv, NEW m \in sent, Accepts(gate, m)
    PROVE  m.session >= opened
<1>1. CASE opened = 0
  BY <1>1 DEF IInv, TypeOK, Datagram, Session
<1>2. CASE opened > 0
  <2>1. PICK n \in sent : n.session = opened /\ n.ts = gate.started
    BY <1>2 DEF IInv, GateFacts, StartedIsOpening
  <2>2. m \in Datagram /\ n \in Datagram
    BY DEF IInv, TypeOK
  <2>3. m.ts >= n.ts
    BY <2>1, <2>2, GateAssumption DEF Accepts, FromOldSession, Datagram, IInv, TypeOK
  <2>4. ~(m.session < n.session)
    BY <2>2, <2>3, GateAssumption DEF IInv, SentOrdered, Datagram
  <2> QED
    BY <2>1, <2>2, <2>4, GateAssumption DEF Datagram, Session
<1> QED
  BY <1>1, <1>2 DEF IInv, TypeOK

\* An opening that restarts the gate is newer than all it obeyed, hence of a
\* session it has not heard (CommandParser::decode, the restart handshake).
LEMMA OpeningIsUnheard ==
    ASSUME IInv, NEW m \in sent, Opens(gate, m)
    PROVE  /\ heard[m.session] = 0
           /\ \A s \in Session : heard[s] > 0 => s < m.session
<1>1. ASSUME NEW s \in Session, heard[s] > 0
      PROVE  s < m.session
  <2>1. PICK n \in sent : n.session = s /\ n.seq = heard[s] /\ n.ts <= gate.latest
    BY <1>1 DEF IInv, GateFacts, LatestIsHeard
  <2>2. m \in Datagram /\ n \in Datagram
    BY DEF IInv, TypeOK
  <2>3. n.ts < m.ts
    BY <2>1, <2>2, GateAssumption DEF Opens, Datagram, IInv, TypeOK
  <2>4. ~(m.session < n.session)
    BY <2>2, <2>3, GateAssumption DEF IInv, SentOrdered, Datagram
  <2>5. m.seq = 1 /\ m.seq <= n.seq
    BY <2>2, GateAssumption DEF Opens, IsOpening, Datagram
  <2>6. m.session # n.session
    BY <2>2, <2>3, <2>5, GateAssumption DEF IInv, SentOrdered, Datagram
  <2> QED
    BY <2>1, <2>2, <2>4, <2>6, GateAssumption DEF Datagram, Session
<1>2. m.session \in Session /\ heard[m.session] \in 0..MaxSeq
  BY DEF IInv, TypeOK, Datagram
<1> QED
  BY <1>1, <1>2, GateAssumption DEF Session

\* What the gate accepts is news of its session (rule 1 of docs/PROTOCOL.md
\* section 3).
LEMMA AcceptedIsNews ==
    ASSUME IInv, NEW m \in sent, Accepts(gate, m)
    PROVE  m.seq > heard[m.session]
<1>1. m \in Datagram /\ m.session \in Session /\ heard[m.session] \in 0..MaxSeq
  BY DEF IInv, TypeOK, Datagram
<1>2. CASE Opens(gate, m)
  BY <1>1, <1>2, OpeningIsUnheard, GateAssumption DEF Datagram
<1>3. CASE ~gate.has
  BY <1>1, <1>3, GateAssumption DEF IInv, GateFacts, FreshGate, Datagram
<1>4. CASE m.seq > gate.last
  <2>1. ~(m.session < opened)
    BY SMTT(30), <1>1, NoOlder, GateAssumption DEF IInv, TypeOK, Session
  <2> QED
    BY <1>1, <1>4, <2>1, GateAssumption DEF IInv, TypeOK, GateFacts, LastCoversHeard, Datagram
<1> QED
  BY <1>2, <1>3, <1>4 DEF Accepts

\* With the same memory both decoders give the same verdict
\* (CommandParser::decode, CommandDecoder.validate).
LEMMA SameVerdict ==
    ASSUME IInv, NEW m \in sent
    PROVE  /\ Accepts(gate, m) <=> TwinAccepts(twin, m)
           /\ gate.has => (Opens(gate, m) <=> TwinOpens(twin, m))
           /\ ~gate.has => ~Opens(gate, m) /\ ~TwinOpens(twin, m)
<1>1. m \in Datagram
  BY DEF IInv, TypeOK
<1>2. CASE gate.has
  <2>1. /\ twin.last = gate.last /\ twin.latest = gate.latest
        /\ twin.started = gate.started
    BY <1>2 DEF IInv, TwinFollows
  <2>2. gate.latest >= 1 /\ gate.last # None
    <3>1. PICK n \in sent : n.ts = gate.latest
      BY <1>2 DEF IInv, GateFacts, LatestIsHeard
    <3> QED
      BY <3>1, GateAssumption DEF IInv, TypeOK, Datagram, None
  <2>3. Opens(gate, m) <=> TwinOpens(twin, m)
    BY <1>2, <2>1, <2>2, GateAssumption DEF Opens, TwinOpens, None, IInv, TypeOK
  <2>4. FromOldSession(gate, m) <=> ~(twin.started = None \/ m.ts >= twin.started)
    BY <1>1, <2>1, GateAssumption DEF FromOldSession, None, IInv, TypeOK, Datagram
  <2> QED
    BY <1>2, <2>1, <2>2, <2>3, <2>4 DEF Accepts, TwinAccepts
<1>3. CASE ~gate.has
  BY <1>1, <1>3 DEF IInv, TwinFollows, GateFacts, FreshGate, Accepts, TwinAccepts,
     FromOldSession, Opens, TwinOpens, ClosedGate, ClosedTwin, None
<1> QED
  BY <1>2, <1>3

------------------------------------------------------------------------------
\* A robot and a host that have just been started.
LEMMA InitEstablishes == Init => IInv
<1> SUFFICES ASSUME Init PROVE IInv
  OBVIOUS
<1>1. TypeOK
  BY GateAssumption DEF Init, TypeOK, ClosedGate, ClosedTwin, None, Session
<1>2. SentOrdered
  BY DEF Init, SentOrdered
<1>3. GateFacts
  BY GateAssumption DEF Init, GateFacts, FreshGate, LatestIsHeard, StartedIsOpening,
     LastCoversHeard, ClosedGate, None
<1>4. TwinFollows
  BY DEF Init, TwinFollows, ClosedGate
<1> QED
  BY <1>1, <1>2, <1>3, <1>4 DEF IInv

\* What the host does leaves the stamps in order.
LEMMA SentKept == IInv /\ [Next]_vars => SentOrdered'
<1> SUFFICES ASSUME IInv, [Next]_vars PROVE SentOrdered'
  OBVIOUS
<1>0. /\ SentOrdered /\ sent \subseteq Datagram
      /\ clock \in 1..MaxClock /\ session \in Session /\ nextSeq \in 1..(MaxSeq + 1)
  BY DEF IInv, TypeOK
<1>1. CASE ClockAdvances
  BY <1>0, <1>1, GateAssumption DEF ClockAdvances, SentOrdered, Datagram, Session
<1>2. CASE Send
  <2> DEFINE new == [session |-> session, seq |-> nextSeq, ts |-> clock]
  <2>1. /\ sent' = sent \cup {new} /\ nextSeq' = nextSeq + 1
        /\ clock' = clock /\ session' = session
    BY <1>2 DEF Send
  <2>2. \A m \in sent' : /\ m.session <= session' /\ m.ts <= clock'
                         /\ m.session = session' => m.seq < nextSeq'
                         /\ m.session < session' => m.ts < clock'
    BY <1>0, <2>1, GateAssumption DEF SentOrdered, Datagram, Session
  <2>3. \A m \in sent : /\ m.session < new.session => m.ts < new.ts
                        /\ m.session = new.session /\ m.seq <= new.seq => m.ts <= new.ts
                        /\ ~(new.session < m.session)
                        /\ ~(m.session = new.session /\ new.seq <= m.seq)
    BY <1>0, GateAssumption DEF SentOrdered, Datagram, Session
  <2>4. \A m, n \in sent' : /\ m.session < n.session => m.ts < n.ts
                            /\ m.session = n.session /\ m.seq <= n.seq => m.ts <= n.ts
    BY <1>0, <2>1, <2>3, GateAssumption DEF SentOrdered, Datagram, Session
  <2> QED
    BY <2>2, <2>4 DEF SentOrdered
<1>3. CASE HostRestarts
  <2>1. /\ sent' = sent /\ session' = session + 1 /\ clock' = clock + 1
    BY <1>3 DEF HostRestarts
  <2> QED
    BY <1>0, <2>1, GateAssumption DEF SentOrdered, Datagram, Session
<1>4. CASE UNCHANGED hostVars
  BY <1>0, <1>4 DEF hostVars, SentOrdered
<1> QED
  BY <1>1, <1>2, <1>3, <1>4 DEF Next, RobotReboots, Admit, Discard, vars

\* What the robot remembers stays true whatever the host does.
LEMMA HostKeepsGate ==
    ASSUME IInv, UNCHANGED robotVars, sent \subseteq sent'
    PROVE  GateFacts' /\ TwinFollows'
<1>1. /\ gate' = gate /\ twin' = twin /\ heard' = heard /\ opened' = opened
  BY DEF robotVars
<1>2. FreshGate' /\ LastCoversHeard' /\ TwinFollows'
  BY <1>1 DEF IInv, GateFacts, FreshGate, LastCoversHeard, TwinFollows
<1>3. LatestIsHeard'
  BY <1>1 DEF IInv, GateFacts, LatestIsHeard
<1>4. StartedIsOpening'
  BY <1>1 DEF IInv, GateFacts, StartedIsOpening
<1> QED
  BY <1>2, <1>3, <1>4 DEF GateFacts

\* A command that passes the gate.
LEMMA AdmitKeepsGate ==
    ASSUME IInv, NEW m \in sent, Admit(m)
    PROVE  GateFacts' /\ TwinFollows'
<1>1. /\ m \in Datagram /\ sent' = sent /\ Accepts(gate, m)
      /\ gate' = Accepted(gate, m) /\ m.session \in Session
  BY DEF IInv, TypeOK, Admit, hostVars, Datagram
<1>2. /\ gate'.has = TRUE /\ gate'.last = m.seq
      /\ gate'.latest = LaterOf(gate.latest, m.ts)
      /\ gate'.started = IF Opens(gate, m) THEN m.ts ELSE gate.started
  BY <1>1 DEF Accepted
<1>3. /\ gate.latest \in None..MaxClock /\ gate.last \in 0..MaxSeq
      /\ \A s \in Session : heard[s] \in 0..MaxSeq
      /\ opened \in 0..MaxSession
  BY DEF IInv, TypeOK
<1>4. m.seq > heard[m.session]
  BY <1>1, AcceptedIsNews
<1>5. /\ heard'[m.session] = m.seq
      /\ \A s \in Session \ {m.session} : heard'[s] = heard[s]
  BY <1>1, <1>3, <1>4 DEF Admit, LaterOf, IInv, TypeOK, Datagram
<1>6. gate'.latest >= m.ts /\ gate'.latest >= gate.latest
  BY <1>1, <1>2, <1>3, GateAssumption DEF LaterOf, Datagram, None
<1>7. FreshGate'
  BY <1>2 DEF FreshGate
<1>8. LatestIsHeard'
  <2>1. \E n \in sent' : n.ts = gate'.latest /\ heard'[n.session] > 0
    <3>1. CASE gate'.latest = m.ts
      BY <1>1, <1>5, <3>1, GateAssumption DEF Datagram
    <3>2. CASE gate'.latest # m.ts
      <4>1. gate'.latest = gate.latest /\ gate.latest > m.ts
        BY <1>1, <1>2, <1>3, <3>2, GateAssumption DEF LaterOf, Datagram, None
      <4>2. gate.has
        BY <1>1, <4>1, GateAssumption DEF IInv, GateFacts, FreshGate, ClosedGate, None, Datagram
      <4>3. PICK n \in sent : n.ts = gate.latest /\ heard[n.session] > 0
        BY <4>2 DEF IInv, GateFacts, LatestIsHeard
      <4>4. n.session \in Session
        BY DEF IInv, TypeOK, Datagram
      <4>5. heard'[n.session] > 0
        BY <1>1, <1>5, <4>3, <4>4, GateAssumption DEF Datagram
      <4> QED
        BY <1>1, <4>1, <4>3, <4>5
    <3> QED
      BY <3>1, <3>2
  <2>2. ASSUME NEW s \in Session, heard'[s] > 0
        PROVE  \E n \in sent' : n.session = s /\ n.seq = heard'[s] /\ n.ts <= gate'.latest
    <3>1. CASE s = m.session
      BY <1>1, <1>5, <1>6, <3>1
    <3>2. CASE s # m.session
      <4>1. PICK n \in sent : n.session = s /\ n.seq = heard[s] /\ n.ts <= gate.latest
        BY <1>5, <2>2, <3>2 DEF IInv, GateFacts, LatestIsHeard
      <4>2. n.ts \in Nat /\ gate'.latest \in Int
        BY <1>1, <1>2, <1>3, GateAssumption DEF IInv, TypeOK, Datagram, LaterOf, None
      <4> QED
        BY <1>1, <1>3, <1>5, <1>6, <3>2, <4>1, <4>2, GateAssumption DEF None
    <3> QED
      BY <3>1, <3>2
  <2> QED
    BY <2>1, <2>2 DEF LatestIsHeard
<1>9. StartedIsOpening'
  <2>1. CASE Opens(gate, m)
    <3>1. opened' = m.session /\ gate'.started = m.ts
      BY <1>2, <2>1 DEF Admit
    <3> QED
      BY <1>1, <1>5, <3>1, GateAssumption DEF StartedIsOpening, Datagram, Session
  <2>2. CASE ~Opens(gate, m)
    <3>1. opened' = opened /\ gate'.started = gate.started
      BY <1>2, <2>2 DEF Admit
    <3>2. opened > 0 => heard'[opened] > 0
      BY <1>1, <1>3, <1>5, GateAssumption
      DEF IInv, GateFacts, StartedIsOpening, Datagram, Session
    <3> QED
      BY <1>1, <3>1, <3>2 DEF IInv, GateFacts, StartedIsOpening
  <2> QED
    BY <2>1, <2>2
<1>10. LastCoversHeard'
  <2> SUFFICES ASSUME NEW s \in Session, heard'[s] > gate'.last
               PROVE  s < opened'
    BY DEF LastCoversHeard
  <2>1. s # m.session /\ heard'[s] = heard[s] /\ heard[s] > m.seq
    BY <1>1, <1>2, <1>5, GateAssumption DEF Datagram
  <2>2. CASE Opens(gate, m)
    <3>1. opened' = m.session
      BY <2>2 DEF Admit
    <3>2. heard[s] > 0
      BY <1>1, <1>3, <2>1, GateAssumption DEF Datagram
    <3> QED
      BY <2>2, <3>1, <3>2, OpeningIsUnheard
  <2>3. CASE ~Opens(gate, m)
    <3>1. opened' = opened
      BY <2>3 DEF Admit
    <3>2. gate.has => m.seq > gate.last
      BY <1>1, <2>3 DEF Accepts
    <3>3. gate.has
      BY <1>1, <2>1, GateAssumption DEF IInv, GateFacts, FreshGate, Datagram
    <3>4. heard[s] > gate.last
      BY <1>1, <1>3, <2>1, <3>2, <3>3, GateAssumption DEF Datagram
    <3> QED
      BY <3>1, <3>4 DEF IInv, GateFacts, LastCoversHeard
  <2> QED
    BY <2>2, <2>3
<1>11. TwinFollows'
  <2>1. TwinAccepts(twin, m)
    BY <1>1, SameVerdict
  <2>2. twin' = TwinAccepted(twin, m)
    BY <2>1 DEF Admit
  <2>3. CASE gate.has
    <3>1. /\ twin.last = gate.last /\ twin.latest = gate.latest
          /\ twin.started = gate.started
      BY <2>3 DEF IInv, TwinFollows
    <3>2. Opens(gate, m) <=> TwinOpens(twin, m)
      BY <2>3, SameVerdict
    <3>3. gate.latest # None
      <4>1. PICK n \in sent : n.ts = gate.latest
        BY <2>3 DEF IInv, GateFacts, LatestIsHeard
      <4> QED
        BY <4>1, GateAssumption DEF IInv, TypeOK, Datagram, None
    <3> QED
      BY <1>2, <2>2, <3>1, <3>2, <3>3 DEF TwinFollows, TwinAccepted
  <2>4. CASE ~gate.has
    <3>1. gate = ClosedGate /\ twin = ClosedTwin
      BY <2>4 DEF IInv, GateFacts, FreshGate, TwinFollows
    <3>2. ~Opens(gate, m) /\ ~TwinOpens(twin, m)
      BY <2>4, SameVerdict
    <3> QED
      BY <1>1, <1>2, <2>2, <3>1, <3>2, GateAssumption
      DEF TwinFollows, TwinAccepted, ClosedGate, ClosedTwin, LaterOf, None, Datagram
  <2> QED
    BY <2>3, <2>4
<1> QED
  BY <1>7, <1>8, <1>9, <1>10, <1>11 DEF GateFacts

\* Every step keeps the types.
LEMMA TypesKept == IInv /\ [Next]_vars => TypeOK'
<1> SUFFICES ASSUME IInv, [Next]_vars PROVE TypeOK'
  OBVIOUS
<1>0. TypeOK
  BY DEF IInv
<1>1. CASE ClockAdvances
  BY <1>0, <1>1, GateAssumption DEF ClockAdvances, robotVars, TypeOK
<1>2. CASE Send
  <2>1. [session |-> session, seq |-> nextSeq, ts |-> clock] \in Datagram
    BY <1>0, <1>2, GateAssumption DEF Send, TypeOK, Datagram
  <2> QED
    BY <1>0, <1>2, <2>1, GateAssumption DEF Send, robotVars, TypeOK
<1>3. CASE HostRestarts
  BY <1>0, <1>3, GateAssumption DEF HostRestarts, robotVars, TypeOK, Session
<1>4. CASE RobotReboots
  BY SMTT(30), <1>0, <1>4, GateAssumption
  DEF RobotReboots, hostVars, TypeOK, ClosedGate, ClosedTwin, None, Session
<1>5. ASSUME NEW m \in sent, Admit(m) PROVE TypeOK'
  <2>1. m \in Datagram
    BY <1>0 DEF TypeOK
  <2>2. gate' \in [has : BOOLEAN, last : 0..MaxSeq, latest : None..MaxClock,
                   started : None..MaxClock]
    BY <1>0, <1>5, <2>1, GateAssumption
    DEF Admit, Accepted, LaterOf, TypeOK, Datagram, None
  <2>3. twin' \in [last : None..MaxSeq, latest : None..MaxClock, started : None..MaxClock]
    BY <1>0, <1>5, <2>1, GateAssumption
    DEF Admit, TwinAccepted, LaterOf, TypeOK, Datagram, None
  <2>4. heard' \in [Session -> 0..MaxSeq]
    BY <1>0, <1>5, <2>1, GateAssumption DEF Admit, LaterOf, TypeOK, Datagram
  <2>5. opened' \in 0..MaxSession
    BY <1>0, <1>5, <2>1, GateAssumption DEF Admit, TypeOK, Datagram, Session
  <2> QED
    BY <1>0, <1>5, <2>2, <2>3, <2>4, <2>5 DEF Admit, hostVars, TypeOK
<1>6. ASSUME NEW m \in sent, Discard(m) PROVE TypeOK'
  <2>1. m \in Datagram
    BY <1>0 DEF TypeOK
  <2>2. twin' \in [last : None..MaxSeq, latest : None..MaxClock, started : None..MaxClock]
    BY <1>0, <1>6, <2>1, GateAssumption
    DEF Discard, TwinAccepted, LaterOf, TypeOK, Datagram, None
  <2> QED
    BY <1>0, <1>6, <2>2 DEF Discard, hostVars, TypeOK
<1>7. CASE UNCHANGED vars
  BY <1>0, <1>7 DEF vars, hostVars, robotVars, TypeOK
<1> QED
  BY <1>1, <1>2, <1>3, <1>4, <1>5, <1>6, <1>7 DEF Next

\* Every step keeps what the gates remember.
LEMMA GateKept == IInv /\ [Next]_vars => GateFacts' /\ TwinFollows'
<1> SUFFICES ASSUME IInv, [Next]_vars PROVE GateFacts' /\ TwinFollows'
  OBVIOUS
<1>1. CASE ClockAdvances \/ Send \/ HostRestarts \/ UNCHANGED vars
  <2>1. UNCHANGED robotVars /\ sent \subseteq sent'
    BY <1>1 DEF ClockAdvances, Send, HostRestarts, vars, hostVars, robotVars
  <2> QED
    BY <2>1, HostKeepsGate
<1>2. CASE RobotReboots
  <2>1. /\ gate' = ClosedGate /\ twin' = ClosedTwin /\ opened' = 0
        /\ heard' = [s \in Session |-> 0]
    BY <1>2 DEF RobotReboots
  <2> QED
    BY <2>1, GateAssumption DEF GateFacts, FreshGate, LatestIsHeard, StartedIsOpening,
       LastCoversHeard, TwinFollows, ClosedGate
<1>3. ASSUME NEW m \in sent, Admit(m) PROVE GateFacts' /\ TwinFollows'
  BY <1>3, AdmitKeepsGate
<1>4. ASSUME NEW m \in sent, Discard(m) PROVE GateFacts' /\ TwinFollows'
  <2>1. ~TwinAccepts(twin, m)
    BY <1>4, SameVerdict DEF Discard
  <2>2. UNCHANGED robotVars /\ sent' = sent
    BY <1>4, <2>1 DEF Discard, hostVars, robotVars
  <2> QED
    BY <2>2, HostKeepsGate
<1> QED
  BY <1>1, <1>2, <1>3, <1>4 DEF Next

\* The invariant of the gate holds in every behaviour.
THEOREM Invariance == Spec => []IInv
<1>1. IInv /\ [Next]_vars => IInv'
  BY SentKept, TypesKept, GateKept DEF IInv
<1> QED
  BY InitEstablishes, <1>1, PTL DEF Spec

\* Every state is well typed (CommandParser, CommandDecoder).
THEOREM TypeCorrect == Spec => []TypeOK
<1>1. IInv => TypeOK
  BY DEF IInv
<1> QED
  BY Invariance, <1>1, PTL

\* The firmware's parser and the host's decoder always agree on what may still
\* arrive (CommandParser::decode, CommandDecoder.validate).
THEOREM DecodersAlwaysAgree == Spec => []DecodersAgree
<1>1. IInv => DecodersAgree
  BY SameVerdict DEF DecodersAgree
<1> QED
  BY Invariance, <1>1, PTL

\* The opening of the running host process gets through, however often host and
\* robot restarted and whatever is under way (Commander.open_session).
THEOREM OpeningAlwaysGetsThrough == Spec => []OpeningGetsThrough
<1>1. IInv => OpeningGetsThrough
  <2> SUFFICES ASSUME IInv, NEW m \in sent,
                      m.session = session, IsOpening(m), heard[session] = 0
               PROVE  Accepts(gate, m)
    BY DEF OpeningGetsThrough
  <2>1. m \in Datagram
    BY DEF IInv, TypeOK
  <2>2. ~FromOldSession(gate, m)
    <3>1. CASE opened = 0
      BY <3>1 DEF IInv, GateFacts, StartedIsOpening, FromOldSession, None
    <3>2. CASE opened > 0
      <4>1. PICK n \in sent : n.session = opened /\ n.ts = gate.started
        BY <3>2 DEF IInv, GateFacts, StartedIsOpening
      <4>2. opened # session
        BY <3>2, GateAssumption DEF IInv, GateFacts, StartedIsOpening
      <4>3. n \in Datagram /\ n.session < m.session
        BY SMTT(30), <4>1, <4>2, GateAssumption DEF IInv, TypeOK, SentOrdered, Datagram, Session
      <4>4. n.ts < m.ts
        BY <4>3 DEF IInv, SentOrdered
      <4> QED
        BY <2>1, <4>1, <4>3, <4>4, GateAssumption DEF FromOldSession, Datagram
    <3> QED
      BY <3>1, <3>2, GateAssumption DEF IInv, TypeOK
  <2>3. CASE gate.has
    <3>1. PICK n \in sent : n.ts = gate.latest /\ heard[n.session] > 0
      BY <2>3 DEF IInv, GateFacts, LatestIsHeard
    <3>2. n \in Datagram /\ n.session < m.session
      <4>1. n.session # session
        BY <3>1
      <4>2. n \in Datagram /\ session \in Session /\ n.session <= session
        BY DEF IInv, TypeOK, SentOrdered
      <4> QED
        BY <4>1, <4>2, GateAssumption DEF Datagram, Session
    <3>3. n.ts < m.ts
      BY <3>2 DEF IInv, SentOrdered
    <3> QED
      BY <2>1, <2>2, <2>3, <3>1, <3>2, <3>3, GateAssumption DEF Accepts, Opens, Datagram
  <2> QED
    BY <2>2, <2>3 DEF Accepts
<1> QED
  BY Invariance, <1>1, PTL

\* No command is obeyed twice or after a later one of its process (rule 1 of
\* docs/PROTOCOL.md section 3).
THEOREM NothingReplayed == Spec => NoReplay
<1>1. IInv => \A m \in sent : Admit(m) => m.seq > heard[m.session]
  BY AcceptedIsNews DEF Admit
<1>2. IInv /\ [Next]_vars => [\A m \in sent : Admit(m) => m.seq > heard[m.session]]_vars
  BY <1>1
<1> QED
  BY Invariance, <1>2, PTL DEF Spec, NoReplay

\* After a restart handshake nothing of an earlier process is obeyed
\* (docs/PROTOCOL.md "Host 재시작").
THEOREM OlderExcluded == Spec => HandshakeExcludesOlder
<1>1. IInv => \A m \in sent : Admit(m) => m.session >= opened
  BY NoOlder DEF Admit
<1>2. IInv /\ [Next]_vars => [\A m \in sent : Admit(m) => m.session >= opened]_vars
  BY <1>1
<1> QED
  BY Invariance, <1>2, PTL DEF Spec, HandshakeExcludesOlder
==============================================================================

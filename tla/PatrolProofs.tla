---------------------------- MODULE PatrolProofs ----------------------------
(***************************************************************************)
(* Theorems about Patrol, for any set of zones.                            *)
(*                                                                         *)
(* The argument.  A tick runs through states of the controller that lie    *)
(* inside of it, so the invariant Good is a predicate of a record, not of  *)
(* the variable: each operator of Patrol takes a good record to good ones. *)
(* Only one thing is added on the way: a tick that got past the stop       *)
(* (Passed) owes none, so what it does next may walk.                      *)
(***************************************************************************)
EXTENDS Patrol, TLAPS

Places == Zones \cup {"none", "GOAL", "HOME"}

Plans    == [to : Places, path : BOOLEAN]
Attempts == [at : {"none", "confirm", "scan", "settle"}, to : Places]

Records ==
    [phase : {"IDLE", "PLANNING", "MOVING", "AIMING", "INSPECT", "LOST"},
     plan : Plans,
     picked : {"none", "set", "reached", "blocked"},
     visited : SUBSET Zones, skipped : SUBSET Zones, zone : Zones \cup {"none"},
     home : BOOLEAN, waiting : BOOLEAN,
     attempt : Attempts,
     avoiding : BOOLEAN, required : BOOLEAN, sent : {"fresh", "moving", "stopped"},
     walks : BOOLEAN, on : BOOLEAN, resume : BOOLEAN, dead : BOOLEAN, owed : BOOLEAN]

\* TargetsStand, of a record.
Wanted(p) == /\ p.visited \cap p.skipped = {}
             /\ {p.plan.to, p.attempt.to} \cap (p.visited \cup p.skipped) = {}
             /\ "GOAL" \in {p.plan.to, p.attempt.to} => p.picked = "set"

\* A way leads somewhere, an attempt has a target, and only a zone is looked at.
Aimful(p) == /\ p.plan.path => p.plan.to # "none"
             /\ p.attempt.at = "none" <=> p.attempt.to = "none"
             /\ p.phase = "AIMING" => p.plan.to \in Zones /\ p.attempt.at = "none"

\* A stop that is owed is required, was not sent, and is what the patrol intends.
Rests(p) == p.owed => p.required /\ p.sent # "stopped" /\ ~p.walks

Good(p) == p \in Records /\ Wanted(p) /\ Aimful(p) /\ Rests(p)

\* A good record without an attempt and without a stop that is owed.
Free(p) == Good(p) /\ p.attempt.at = "none" /\ ~p.owed

------------------------------------------------------------------------------
LEMMA PlacesHold ==
    /\ {"none", "GOAL", "HOME"} \cup Zones = Places /\ "none" \notin Zones
    /\ "GOAL" \notin Zones /\ "HOME" \notin Zones /\ Aimed \subseteq Zones
BY ZonesAssumption DEF Places

LEMMA EmptyTyped ==
    /\ NoPlan \in Plans /\ NoPlan.to = "none" /\ ~NoPlan.path
    /\ NoAttempt \in Attempts /\ NoAttempt.at = "none" /\ NoAttempt.to = "none"
BY DEF NoPlan, NoAttempt, Plans, Attempts, Places

\* Intents.
LEMMA StandGood ==
    ASSUME NEW p, Good(p)
    PROVE  /\ Good(Stand(p)) /\ (Free(p) => Free(Stand(p)))
           /\ ~Stand(p).walks /\ Stand(p).plan = p.plan /\ Stand(p).phase = p.phase
           /\ Stand(p).attempt = p.attempt /\ Stand(p).picked = p.picked
<1>1. Stand(p) \in Records
  BY DEF Good, Records, Stand
<1>2. Wanted(Stand(p))
  BY DEF Good, Records, Wanted, Stand
<1>3. Aimful(Stand(p))
  BY DEF Good, Records, Aimful, Stand
<1>4. Rests(Stand(p))
  BY DEF Good, Records, Rests, Stand
<1>5. /\ Stand(p).attempt = p.attempt /\ Stand(p).owed = p.owed
      /\ ~Stand(p).walks /\ Stand(p).plan = p.plan /\ Stand(p).phase = p.phase
      /\ Stand(p).attempt = p.attempt /\ Stand(p).picked = p.picked
  BY DEF Good, Records, Stand
<1> QED
  BY <1>1, <1>2, <1>3, <1>4, <1>5 DEF Good, Free

LEMMA WalkGood == ASSUME NEW p, Good(p), ~p.owed PROVE Good(Walk(p))
<1>1. Walk(p) \in Records
  BY DEF Good, Records, Walk
<1>2. Wanted(Walk(p)) /\ Aimful(Walk(p)) /\ Rests(Walk(p))
  BY DEF Good, Records, Wanted, Aimful, Rests, Walk
<1> QED
  BY <1>1, <1>2 DEF Good

LEMMA HeadingWanted ==
    ASSUME NEW p, Good(p)
    PROVE  /\ Heading(p) \in Places \ {"none"} /\ Heading(p) \notin p.visited \cup p.skipped
           /\ Heading(p) = "GOAL" => p.picked = "set"
<1>1. Left(p) # {} => (CHOOSE z \in Left(p) : TRUE) \in Left(p)
  OBVIOUS
<1>2. p.visited \subseteq Zones /\ p.skipped \subseteq Zones /\ p.plan.to \in Places
  BY DEF Good, Records, Plans
<1>3. /\ p.plan.to \notin p.visited \cup p.skipped
      /\ p.plan.to = "GOAL" => p.picked = "set"
  BY DEF Good, Wanted
<1> QED
  BY <1>1, <1>2, <1>3, PlacesHold DEF Heading, Left

\* The stop of a blockage.
LEMMA RequireGood ==
    ASSUME NEW p, Good(p)
    PROVE  /\ Good(Require(p)) /\ ~Require(p).walks
           /\ Require(p).plan = p.plan /\ Require(p).phase = p.phase /\ Require(p).attempt = p.attempt
<1> DEFINE b == p.owed \/ p.sent # "stopped"
<1>1. b \in BOOLEAN
  OBVIOUS
<1>2. Require(p) = Stand([p EXCEPT !.required = TRUE, !.owed = b])
  BY DEF Good, Records, Require
<1> HIDE DEF b
<1>3. Require(p) \in Records
  BY <1>1, <1>2 DEF Good, Records, Stand
<1>4. Wanted(Require(p)) /\ Aimful(Require(p))
  BY <1>2 DEF Good, Records, Wanted, Aimful, Stand
<1>5. Require(p).plan = p.plan /\ Require(p).phase = p.phase /\ Require(p).attempt = p.attempt
  BY <1>2 DEF Good, Records, Stand
<1>6. /\ ~Require(p).walks /\ Require(p).required /\ Require(p).sent = p.sent
      /\ Require(p).owed = b
  BY <1>2 DEF Good, Records, Stand
<1>7. Rests(Require(p))
  BY <1>6 DEF Good, Rests, b
<1> QED
  BY <1>3, <1>4, <1>5, <1>6, <1>7 DEF Good

LEMMA BeginGood == ASSUME NEW p, Good(p) PROVE Good(Begin(p)) /\ ~Begin(p).walks
<1>1. CASE p.attempt.at # "none"
  <2> DEFINE q == [p EXCEPT !.avoiding = FALSE]
  <2>1. q \in Records
    BY DEF Good, Records
  <2>2. Wanted(q) /\ Aimful(q) /\ Rests(q)
    BY DEF Good, Records, Wanted, Aimful, Rests
  <2>3. Good(q)
    BY <2>1, <2>2 DEF Good
  <2> HIDE DEF q
  <2>4. Good(Stand(q)) /\ ~Stand(q).walks
    BY <2>3, StandGood
  <2> QED
    BY <1>1, <2>4 DEF Begin, q
<1>2. CASE p.attempt.at = "none"
  <2> DEFINE h == Heading(p)
             q == [p EXCEPT !.avoiding = FALSE, !.phase = "PLANNING",
                            !.attempt = [at |-> "confirm", to |-> h]]
  <2>1. h \in Places \ {"none"} /\ h \notin p.visited \cup p.skipped /\ (h = "GOAL" => p.picked = "set")
    BY HeadingWanted
  <2> HIDE DEF h
  <2>2. q \in Records
    <3>1. [at |-> "confirm", to |-> h] \in Attempts
      BY <2>1 DEF Attempts
    <3> QED
      BY <3>1 DEF Good, Records
  <2>3. Wanted(q)
    BY <2>1 DEF Good, Records, Wanted
  <2>4. Aimful(q) /\ Rests(q)
    BY <2>1 DEF Good, Records, Aimful, Rests
  <2>5. Good(q)
    BY <2>2, <2>3, <2>4 DEF Good
  <2> HIDE DEF q
  <2>6. Good(Require(q)) /\ ~Require(q).walks
    BY <2>5, RequireGood
  <2> QED
    BY <1>2, <2>6 DEF Begin, q, h
<1> QED
  BY <1>1, <1>2

LEMMA WaitPatrolGood == ASSUME NEW p, Good(p), p.phase # "AIMING" PROVE Good(WaitPatrol(p)) /\ ~WaitPatrol(p).plan.path
<1> DEFINE r == WaitPatrol(p)
<1>1. r \in Records /\ ~r.plan.path
  BY PlacesHold, EmptyTyped DEF WaitPatrol, Stand, Good, Records
<1>2. r.plan = NoPlan /\ r.visited = p.visited /\ r.skipped = p.skipped /\ r.attempt = p.attempt /\ r.picked = p.picked
  BY DEF WaitPatrol, Stand, Good, Records
<1>3. Wanted(r)
  BY <1>2, PlacesHold, EmptyTyped DEF Good, Records, Wanted
<1>4. Aimful(r) /\ Rests(r)
  BY EmptyTyped DEF WaitPatrol, Stand, Good, Records, Aimful, Rests
<1> QED
  BY <1>1, <1>3, <1>4 DEF Good

LEMMA ReturnHomeGood ==
    ASSUME NEW p, Good(p), p.attempt.at = "none"
    PROVE  Good(ReturnHome(p)) /\ ~ReturnHome(p).plan.path
<1> DEFINE k == IF p.picked = "set" THEN "none" ELSE p.picked
           home == [to |-> "HOME", path |-> FALSE]
           q == [p EXCEPT !.home = TRUE, !.plan = home, !.picked = k, !.phase = "PLANNING"]
<1>1. ReturnHome(p) = Stand(q) /\ k \in {"none", "set", "reached", "blocked"}
  BY DEF ReturnHome, Good, Records
<1>2. home \in Plans /\ home.to = "HOME" /\ ~home.path
  BY PlacesHold DEF Plans
<1> HIDE DEF k, home
<1>3. q \in Records
  BY <1>1, <1>2 DEF Good, Records
<1>4. q.plan = home /\ q.phase = "PLANNING"
  BY DEF Good, Records
<1>5. Wanted(q)
  BY <1>2, PlacesHold DEF Good, Records, Wanted, Aimful
<1>6. Aimful(q) /\ Rests(q)
  BY <1>2 DEF Good, Records, Aimful, Rests
<1> HIDE DEF q
<1> QED
  BY <1>1, <1>2, <1>3, <1>4, <1>5, <1>6, StandGood DEF Good

LEMMA CloseCycleGood == ASSUME NEW p, Good(p) PROVE Good(CloseCycle(p))
<1> DEFINE r == CloseCycle(p)
<1>1. r \in Records
  BY DEF CloseCycle, Good, Records
<1>2. Wanted(r)
  BY DEF CloseCycle, Good, Records, Wanted
<1>3. Aimful(r) /\ Rests(r)
  BY DEF CloseCycle, Good, Records, Aimful, Rests
<1> QED
  BY <1>1, <1>2, <1>3 DEF Good

\* An attempt is given up.
LEMMA FailGood ==
    ASSUME NEW p, Good(p), p.attempt.at # "none"
    PROVE  Good(Fail(p)) /\ Fail(p).attempt.at = "none"
<1> DEFINE b == p.sent # "stopped"
           f == [p EXCEPT !.attempt = NoAttempt, !.avoiding = FALSE, !.required = b]
           q == Stand(f)
           blocked == [q EXCEPT !.picked = "blocked", !.plan = NoPlan, !.phase = "IDLE"]
           given == [q EXCEPT !.skipped = @ \cup {p.attempt.to}, !.plan = NoPlan, !.phase = "PLANNING"]
<1>1. b \in BOOLEAN
  OBVIOUS
<1> HIDE DEF b
<1>2. f \in Records
  BY <1>1, PlacesHold, EmptyTyped DEF Good, Records
<1>3. Wanted(f) /\ Aimful(f)
  BY PlacesHold, EmptyTyped DEF Good, Records, Wanted, Aimful
<1>4. Rests(f)
  BY DEF Good, Records, Rests, b
<1>5. /\ f.attempt = NoAttempt /\ f.phase = p.phase /\ f.picked = p.picked
      /\ f.visited = p.visited /\ f.skipped = p.skipped
  BY DEF Good, Records
<1> HIDE DEF f
<1>6. /\ Good(q) /\ q.attempt = NoAttempt /\ q.phase = p.phase /\ q.picked = p.picked
      /\ q.visited = p.visited /\ q.skipped = p.skipped /\ ~q.walks
  BY <1>2, <1>3, <1>4, <1>5, StandGood DEF Good, Stand, Records
<1>7. /\ p.attempt.to \in Places \ {"none"} /\ p.attempt.to \notin p.visited
      /\ p.attempt.to = "GOAL" => p.picked = "set"
      /\ p.phase # "AIMING"
  BY DEF Good, Records, Attempts, Aimful, Wanted
<1> HIDE DEF q
<1>8. Fail(p) = IF p.attempt.to = "HOME" THEN WaitPatrol(q)
                ELSE IF p.picked = "set" THEN blocked ELSE given
  BY DEF Fail, b, f, q
<1>9. CASE p.attempt.to = "HOME"
  <2>1. WaitPatrol(q).attempt = q.attempt
    BY <1>6 DEF WaitPatrol, Stand, Good, Records
  <2> QED
    BY <1>6, <1>7, <1>8, <1>9, <2>1, WaitPatrolGood, EmptyTyped
<1>10. CASE p.attempt.to # "HOME" /\ p.picked = "set"
  <2>1. blocked \in Records
    BY ZenonT(30), <1>6, PlacesHold, EmptyTyped DEF Good, Records
  <2>2. Wanted(blocked)
    BY <1>6, PlacesHold, EmptyTyped DEF Good, Records, Wanted
  <2>3. Aimful(blocked) /\ Rests(blocked) /\ blocked.attempt = NoAttempt
    BY <1>6, EmptyTyped DEF Good, Records, Aimful, Rests
  <2> QED
    BY <1>8, <1>10, <2>1, <2>2, <2>3, EmptyTyped DEF Good
<1>11. CASE p.attempt.to # "HOME" /\ p.picked # "set"
  <2>1. p.attempt.to \in Zones
    BY <1>7, <1>11, PlacesHold
  <2>2. given \in Records
    BY ZenonT(30), <1>6, <2>1, PlacesHold, EmptyTyped DEF Good, Records
  <2>3. /\ given.visited = p.visited /\ given.skipped = p.skipped \cup {p.attempt.to}
        /\ given.plan = NoPlan /\ given.attempt = NoAttempt
    BY <1>6 DEF Good, Records
  <2>4. Wanted(given)
    <3>1. p.visited \subseteq Zones /\ p.skipped \subseteq Zones /\ p.visited \cap p.skipped = {}
      BY DEF Good, Records, Wanted
    <3> HIDE DEF given
    <3> QED
      BY <1>7, <2>1, <2>3, <3>1, PlacesHold, EmptyTyped DEF Wanted
  <2>5. Aimful(given) /\ Rests(given)
    BY <1>6, EmptyTyped DEF Good, Records, Aimful, Rests
  <2> QED
    BY <1>8, <1>11, <2>2, <2>3, <2>4, <2>5, EmptyTyped DEF Good
<1> QED
  BY <1>9, <1>10, <1>11

LEMMA ExpiredGood == ASSUME NEW p, Good(p) PROVE Good(Expired(p))
<1>1. CASE p.attempt.at # "none"
  <2> DEFINE q == Fail(p)
             s == IF p.phase = "LOST" THEN "LOST" ELSE q.phase
             r == [q EXCEPT !.phase = s]
  <2>1. Good(q) /\ q.attempt.at = "none"
    BY <1>1, FailGood
  <2>2. s \in {"LOST", q.phase} /\ Expired(p) = r
    BY <1>1, <2>1 DEF Expired, Good, Records
  <2> HIDE DEF q, s
  <2>3. r \in Records
    BY <2>1, <2>2 DEF Good, Records
  <2>4. Wanted(r) /\ Aimful(r) /\ Rests(r)
    BY <2>1, <2>2 DEF Good, Records, Wanted, Aimful, Rests
  <2> QED
    BY <2>2, <2>3, <2>4 DEF Good
<1> QED
  BY <1>1 DEF Expired

------------------------------------------------------------------------------
\* Planning.  Whoever has a way has no attempt, and owes no stop it did not owe.
Onward(p, r) == Good(r) /\ (r.plan.path => r.attempt.at = "none" /\ (r.owed => p.owed))

LEMMA TowardsGood ==
    ASSUME NEW p, Good(p), p.attempt.at = "none", p.phase # "AIMING",
           NEW to \in Places \ {"none"}, to \notin p.visited \cup p.skipped,
           to = "GOAL" => p.picked = "set", NEW r \in Towards(p, to)
    PROVE  Onward(p, r)
<1> DEFINE there(b) == [to |-> to, path |-> b]
           q(b) == [p EXCEPT !.plan = there(b)]
<1>1. ASSUME NEW b \in BOOLEAN
      PROVE  Good(q(b)) /\ q(b).attempt.at = "none" /\ q(b).owed = p.owed /\ q(b).plan = there(b)
  <2>1. there(b) \in Plans /\ there(b).to = to
    BY DEF Plans
  <2> HIDE DEF there
  <2>2. q(b) \in Records
    BY <2>1 DEF Good, Records
  <2>3. Wanted(q(b))
    BY <2>1 DEF Good, Records, Wanted
  <2>4. Aimful(q(b)) /\ Rests(q(b))
    BY <2>1 DEF Good, Records, Aimful, Rests
  <2> QED
    BY <2>2, <2>3, <2>4 DEF Good, Records
<1>2. r \in {q(TRUE), Begin(q(FALSE))}
  BY DEF Towards
<1>3. CASE r = q(TRUE)
  BY <1>1, <1>3 DEF Onward
<1>4. CASE r = Begin(q(FALSE))
  <2> HIDE DEF q
  <2>1. Good(q(FALSE)) /\ q(FALSE).attempt.at = "none" /\ q(FALSE).plan = there(FALSE)
    BY <1>1
  <2>2. Good(r)
    BY <1>4, <2>1, BeginGood
  <2>3. r.plan = q(FALSE).plan /\ there(FALSE).path = FALSE
    BY <1>4, <2>1 DEF Begin, Require, Stand, Good, Records
  <2> QED
    BY <2>1, <2>2, <2>3 DEF Onward, there
<1> QED
  BY <1>2, <1>3, <1>4

LEMMA NoPlanGood == ASSUME NEW p, Good(p), p.phase # "AIMING" PROVE
    LET q == [p EXCEPT !.plan = NoPlan] IN Good(q) /\ q.plan = NoPlan /\ q.phase = p.phase /\ q.attempt = p.attempt
<1> DEFINE q == [p EXCEPT !.plan = NoPlan]
<1>1. q \in Records
  BY EmptyTyped DEF Good, Records
<1>2. Wanted(q)
  BY EmptyTyped, PlacesHold DEF Good, Records, Wanted
<1>3. Aimful(q) /\ Rests(q) /\ q.plan = NoPlan /\ q.phase = p.phase /\ q.attempt = p.attempt
  BY EmptyTyped DEF Good, Records, Aimful, Rests
<1> QED
  BY <1>1, <1>2, <1>3 DEF Good

LEMMA SelectZoneGood ==
    ASSUME NEW p, Good(p), p.attempt.at = "none", p.phase # "AIMING", NEW r \in SelectZone(p)
    PROVE  Onward(p, r)
<1>1. CASE Left(p) # {}
  <2>1. PICK z \in Left(p) : r \in Towards(p, z)
    BY <1>1 DEF SelectZone
  <2>2. z \in Places \ {"none"} /\ z # "GOAL" /\ z \notin p.visited \cup p.skipped
    BY <2>1, PlacesHold DEF Left
  <2> QED
    BY <2>1, <2>2, TowardsGood
<1>2. CASE Left(p) = {} /\ p.visited = {}
  BY <1>2, ReturnHomeGood DEF SelectZone, Onward
<1>3. CASE Left(p) = {} /\ p.visited # {}
  <2> DEFINE q == [p EXCEPT !.plan = NoPlan]
  <2>1. Good(q) /\ q.plan = NoPlan
    BY NoPlanGood
  <2> HIDE DEF q
  <2>2. CloseCycle(q).plan = NoPlan
    BY <2>1 DEF CloseCycle, Good, Records
  <2> QED
    BY <1>3, <2>1, <2>2, CloseCycleGood, EmptyTyped DEF SelectZone, Onward, q
<1> QED
  BY <1>1, <1>2, <1>3

LEMMA ReplanGood ==
    ASSUME NEW p, Good(p), p.attempt.at = "none", p.phase # "AIMING", NEW r \in Replan(p)
    PROVE  Good(r) /\ (Onward(p, r) \/ r.dead)
<1> DEFINE q == [p EXCEPT !.zone = "none"]
<1>1. q \in Records
  BY PlacesHold DEF Good, Records
<1>2. Wanted(q) /\ Aimful(q) /\ Rests(q)
  BY DEF Good, Records, Wanted, Aimful, Rests
<1>3. /\ Good(q) /\ q.attempt.at = "none" /\ q.phase # "AIMING" /\ q.owed = p.owed
      /\ \A s : Onward(q, s) => Onward(p, s) /\ Good(s)
  BY <1>1, <1>2 DEF Good, Records, Onward
<1>4. Replan(p) =
        IF q.home THEN {[q EXCEPT !.plan = [to |-> "HOME", path |-> TRUE]], WaitPatrol(q)}
        ELSE IF q.picked = "set"
             THEN Towards(q, "GOAL") \cup {Stand([q EXCEPT !.picked = "blocked", !.plan = NoPlan])}
        ELSE IF q.plan.to \notin {"none"} \cup q.visited \cup q.skipped
             THEN IF q.plan.to \in Zones THEN Towards(q, q.plan.to) ELSE {Crash(q)}
        ELSE SelectZone(q)
  BY DEF Replan
<1> HIDE DEF q
<1> SUFFICES Good(r) /\ (Onward(q, r) \/ r.dead)
  BY <1>3
<1>5. CASE q.home
  <2> DEFINE home == [to |-> "HOME", path |-> TRUE]
             s == [q EXCEPT !.plan = home]
  <2>1. home \in Plans /\ home.to = "HOME"
    BY PlacesHold DEF Plans
  <2> HIDE DEF home
  <2>2. s \in Records
    BY <1>3, <2>1 DEF Good, Records
  <2>3. Wanted(s)
    BY <1>3, <2>1, PlacesHold DEF Good, Records, Wanted
  <2>4. Aimful(s) /\ Rests(s) /\ s.attempt = q.attempt /\ s.owed = q.owed
    BY <1>3, <2>1 DEF Good, Records, Aimful, Rests
  <2>5. Onward(q, s)
    BY <1>3, <2>2, <2>3, <2>4 DEF Good, Onward
  <2>6. Onward(q, WaitPatrol(q))
    BY <1>3, WaitPatrolGood DEF Onward
  <2>7. r \in {s, WaitPatrol(q)}
    BY <1>4, <1>5 DEF home
  <2> QED
    BY <2>5, <2>6, <2>7 DEF Onward
<1>6. CASE ~q.home /\ q.picked = "set"
  <2> DEFINE f == [q EXCEPT !.plan = NoPlan]
             g == [f EXCEPT !.picked = "blocked"]
  <2>1. Good(f) /\ f.plan = NoPlan /\ f.attempt = q.attempt
    BY <1>3, NoPlanGood
  <2>2. [q EXCEPT !.picked = "blocked", !.plan = NoPlan] = g
    BY <1>3 DEF Good, Records
  <2> HIDE DEF f
  <2>3. g \in Records
    BY <2>1 DEF Good, Records
  <2>4. Wanted(g)
    BY <1>3, <2>1, EmptyTyped DEF Good, Records, Wanted, Aimful
  <2>5. Aimful(g) /\ Rests(g) /\ g.plan = NoPlan
    BY <2>1 DEF Good, Records, Aimful, Rests
  <2>6. Onward(q, Stand(g))
    <3> HIDE DEF g
    <3> QED
      BY <2>3, <2>4, <2>5, StandGood, EmptyTyped DEF Good, Onward
  <2>7. ASSUME NEW s \in Towards(q, "GOAL") PROVE Onward(q, s)
    <3>1. "GOAL" \in Places \ {"none"} /\ "GOAL" \notin q.visited \cup q.skipped
      BY <1>3, PlacesHold DEF Good, Records
    <3> QED
      BY <1>3, <1>6, <3>1, TowardsGood
  <2>8. r \in Towards(q, "GOAL") \/ r = Stand(g)
    BY <1>4, <1>6, <2>2
  <2> QED
    BY <2>6, <2>7, <2>8 DEF Onward
<1>7. CASE ~q.home /\ q.picked # "set" /\ q.plan.to \in Zones /\ q.plan.to \notin q.visited \cup q.skipped
  <2>1. q.plan.to \in Places \ {"none"} /\ q.plan.to # "GOAL"
    BY <1>7, PlacesHold
  <2>2. r \in Towards(q, q.plan.to)
    BY <1>4, <1>7, PlacesHold
  <2> QED
    BY <1>3, <1>7, <2>1, <2>2, TowardsGood
<1>8. CASE r = Crash(q)
  <2>1. r \in Records /\ r.dead
    BY <1>3, <1>8 DEF Crash, Good, Records
  <2>2. Wanted(r) /\ Aimful(r) /\ Rests(r)
    BY <1>3, <1>8 DEF Crash, Good, Records, Wanted, Aimful, Rests
  <2> QED
    BY <2>1, <2>2 DEF Good
<1>9. CASE r \in SelectZone(q)
  BY <1>3, <1>9, SelectZoneGood
<1> QED
  BY <1>4, <1>5, <1>6, <1>7, <1>8, <1>9

------------------------------------------------------------------------------
\* Arrival.
LEMMA ZoneReachedGood ==
    ASSUME NEW p, Good(p), p.attempt.at = "none", p.plan.to \in Zones
    PROVE  Good(ZoneReached(p, p.plan.to))
<1> DEFINE z == p.plan.to
           q == [p EXCEPT !.phase = "INSPECT", !.zone = z, !.visited = @ \cup {z}, !.plan = NoPlan]
<1>1. z \in Zones /\ z \notin p.skipped /\ p.attempt.to = "none"
  BY DEF Good, Wanted, Aimful
<1>2. ZoneReached(p, z) \in {q, CloseCycle(q)}
  BY DEF ZoneReached
<1> HIDE DEF z
<1>3. q \in Records
  BY <1>1, EmptyTyped DEF Good, Records
<1>4. q.visited = p.visited \cup {z} /\ q.skipped = p.skipped /\ q.plan = NoPlan /\ q.attempt = p.attempt
  BY DEF Good, Records
<1>5. Wanted(q)
  <2>1. p.visited \subseteq Zones /\ p.skipped \subseteq Zones /\ p.visited \cap p.skipped = {}
    BY DEF Good, Records, Wanted
  <2> HIDE DEF q
  <2> QED
    BY <1>1, <1>4, <2>1, EmptyTyped, PlacesHold DEF Wanted
<1>6. Aimful(q) /\ Rests(q)
  BY EmptyTyped DEF Good, Records, Aimful, Rests
<1> HIDE DEF q
<1> QED
  BY <1>2, <1>3, <1>5, <1>6, CloseCycleGood DEF Good, z

LEMMA TargetReachedGood ==
    ASSUME NEW p, Free(p), p.phase # "AIMING", p.plan.to # "none"
    PROVE  Good(TargetReached(p))
<1>1. Good(p) /\ p.attempt.at = "none" /\ p.plan.to \in Places \ {"none"}
  BY DEF Free, Good, Records, Plans
<1>2. CASE p.plan.to = "HOME"
  BY <1>1, <1>2, PlacesHold, WaitPatrolGood DEF TargetReached
<1>3. CASE p.plan.to = "GOAL"
  <2> DEFINE g == [p EXCEPT !.picked = "reached", !.plan = NoPlan, !.phase = "PLANNING"]
  <2>1. g \in Records
    BY <1>1, EmptyTyped DEF Good, Records
  <2>2. g.plan = NoPlan /\ g.attempt = p.attempt /\ g.phase = "PLANNING" /\ p.attempt.to = "none"
    BY <1>1 DEF Good, Records, Aimful
  <2>3. Wanted(g)
    BY <1>1, <2>2, EmptyTyped, PlacesHold DEF Good, Records, Wanted
  <2>4. Aimful(g) /\ Rests(g)
    BY <1>1, <2>2, EmptyTyped DEF Good, Records, Aimful, Rests
  <2> HIDE DEF g
  <2>5. Good(Stand(g))
    BY <2>1, <2>3, <2>4, StandGood DEF Good
  <2> QED
    BY <1>3, <2>5, PlacesHold DEF TargetReached, g
<1>4. CASE p.plan.to \in Aimed
  <2> DEFINE g == [p EXCEPT !.phase = "AIMING"]
  <2>1. p.plan.to \in Zones
    BY <1>4, PlacesHold
  <2>2. g \in Records /\ Wanted(g)
    BY <1>1 DEF Good, Records, Wanted
  <2>3. Aimful(g) /\ Rests(g)
    BY <1>1, <2>1 DEF Good, Records, Aimful, Rests
  <2> HIDE DEF g
  <2>4. Good(Stand(g))
    BY <2>2, <2>3, StandGood DEF Good
  <2>5. p.plan.to # "HOME" /\ p.plan.to # "GOAL"
    BY <1>4, PlacesHold
  <2> QED
    BY <1>4, <2>4, <2>5 DEF TargetReached, g
<1>5. CASE p.plan.to \notin {"HOME", "GOAL"} \cup Aimed
  <2>1. p.plan.to \in Zones
    BY <1>1, <1>5, PlacesHold
  <2>2. TargetReached(p) = Stand(ZoneReached(p, p.plan.to))
    BY <1>5 DEF TargetReached
  <2> QED
    BY <1>1, <2>1, <2>2, ZoneReachedGood, StandGood
<1> QED
  BY <1>2, <1>3, <1>4, <1>5

LEMMA AimGood ==
    ASSUME NEW p, Free(p), p.phase = "AIMING", NEW r \in Aim(p)
    PROVE  Good(r)
<1>1. Good(p) /\ ~p.owed /\ p.attempt.at = "none" /\ p.plan.to \in Zones
  BY DEF Free, Good, Aimful
<1> DEFINE q == [p EXCEPT !.phase = "PLANNING", !.plan.path = FALSE]
<1>2. q.plan = [to |-> p.plan.to, path |-> FALSE] /\ q.plan \in Plans
  BY <1>1 DEF Good, Records, Plans
<1>3. q \in Records
  BY <1>1 DEF Good, Records, Plans
<1>4. Wanted(q) /\ Aimful(q) /\ Rests(q)
  BY <1>1, <1>2 DEF Good, Records, Wanted, Aimful, Rests
<1> HIDE DEF q
<1>5. r \in {Stand(q), Walk(p), Stand(ZoneReached(p, p.plan.to))}
  BY DEF Aim, q
<1>6. Good(Stand(q))
  BY <1>3, <1>4, StandGood DEF Good
<1>7. Good(Stand(ZoneReached(p, p.plan.to)))
  BY <1>1, ZoneReachedGood, StandGood
<1> QED
  BY <1>1, <1>5, <1>6, <1>7, WalkGood

LEMMA FollowGood ==
    ASSUME NEW p, Free(p), p.phase # "AIMING", p.plan.to # "none", NEW r \in Follow(p)
    PROVE  Good(r)
BY TargetReachedGood, BeginGood, WalkGood DEF Follow, Free

------------------------------------------------------------------------------
\* A blockage.
LEMMA AvoidGood ==
    ASSUME NEW p, Good(p)
    PROVE  Good(Avoid(p))
<1> DEFINE q == [p EXCEPT !.avoiding = TRUE]
<1>1. q \in Records /\ Wanted(q) /\ Aimful(q) /\ Rests(q)
  <2>1. q \in Records
    BY DEF Good, Records
  <2> QED
    BY <2>1 DEF Good, Records, Wanted, Aimful, Rests
<1> HIDE DEF q
<1> QED
  BY <1>1, StandGood DEF Avoid, Good, q

\* The way of the plan is dropped, in some phase in which nothing is looked at.
LEMMA PathDropped ==
    ASSUME NEW p, Good(p), NEW f \in {p.phase, "PLANNING"}
    PROVE  LET q == [p EXCEPT !.plan.path = FALSE, !.phase = f]
           IN  Good(q) /\ q.attempt = p.attempt /\ q.phase = f /\ q.owed = p.owed
<1> DEFINE q == [p EXCEPT !.plan.path = FALSE, !.phase = f]
<1>1. q.plan = [to |-> p.plan.to, path |-> FALSE] /\ q.plan \in Plans
  BY DEF Good, Records, Plans
<1>2. q \in Records
  BY DEF Good, Records, Plans
<1>3. Wanted(q) /\ Aimful(q) /\ Rests(q)
  BY <1>1 DEF Good, Records, Wanted, Aimful, Rests
<1>4. q.attempt = p.attempt /\ q.phase = f /\ q.owed = p.owed
  BY DEF Good, Records
<1> QED
  BY <1>2, <1>3, <1>4 DEF Good

LEMMA AvoidStepGood ==
    ASSUME NEW p, Free(p), NEW r \in AvoidStep(p)
    PROVE  Good(r)
<1> DEFINE ended == [p EXCEPT !.avoiding = FALSE]
           clear == [ended EXCEPT !.plan.path = FALSE, !.phase = "PLANNING"]
<1>1. Good(p) /\ ~p.owed /\ p.attempt.at = "none"
  BY DEF Free
<1>2. Good(ended) /\ ended.attempt.at = "none"
  <2>1. ended \in Records
    BY <1>1 DEF Good, Records
  <2> QED
    BY <1>1, <2>1 DEF Good, Records, Wanted, Aimful, Rests
<1>3. r \in Replan(Require(clear)) \cup {Begin(ended), Stand(ended), Walk(p)}
  BY DEF AvoidStep
<1> HIDE DEF ended
<1>4. Good(clear) /\ clear.attempt.at = "none" /\ clear.phase = "PLANNING"
  BY <1>2, PathDropped
<1> HIDE DEF clear
<1>5. CASE r \in Replan(Require(clear))
  <2>1. Good(Require(clear)) /\ Require(clear).attempt.at = "none" /\ Require(clear).phase = "PLANNING"
    BY <1>4, RequireGood
  <2> HIDE DEF clear
  <2> QED
    BY <1>5, <2>1, ReplanGood
<1> QED
  BY <1>1, <1>2, <1>3, <1>5, BeginGood, StandGood, WalkGood

LEMMA AttemptGood ==
    ASSUME NEW p, Good(p), ~p.owed, p.attempt.at # "none", NEW r \in Attempt(p)
    PROVE  Good(r)
<1> DEFINE at(s) == [p EXCEPT !.attempt.at = s]
           ended == [Stand(p) EXCEPT !.attempt = NoAttempt, !.required = FALSE]
           to == p.attempt.to
           way(b) == [to |-> to, path |-> b]
           found == [ended EXCEPT !.plan = way(TRUE), !.phase = "MOVING"]
           around == [ended EXCEPT !.plan = way(FALSE)]
           again == [around EXCEPT !.attempt = p.attempt]
<1>1. r \in {Expired(p), Stand(p), Walk(p), Walk(at("scan")), Stand(at("settle")),
             found, Avoid(around), Fail(again), again}
  BY DEF Attempt
<1>2. ASSUME NEW s \in {"scan", "settle"} PROVE Good(at(s)) /\ ~at(s).owed
  <2>1. at(s).attempt = [at |-> s, to |-> p.attempt.to] /\ at(s).attempt \in Attempts
    BY DEF Good, Records, Attempts
  <2>2. at(s) \in Records
    BY DEF Good, Records, Attempts
  <2> QED
    BY <2>1, <2>2 DEF Good, Records, Wanted, Aimful, Rests
<1>3. /\ to \in Places \ {"none"} /\ to \notin p.visited \cup p.skipped
      /\ to = "GOAL" => p.picked = "set"
      /\ p.phase # "AIMING" /\ p.attempt \in Attempts
  BY DEF Good, Records, Attempts, Aimful, Wanted
<1>4. ended \in Records
  BY EmptyTyped DEF Stand, Good, Records
<1>5. /\ ended.visited = p.visited /\ ended.skipped = p.skipped /\ ended.picked = p.picked
      /\ ended.phase = p.phase /\ ended.attempt = NoAttempt /\ ~ended.owed
  BY DEF Stand, Good, Records
<1> HIDE DEF ended, at
<1>6. ASSUME NEW b \in BOOLEAN PROVE way(b) \in Plans /\ way(b).to = to
  BY <1>3 DEF Plans
<1> HIDE DEF way
<1>7. Good(found)
  <2>1. found \in Records
    BY <1>4, <1>6 DEF Records
  <2>2. found.plan = way(TRUE) /\ found.attempt = NoAttempt /\ found.phase = "MOVING" /\ ~found.owed
        /\ found.visited = p.visited /\ found.skipped = p.skipped /\ found.picked = p.picked
    BY <1>4, <1>5 DEF Records
  <2> HIDE DEF found, to
  <2>3. p.visited \cap p.skipped = {} /\ p.visited \subseteq Zones /\ p.skipped \subseteq Zones
    BY DEF Good, Records, Wanted
  <2>4. Wanted(found)
    BY <1>3, <1>6, <2>2, <2>3, EmptyTyped, PlacesHold DEF Wanted
  <2> QED
    BY <1>3, <1>6, <2>1, <2>2, <2>4, EmptyTyped DEF Good, Aimful, Rests
<1>8. /\ around \in Records /\ again \in Records
  BY <1>3, <1>4, <1>6 DEF Records
<1>9. /\ around.plan = way(FALSE) /\ around.attempt = NoAttempt /\ around.phase = p.phase
      /\ again.plan = way(FALSE) /\ again.attempt = p.attempt /\ again.phase = p.phase
      /\ ~around.owed /\ ~again.owed
  BY <1>4, <1>5 DEF Records
<1>10. /\ around.visited = p.visited /\ around.skipped = p.skipped /\ around.picked = p.picked
       /\ again.visited = p.visited /\ again.skipped = p.skipped /\ again.picked = p.picked
  BY <1>4, <1>5 DEF Records
<1> HIDE DEF around, again
<1>11. Good(around) /\ Good(again)
  <2>1. p.visited \cap p.skipped = {} /\ p.visited \subseteq Zones /\ p.skipped \subseteq Zones
    BY DEF Good, Records, Wanted
  <2> HIDE DEF to
  <2>2. Wanted(around)
    BY <1>3, <1>6, <1>9, <1>10, <2>1, EmptyTyped, PlacesHold DEF Wanted
  <2>3. Wanted(again)
    BY <1>3, <1>6, <1>9, <1>10, <2>1, PlacesHold DEF Wanted, to
  <2>4. Aimful(around) /\ Aimful(again)
    BY <1>3, <1>6, <1>9, EmptyTyped DEF Good, Aimful, to
  <2>5. Rests(around) /\ Rests(again)
    BY <1>9 DEF Rests
  <2> QED
    BY <1>8, <2>2, <2>3, <2>4, <2>5 DEF Good
<1>12. Good(Avoid(around)) /\ Good(Fail(again))
  BY <1>9, <1>11, AvoidGood, FailGood
<1>13. Good(Expired(p)) /\ Good(Stand(p)) /\ Good(Walk(p))
  BY ExpiredGood, StandGood, WalkGood
<1>14. Good(Walk(at("scan"))) /\ Good(Stand(at("settle")))
  BY <1>2, StandGood, WalkGood
<1> HIDE DEF found
<1> QED
  BY <1>1, <1>7, <1>11, <1>12, <1>13, <1>14

------------------------------------------------------------------------------
\* One tick.

\* A step that changes none of the fields the invariant relates, and the phase only
\* so that nothing is looked at.
LEMMA Elsewhere ==
    ASSUME NEW p, Good(p), NEW q \in Records, q.phase = p.phase \/ q.phase # "AIMING",
           q.plan = p.plan, q.attempt = p.attempt, q.picked = p.picked,
           q.visited = p.visited, q.skipped = p.skipped,
           q.owed => p.owed /\ q.required = p.required /\ q.sent = p.sent /\ q.walks = p.walks
    PROVE  Good(q)
BY DEF Good, Wanted, Aimful, Rests

LEMMA LoseGood == ASSUME NEW p, Good(p) PROVE Good(Lose(p))
<1> DEFINE q == [p EXCEPT !.avoiding = FALSE, !.phase = "LOST"]
<1>1. /\ q \in Records /\ q.phase # "AIMING" /\ q.plan = p.plan /\ q.attempt = p.attempt
      /\ q.picked = p.picked /\ q.visited = p.visited /\ q.skipped = p.skipped
      /\ q.owed = p.owed /\ q.required = p.required /\ q.sent = p.sent /\ q.walks = p.walks
  BY DEF Good, Records
<1> HIDE DEF q
<1>2. Good(q)
  BY <1>1, Elsewhere
<1> QED
  BY <1>2, StandGood DEF Lose, q

LEMMA RemaskedGood == ASSUME NEW p, Good(p), NEW r \in Remasked(p) PROVE Good(r)
<1> DEFINE q == [p EXCEPT !.plan.path = FALSE]
           s == [q EXCEPT !.phase = "PLANNING"]
<1>1. q = [p EXCEPT !.plan.path = FALSE, !.phase = p.phase]
      /\ s = [p EXCEPT !.plan.path = FALSE, !.phase = "PLANNING"]
  BY DEF Good, Records
<1>2. r \in {p, q, Require(q), Require(s)}
  BY DEF Remasked
<1> HIDE DEF q, s
<1>3. Good(q) /\ Good(s)
  BY <1>1, PathDropped
<1> QED
  BY <1>2, <1>3, RequireGood

\* Behind the stop.
LEMMA PassedGood == ASSUME NEW p, Good(p), NEW r \in Passed(p) PROVE Good(r) /\ ~r.owed
<1> DEFINE f == IF p.phase = "LOST" THEN "PLANNING" ELSE p.phase
           q == [p EXCEPT !.required = FALSE, !.phase = f]
<1>1. ~p.owed /\ r = q /\ f \in {p.phase, "PLANNING"}
  BY DEF Passed, Good, Records, Rests
<1> HIDE DEF f
<1>2. /\ q \in Records /\ q.phase = f /\ q.plan = p.plan /\ q.attempt = p.attempt
      /\ q.picked = p.picked /\ q.visited = p.visited /\ q.skipped = p.skipped
      /\ q.owed = p.owed
  BY <1>1 DEF Good, Records
<1> HIDE DEF q
<1> QED
  BY <1>1, <1>2, Elsewhere

LEMMA ProceedGood == ASSUME NEW p, Free(p), NEW r \in Proceed(p) PROVE Good(r)
<1>1. Good(p) /\ ~p.owed /\ p.attempt.at = "none" /\ (p.plan.path => p.plan.to # "none")
  BY DEF Free, Good, Aimful
<1>2. CASE p.phase = "AIMING"
  BY <1>2, AimGood DEF Proceed
<1>3. CASE p.phase # "AIMING" /\ (p.phase \in {"PLANNING", "INSPECT"} \/ ~p.plan.path)
  <2> DEFINE f == IF p.phase = "INSPECT" THEN "PLANNING" ELSE p.phase
             s == [p EXCEPT !.phase = f]
             moving(q) == [q EXCEPT !.phase = "MOVING"]
  <2>1. f # "AIMING" /\ f \in {"PLANNING", p.phase}
    BY <1>3
  <2>2. s = [p EXCEPT !.phase = IF @ = "INSPECT" THEN "PLANNING" ELSE @]
    OBVIOUS
  <2> HIDE DEF f
  <2>3. /\ s \in Records /\ s.phase # "AIMING" /\ s.plan = p.plan /\ s.attempt = p.attempt
        /\ s.picked = p.picked /\ s.visited = p.visited /\ s.skipped = p.skipped
        /\ s.owed = p.owed
    BY <1>1, <2>1 DEF Good, Records
  <2>4. PICK q \in Replan(s) :
          r \in IF q.dead THEN {q}
                ELSE IF q.plan.path THEN Follow(moving(q))
                ELSE IF q.picked \in {"reached", "blocked"} THEN {Stand(q)}
                ELSE IF q.attempt.at = "none" /\ ~q.waiting THEN {Begin(q)}
                ELSE {q}
    BY <1>3, <2>2 DEF Proceed
  <2> HIDE DEF s
  <2>5. Good(s) /\ s.attempt.at = "none" /\ ~s.owed
    BY <1>1, <2>3, Elsewhere
  <2>6. Good(q) /\ (Onward(s, q) \/ q.dead)
    BY <2>3, <2>5, ReplanGood
  <2>7. CASE q.plan.path /\ ~q.dead
    <3>1. q.attempt.at = "none" /\ ~q.owed /\ q.plan.to # "none"
      BY <2>5, <2>6, <2>7 DEF Onward, Good, Aimful
    <3>2. /\ moving(q) \in Records /\ moving(q).phase = "MOVING" /\ moving(q).plan = q.plan
          /\ moving(q).attempt = q.attempt /\ moving(q).picked = q.picked
          /\ moving(q).visited = q.visited /\ moving(q).skipped = q.skipped /\ moving(q).owed = q.owed
      BY <2>6 DEF Good, Records
    <3> HIDE DEF moving
    <3>3. Free(moving(q))
      BY <2>6, <3>1, <3>2, Elsewhere DEF Free
    <3>4. r \in Follow(moving(q))
      BY <2>4, <2>7
    <3> QED
      BY <3>1, <3>2, <3>3, <3>4, FollowGood
  <2>8. CASE ~(q.plan.path /\ ~q.dead)
    <3>1. r \in {q, Stand(q), Begin(q)}
      BY <2>4, <2>8
    <3> QED
      BY <2>6, <3>1, StandGood, BeginGood
  <2> QED
    BY <2>7, <2>8
<1>4. CASE p.phase # "AIMING" /\ ~(p.phase \in {"PLANNING", "INSPECT"} \/ ~p.plan.path)
  BY <1>1, <1>4, FollowGood DEF Proceed
<1> QED
  BY <1>2, <1>3, <1>4

LEMMA WaitOverGood ==
    ASSUME NEW p, Good(p)
    PROVE  Good(WaitOver(p)) /\ (~p.owed => ~WaitOver(p).owed)
<1> DEFINE q == CloseCycle(p)
<1>1. Good(q) /\ q.owed = p.owed
  BY CloseCycleGood DEF CloseCycle, Good, Records
<1> HIDE DEF q
<1> DEFINE r == [q EXCEPT !.waiting = FALSE, !.phase = "PLANNING"]
<1>2. /\ r \in Records /\ r.phase = "PLANNING" /\ r.plan = q.plan /\ r.attempt = q.attempt
      /\ r.picked = q.picked /\ r.visited = q.visited /\ r.skipped = q.skipped
      /\ r.owed = q.owed /\ r.required = q.required /\ r.sent = q.sent /\ r.walks = q.walks
  BY ZenonT(30), <1>1 DEF Good, Records
<1>3. WaitOver(p) = r
  BY DEF WaitOver, q
<1> HIDE DEF r
<1> QED
  BY <1>1, <1>2, <1>3, Elsewhere

LEMMA AdvanceGood == ASSUME NEW p, Good(p), ~p.owed, NEW r \in Advance(p) PROVE Good(r)
<1>1. CASE p.picked \in {"reached", "blocked"}
  BY <1>1, StandGood DEF Advance
<1>2. CASE p.picked \notin {"reached", "blocked"}
  <2> DEFINE look(q) == [q EXCEPT !.phase = "INSPECT"]
  <2>1. PICK q \in {p, WaitOver(p)} :
          \/ r = Stand(q)
          \/ q.attempt.at # "none" /\ r \in Attempt(q)
          \/ q.attempt.at = "none" /\ r \in AvoidStep(q)
          \/ q.attempt.at = "none" /\ r \in {Avoid(q), Begin(q), Walk(look(q)), Stand(look(q))}
          \/ q.attempt.at = "none" /\ r \in Proceed(q)
    BY <1>2 DEF Advance
  <2>2. Good(q) /\ ~q.owed
    BY WaitOverGood
  <2>3. /\ look(q) \in Records /\ look(q).phase = "INSPECT" /\ look(q).plan = q.plan
        /\ look(q).attempt = q.attempt /\ look(q).picked = q.picked
        /\ look(q).visited = q.visited /\ look(q).skipped = q.skipped /\ look(q).owed = q.owed
    BY <2>2 DEF Good, Records
  <2> HIDE DEF look
  <2>4. Good(look(q)) /\ ~look(q).owed
    BY <2>2, <2>3, Elsewhere
  <2>5. q.attempt.at = "none" => Free(q)
    BY <2>2 DEF Free
  <2>6. CASE r \in {Stand(q), Avoid(q), Begin(q), Walk(look(q)), Stand(look(q))}
    BY <2>2, <2>4, <2>6, StandGood, AvoidGood, BeginGood, WalkGood
  <2>7. CASE q.attempt.at # "none" /\ r \in Attempt(q)
    BY <2>2, <2>7, AttemptGood
  <2>8. CASE q.attempt.at = "none" /\ r \in AvoidStep(q) \cup Proceed(q)
    BY <2>5, <2>8, AvoidStepGood, ProceedGood
  <2> QED
    BY <2>1, <2>6, <2>7, <2>8
<1> QED
  BY <1>1, <1>2

LEMMA SteeredGood == ASSUME NEW p, Good(p), NEW r \in Steered(p) PROVE Good(r)
<1>1. CASE p.phase = "IDLE"
  BY <1>1, StandGood DEF Steered
<1>2. CASE p.phase # "IDLE"
  <2>1. PICK q \in Remasked(p) : r = Lose(q) \/ \E s \in Passed(q) : r = Stand(s) \/ r \in Advance(s)
    BY <1>2 DEF Steered
  <2>2. Good(q)
    BY RemaskedGood
  <2>3. ASSUME NEW s \in Passed(q) PROVE Good(s) /\ ~s.owed
    BY <2>2, PassedGood
  <2> QED
    BY <2>1, <2>2, <2>3, LoseGood, StandGood, AdvanceGood
<1> QED
  BY <1>1, <1>2

LEMMA ResumedGood == ASSUME NEW p, Good(p) PROVE Good(Resumed(p))
<1> DEFINE f == [p EXCEPT !.plan.path = FALSE, !.phase = "PLANNING"]
           q == [p EXCEPT !.resume = FALSE, !.plan.path = FALSE, !.zone = "none", !.phase = "PLANNING"]
<1>1. Good(f)
  BY PathDropped
<1>2. /\ q \in Records /\ q.phase = f.phase /\ q.plan = f.plan /\ q.attempt = f.attempt
      /\ q.picked = f.picked /\ q.visited = f.visited /\ q.skipped = f.skipped
      /\ q.owed = f.owed /\ q.required = f.required /\ q.sent = f.sent /\ q.walks = f.walks
  BY PlacesHold DEF Good, Records, Plans
<1>3. Resumed(p) \in {p, q}
  BY DEF Resumed
<1> HIDE DEF f, q
<1> QED
  BY <1>1, <1>2, <1>3, Elsewhere

LEMMA SettledGood == ASSUME NEW p, Good(p) PROVE Good(Settled(p))
<1> DEFINE b == p.on /\ p.picked # "blocked"
           q == [p EXCEPT !.on = b]
<1>1. b \in BOOLEAN /\ Settled(p) = q
  BY DEF Settled, Good, Records
<1> HIDE DEF b
<1>2. /\ q \in Records /\ q.phase = p.phase /\ q.plan = p.plan /\ q.attempt = p.attempt
      /\ q.picked = p.picked /\ q.visited = p.visited /\ q.skipped = p.skipped
      /\ q.owed = p.owed /\ q.required = p.required /\ q.sent = p.sent /\ q.walks = p.walks
  BY <1>1 DEF Good, Records
<1> HIDE DEF q
<1> QED
  BY <1>1, <1>2, Elsewhere

------------------------------------------------------------------------------
\* Around the controller.
LEMMA ToldGood == ASSUME NEW p, Good(p), NEW m \in BOOLEAN PROVE Good(Told(p, m))
<1> DEFINE walking == [p EXCEPT !.sent = "moving"]
           standing == [p EXCEPT !.sent = "stopped", !.owed = FALSE]
<1>1. walking \in Records /\ standing \in Records
  BY DEF Good, Records
<1>2. /\ Wanted(walking) /\ Wanted(standing)
      /\ Aimful(walking) /\ Aimful(standing)
  BY DEF Good, Records, Wanted, Aimful
<1>3. Rests(walking) /\ Rests(standing)
  BY DEF Good, Records, Rests
<1> QED
  BY <1>1, <1>2, <1>3 DEF Told, Good

LEMMA DroppedGood == ASSUME NEW p, Good(p) PROVE
    LET q == Dropped(p)
    IN  /\ Good(q) /\ ~q.owed /\ q.attempt = NoAttempt /\ q.picked = p.picked /\ q.plan = p.plan
        /\ q.visited = p.visited /\ q.skipped = p.skipped
<1> DEFINE q == Dropped(p)
<1>1. q \in Records
  BY EmptyTyped DEF Dropped, Good, Records
<1>2. /\ ~q.owed /\ q.attempt = NoAttempt /\ q.picked = p.picked /\ q.plan = p.plan
      /\ q.visited = p.visited /\ q.skipped = p.skipped /\ q.phase = p.phase
  BY DEF Dropped, Good, Records
<1> HIDE DEF q
<1>3. p.visited \subseteq Zones /\ p.skipped \subseteq Zones
  BY DEF Good, Records
<1>4. Wanted(q)
  BY <1>2, <1>3, EmptyTyped, PlacesHold DEF Good, Wanted
<1>5. Aimful(q) /\ Rests(q)
  BY <1>2, EmptyTyped DEF Good, Aimful, Rests
<1> QED
  BY <1>1, <1>2, <1>4, <1>5 DEF Good, q

LEMMA CancelGoalGood == ASSUME Good(nav), CancelGoal PROVE Good(nav')
<1> DEFINE q == Dropped(nav)
           w == IF q.plan.to = "GOAL" THEN NoPlan ELSE q.plan
           r == [q EXCEPT !.picked = "none", !.phase = "PLANNING", !.plan = w]
<1>1. Good(q) /\ ~q.owed /\ q.attempt = NoAttempt
  BY DroppedGood
<1>2. nav' \in {q, r}
  BY DEF CancelGoal
<1> HIDE DEF q
<1>3. w \in Plans /\ w.to # "GOAL" /\ (w = NoPlan \/ w = q.plan)
  BY <1>1, EmptyTyped DEF Good, Records
<1> HIDE DEF w
<1>4. r \in Records
  BY ZenonT(30), <1>1, <1>3 DEF Good, Records
<1>5. /\ ~r.owed /\ r.attempt = NoAttempt /\ r.plan = w /\ r.phase = "PLANNING"
      /\ r.visited = q.visited /\ r.skipped = q.skipped
  BY <1>1 DEF Good, Records
<1> HIDE DEF r
<1>6. q.visited \subseteq Zones /\ q.skipped \subseteq Zones /\ q.visited \cap q.skipped = {}
      /\ q.plan.to \notin q.visited \cup q.skipped
  BY <1>1 DEF Good, Records, Wanted
<1>7. Wanted(r)
  BY <1>3, <1>5, <1>6, EmptyTyped, PlacesHold DEF Wanted
<1>8. Aimful(r) /\ Rests(r)
  BY <1>1, <1>3, <1>5, EmptyTyped DEF Good, Aimful, Rests
<1> QED
  BY <1>1, <1>2, <1>4, <1>7, <1>8 DEF Good

LEMMA GoingGood == ASSUME NEW p, Good(p) PROVE Good(Going(p))
<1> DEFINE q == Dropped(p)
           w == [to |-> "GOAL", path |-> FALSE]
           r == [q EXCEPT !.zone = "none", !.picked = "set", !.phase = "PLANNING", !.plan = w]
<1>1. Good(q) /\ ~q.owed /\ q.attempt = NoAttempt
  BY DroppedGood
<1>2. Going(p) = r
  BY DEF Going
<1> HIDE DEF q
<1>3. w \in Plans /\ w.to = "GOAL" /\ w.path = FALSE
  BY PlacesHold DEF Plans
<1> HIDE DEF w
<1>4. r \in Records
  BY <1>1, <1>3, PlacesHold DEF Good, Records
<1>5. /\ ~r.owed /\ r.attempt = NoAttempt /\ r.plan = w /\ r.phase = "PLANNING" /\ r.picked = "set"
      /\ r.visited = q.visited /\ r.skipped = q.skipped
  BY <1>1 DEF Good, Records
<1> HIDE DEF r
<1>6. q.visited \subseteq Zones /\ q.skipped \subseteq Zones /\ q.visited \cap q.skipped = {}
  BY <1>1 DEF Good, Records, Wanted
<1>7. Wanted(r) /\ Aimful(r) /\ Rests(r)
  BY <1>3, <1>5, <1>6, EmptyTyped, PlacesHold DEF Wanted, Aimful, Rests
<1> QED
  BY <1>2, <1>4, <1>7 DEF Good

\* Nothing is told to the patrol when another state of the FSM takes over, or gives way.
LEMMA SwitchGood == ASSUME Good(nav), LeavePatrol \/ EnterPatrol PROVE Good(nav')
<1> DEFINE left == [nav EXCEPT !.on = FALSE]
           back == [nav EXCEPT !.on = TRUE, !.resume = TRUE]
<1>1. /\ left \in Records /\ back \in Records
      /\ Wanted(left) /\ Aimful(left) /\ Wanted(back) /\ Aimful(back)
  <2>1. left \in Records /\ back \in Records
    BY DEF Good, Records
  <2> QED
    BY <2>1 DEF Good, Records, Wanted, Aimful
<1>2. Rests(left) /\ Rests(back)
  BY DEF Good, Records, Rests
<1> HIDE DEF left
<1>3. Good(Stand(left)) /\ Good(back)
  BY <1>1, <1>2, StandGood DEF Good
<1> QED
  BY <1>3 DEF LeavePatrol, EnterPatrol, left

LEMMA StartGood == Good(Start)
<1>1. Start \in Records
  BY EmptyTyped, PlacesHold DEF Start, Records
<1>2. Wanted(Start) /\ Aimful(Start) /\ Rests(Start)
  BY EmptyTyped, PlacesHold DEF Start, Wanted, Aimful, Rests
<1> QED
  BY <1>1, <1>2 DEF Good

\* A step of the patrol keeps the invariant.
LEMMA StepGood == ASSUME Good(nav), [PatrolNext]_nav PROVE Good(nav')
<1>1. CASE PatrolTick
  <2>1. PICK q \in {Resumed(nav), Expired(Resumed(nav))} : \E r \in Steered(q) : nav' = Settled(r)
    BY <1>1 DEF PatrolTick
  <2>2. Good(q)
    BY ResumedGood, ExpiredGood
  <2> QED
    BY <2>1, <2>2, SteeredGood, SettledGood
<1>2. CASE ExpireAnywhere
  BY <1>2, ExpiredGood, SettledGood DEF ExpireAnywhere
<1>3. CASE \E m \in BOOLEAN : Sent(m)
  BY <1>3, ToldGood DEF Sent
<1>4. CASE Reports
  BY <1>4, ToldGood DEF Reports
<1>5. CASE LeavePatrol \/ EnterPatrol
  BY <1>5, SwitchGood
<1>6. CASE CancelGoal
  BY <1>6, CancelGoalGood
<1>7. CASE PickGoal
  BY <1>7, GoingGood DEF PickGoal
<1>8. CASE StartAgain
  BY <1>8, StartGood DEF StartAgain
<1>9. CASE PatrolHeld
  BY <1>9, StandGood DEF PatrolHeld
<1>10. CASE UNCHANGED nav
  BY <1>10
<1> QED
  BY <1>1, <1>2, <1>3, <1>4, <1>5, <1>6, <1>7, <1>8, <1>9, <1>10 DEF PatrolNext

------------------------------------------------------------------------------
\* The inductive invariant.
IInv == Good(nav)

\* The invariant holds in every behaviour of the controller.
THEOREM Invariance == PatrolSpec => []IInv
<1>1. PatrolInit => IInv
  BY StartGood DEF PatrolInit, IInv
<1>2. IInv /\ [PatrolNext]_nav => IInv'
  BY StepGood DEF IInv
<1> QED
  BY <1>1, <1>2, PTL DEF PatrolSpec

\* The controller's fields keep their ranges (nav_state.py, patrol_phase.py).
THEOREM PatrolTyped == PatrolSpec => []PatrolTypeOK
<1>1. IInv => PatrolTypeOK
  BY DEF IInv, Good, Records, Plans, Attempts, Places, PatrolTypeOK
<1> QED
  BY <1>1, Invariance, PTL

\* A blockage stops the robot before anything is planned around it (patrol.py:1051,
\* nav_state.py): the patrol intends no step while the stop it requires is owed.
THEOREM StopsBeforeDetour == PatrolSpec => []StopBeforeDetour
<1>1. IInv => StopBeforeDetour
  BY DEF IInv, Good, Rests, StopBeforeDetour
<1> QED
  BY <1>1, Invariance, PTL

\* No plan and no attempt outlives its target (recovery.py, fail; patrol.py, target_xy).
THEOREM TargetsStandAlways == PatrolSpec => []TargetsStand
<1>1. IInv => TargetsStand
  BY DEF IInv, Good, Wanted, TargetsStand
<1> QED
  BY <1>1, Invariance, PTL
==============================================================================

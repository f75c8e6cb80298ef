---------------------------- MODULE ReadingsProofs ----------------------------
(***************************************************************************)
(* What holds of the shared picture reader for every time budget.          *)
(*                                                                         *)
(* None of the properties is inductive: who takes an answer looks at his   *)
(* own flag, so the flag must say whose question is in the reader.  The    *)
(* invariant Good ties every flag to the owner (Owned), the verdicts on a  *)
(* person to the question about them (Crossed), and what a visit waits     *)
(* for, suspects and has confirmed to that visit (Visited).                *)
(*                                                                         *)
(* A step of the loop is a composition of operators on the whole state,    *)
(* and a call that asks and is then judged goes through several.  Each     *)
(* operator has a lemma: from a Good state it ends in a Good state, with   *)
(* the hazards it found still there or told (Kept), and, but for the       *)
(* path's own, beside the path (Beside).  The lemmas are chained as the    *)
(* code chains its calls.                                                  *)
(***************************************************************************)
EXTENDS Readings, TLAPS

\* The question in the reader is that of one who waits for it, and of nobody else.
Owned(s) ==
    /\ s.fall.pending # "none" <=> s.vlm.by = "fall"
    /\ Waits(s.fall.cross) <=> s.vlm.by = "cross"
    /\ s.zone.pending <=> s.vlm.by = "zone"
    /\ s.path.submitted \/ s.path.draining <=> s.vlm.by = "path"
    /\ s.vlm.by = "none" => ~s.vlm.busy /\ s.vlm.slot = {}
    /\ s.path.submitted => ~s.path.draining /\ ~s.vlm.late /\ Waits(s.path.wait)

\* A person the rule judged to be down is asked about, then judged, once.
Crossed(s) ==
    /\ ~s.fall.seen => s.fall.verdicts = 0 /\ ~Waits(s.fall.cross)
    /\ Waits(s.fall.cross) => s.fall.verdicts = IF s.fall.reported THEN 1 ELSE 0
    /\ ~Waits(s.fall.cross) => ~s.fall.reported
    /\ s.fall.seen /\ ~Waits(s.fall.cross) => s.fall.verdicts = 1

\* What a visit waits for belongs to it; a suspect has one answer, a hazard two.
Visited(s) ==
    /\ Waits(s.zone.wait) => /\ s.zone.pending /\ ~s.vlm.late /\ s.zone.open /\ ~s.zone.concluded
                             /\ s.zone.asked /\ s.zone.hazards = {}
    /\ s.zone.hazards # {} => s.zone.open /\ ~s.zone.concluded /\ s.zone.asked
    /\ s.zone.concluded => s.zone.done
    /\ Waits(s.zone.wait) \/ s.state = "ZONE_INSPECT" => \A k \in s.zone.suspects : s.zone.votes[k] >= 1
    /\ \A k \in s.zone.hazards : s.zone.votes[k] = 2
    /\ s.zone.backed

Good(s) == s \in ReadsType /\ Owned(s) /\ Crossed(s) /\ Visited(s)

\* No hazard is lost untold on the way from s to t.
Kept(s, t) == s.told \subseteq t.told /\ s.zone.hazards \subseteq t.zone.hazards \cup t.told

------------------------------------------------------------------------------
\* What the small operators do.

LEMMA AgesHold ==
    /\ {0, Off} \subseteq Ages(Budget) /\ {0, Off} \subseteq Ages(PathWait)
    /\ Waits(0) /\ ~Waits(Off)
BY ReadingsAssumption DEF Ages, Waits, Off

LEMMA TakenIs ==
    ASSUME NEW s \in ReadsType
    PROVE  /\ Taken(s) \in ReadsType
           /\ Taken(s).fall = s.fall /\ Taken(s).zone = s.zone /\ Taken(s).path = s.path
           /\ Taken(s).state = s.state /\ Taken(s).told = s.told
           /\ Taken(s).vlm.busy = s.vlm.busy /\ Taken(s).vlm.by = "none"
           /\ Taken(s).vlm.slot = {} /\ ~Taken(s).vlm.late /\ Taken(s).vlm.loaded = s.vlm.loaded
<1>1. Taken(s) \in ReadsType
  BY DEF ReadsType, Taken
<1> QED
  BY <1>1 DEF ReadsType, Taken

LEMMA SubmitIs ==
    ASSUME NEW s \in ReadsType, NEW who \in {"fall", "cross", "zone", "path"}
    PROVE  /\ Submit(s, who) \in ReadsType
           /\ Submit(s, who).fall = s.fall /\ Submit(s, who).zone = s.zone
           /\ Submit(s, who).path = s.path
           /\ Submit(s, who).state = s.state /\ Submit(s, who).told = s.told
           /\ Submit(s, who).vlm.busy /\ Submit(s, who).vlm.by = who /\ ~Submit(s, who).vlm.late
<1>1. Submit(s, who) \in ReadsType
  BY DEF ReadsType, Submit
<1> QED
  BY <1>1 DEF ReadsType, Submit

LEMMA FinishIs ==
    ASSUME NEW s \in ReadsType
    PROVE  /\ Finish(s) \in ReadsType
           /\ Finish(s).fall = s.fall /\ Finish(s).zone = s.zone /\ Finish(s).vlm = s.vlm
           /\ Finish(s).state = s.state /\ Finish(s).told = s.told \cup {"blocked"}
           /\ ~Finish(s).path.submitted /\ Finish(s).path.draining = s.path.draining
<1>1. Finish(s) \in ReadsType
  BY AgesHold DEF ReadsType, Finish, Tell
<1> QED
  BY <1>1 DEF ReadsType, Finish, Tell

\* A suspicion starts nothing in the reader.
LEMMA SuspectGood ==
    ASSUME NEW s, Good(s), NEW again
    PROVE  /\ Good(Suspect(s, again)) /\ Kept(s, Suspect(s, again))
           /\ Suspect(s, again).path = s.path /\ Suspect(s, again).vlm = s.vlm /\ Suspect(s, again).zone = s.zone
           /\ Suspect(s, again).told = s.told
<1> DEFINE t == Suspect(s, again)
           u == [s EXCEPT !.state = "ALERT", !.fall.suspected = TRUE, !.fall.confirmed = FALSE]
<1>1. u \in ReadsType
  BY DEF Good, ReadsType
<1>2. /\ u.path = s.path /\ u.vlm = s.vlm /\ u.zone = s.zone /\ u.told = s.told
      /\ u.state = "ALERT"
      /\ u.fall.pending = s.fall.pending /\ u.fall.cross = s.fall.cross /\ u.fall.seen = s.fall.seen
      /\ u.fall.reported = s.fall.reported /\ u.fall.verdicts = s.fall.verdicts
  BY DEF Good, ReadsType
<1> HIDE DEF u
<1>3. Owned(u) /\ Crossed(u) /\ Visited(u)
  BY <1>2 DEF Good, Owned, Crossed, Visited
<1>4. t = s \/ t = u
  BY DEF Suspect, u
<1> QED
  BY <1>1, <1>2, <1>3, <1>4 DEF Good, Kept

------------------------------------------------------------------------------
\* The cause of a blocked path.

LEMMA SubmitPathGood ==
    ASSUME NEW s, Good(s), MayAskPath(s), ~s.path.submitted, Waits(s.path.wait)
    PROVE  Good(SubmitPath(s)) /\ Kept(s, SubmitPath(s))
<1> DEFINE t == SubmitPath(s)
<1>1. t \in ReadsType
  BY DEF Good, ReadsType, SubmitPath, Submit
<1>2. /\ t.fall = s.fall /\ t.zone = s.zone /\ t.told = s.told /\ t.state = s.state
      /\ t.vlm.busy /\ t.vlm.by = "path" /\ ~t.vlm.late
      /\ t.path.submitted /\ t.path.draining = s.path.draining /\ t.path.wait = s.path.wait
  BY DEF Good, ReadsType, SubmitPath, Submit
<1> HIDE DEF t
<1>3. Owned(t) /\ Crossed(t) /\ Visited(t)
  BY <1>2 DEF Good, Owned, Crossed, Visited, MayAskPath, FallWaiting
<1> QED
  BY <1>1, <1>2, <1>3 DEF Good, Kept, t

LEMMA TellGood ==
    ASSUME NEW s, Good(s), NEW what \in {"blocked", "verdict", "light", "alarm"}
    PROVE  /\ Good(Tell(s, what)) /\ Kept(s, Tell(s, what)) /\ what \in Tell(s, what).told
           /\ Tell(s, what).path = s.path
<1> DEFINE t == Tell(s, what)
<1>1. t \in ReadsType
  BY DEF Good, ReadsType, Tell
<1>2. /\ t.fall = s.fall /\ t.zone = s.zone /\ t.vlm = s.vlm /\ t.state = s.state /\ t.path = s.path
      /\ t.told = s.told \cup {what}
  BY DEF Good, ReadsType, Tell
<1> HIDE DEF t
<1>3. Owned(t) /\ Crossed(t) /\ Visited(t)
  BY <1>2 DEF Good, Owned, Crossed, Visited
<1> QED
  BY <1>1, <1>2, <1>3 DEF Good, Kept, t

LEMMA PathBlockedGood ==
    ASSUME NEW s, Good(s), NEW picture
    PROVE  /\ Good(PathBlocked(s, picture)) /\ Kept(s, PathBlocked(s, picture))
           /\ Waits(s.path.wait) => "blocked" \in PathBlocked(s, picture).told
<1>1. CASE ~picture \/ ~s.vlm.loaded \/ Waits(s.path.wait)
  BY <1>1, TellGood DEF PathBlocked
<1>2. CASE ~(~picture \/ ~s.vlm.loaded \/ Waits(s.path.wait))
  <2> DEFINE t == [s EXCEPT !.path.wait = 0, !.path.submitted = FALSE]
  <2>1. t \in ReadsType
    BY AgesHold DEF Good, ReadsType
  <2>2. /\ t.fall = s.fall /\ t.zone = s.zone /\ t.vlm = s.vlm /\ t.state = s.state /\ t.told = s.told
        /\ t.path.wait = 0 /\ ~t.path.submitted /\ t.path.draining = s.path.draining
    BY DEF Good, ReadsType
  <2> HIDE DEF t
  <2>3. Owned(t) /\ Crossed(t) /\ Visited(t) /\ Waits(t.path.wait)
    BY <1>2, <2>2, AgesHold DEF Good, Owned, Crossed, Visited
  <2>4. Good(t) /\ Kept(s, t)
    BY <2>1, <2>2, <2>3 DEF Good, Kept
  <2>5. MayAskPath(t) => Good(SubmitPath(t)) /\ Kept(t, SubmitPath(t))
    BY <2>2, <2>3, <2>4, SubmitPathGood
  <2> QED
    BY <1>2, <2>4, <2>5 DEF PathBlocked, Kept, t
<1> QED
  BY <1>1, <1>2

\* An answer of the path's is thrown away, or taken.
LEMMA PathTakenGood ==
    ASSUME NEW s, Good(s), ~s.vlm.busy, s.vlm.by = "path", NEW t \in ReadsType,
           t.fall = s.fall, t.zone = s.zone, t.state = s.state, s.told \subseteq t.told,
           ~t.path.submitted, ~t.path.draining,
           ~t.vlm.busy, t.vlm.by = "none", t.vlm.slot = {}, ~t.vlm.late
    PROVE  Good(t) /\ Kept(s, t)
<1>1. Owned(t) /\ Crossed(t) /\ Visited(t)
  BY DEF Good, Owned, Crossed, Visited
<1> QED
  BY <1>1 DEF Good, Kept

\* Poll, after the waiting is counted: told at the deadline, or just asked.
PathWaits(s, t) ==
    Waits(s.path.wait) =>
      \/ "blocked" \in t.told
      \/ /\ Waits(t.path.wait)
         /\ t.path.wait < PathWait \/ (~s.path.submitted /\ t.path.submitted)

LEMMA PathPollGood ==
    ASSUME NEW s0, Good(s0)
    PROVE  Good(PathPoll(s0)) /\ Kept(s0, PathPoll(s0)) /\ PathWaits(s0, PathPoll(s0))
<1> DEFINE d == s0.path.draining /\ ~s0.vlm.busy
           r == [Taken(s0) EXCEPT !.path.draining = FALSE]
           s == IF d THEN r ELSE s0
           t == PathPoll(s0)
<1>1. /\ Good(s) /\ Kept(s0, s) /\ s.path.wait = s0.path.wait /\ s.path.submitted = s0.path.submitted
      /\ s.told = s0.told
  <2>1. CASE d
    <3>1. ~s0.path.submitted /\ s0.vlm.by = "path"
      BY <2>1 DEF Good, Owned
    <3>2. r \in ReadsType
      BY DEF Good, ReadsType, Taken
    <3>3. /\ r.fall = s0.fall /\ r.zone = s0.zone /\ r.state = s0.state /\ r.told = s0.told
          /\ r.path.submitted = s0.path.submitted /\ ~r.path.draining /\ r.path.wait = s0.path.wait
          /\ r.vlm.busy = s0.vlm.busy /\ r.vlm.by = "none" /\ r.vlm.slot = {} /\ ~r.vlm.late
      BY DEF Good, ReadsType, Taken
    <3> HIDE DEF r
    <3>4. Good(r) /\ Kept(s0, r)
      BY <2>1, <3>1, <3>2, <3>3, PathTakenGood
    <3> QED
      BY <2>1, <3>3, <3>4
  <2>2. CASE ~d
    BY <2>2 DEF Kept
  <2> QED
    BY <2>1, <2>2
<1>2. t = CASE ~Waits(s.path.wait) -> s
          [] ~s.path.submitted /\ Waits(s.path.wait) ->
               IF MayAskPath(s) THEN SubmitPath(s) ELSE IF PathOver(s) THEN Finish(s) ELSE s
          [] s.path.submitted /\ Waits(s.path.wait) ->
               IF ~s.vlm.busy THEN Finish(Taken(s))
               ELSE IF PathOver(s) THEN [Finish(s) EXCEPT !.path.draining = TRUE, !.vlm.late = TRUE]
               ELSE s
  BY DEF PathPoll
<1> HIDE DEF s, r, t
<1> SUFFICES Good(t) /\ Kept(s, t) /\ PathWaits(s, t)
  BY <1>1 DEF Kept, PathWaits, t
<1>3. CASE ~Waits(s.path.wait)
  BY <1>1, <1>2, <1>3 DEF Kept, PathWaits
<1>4. CASE Waits(s.path.wait) /\ ~s.path.submitted
  <2>1. CASE MayAskPath(s)
    <3>1. t = SubmitPath(s) /\ Good(t) /\ Kept(s, t)
      BY <1>1, <1>2, <1>4, <2>1, SubmitPathGood
    <3>2. t.path.submitted /\ t.path.wait = s.path.wait
      BY <1>1, <3>1 DEF SubmitPath, Submit, Good, ReadsType
    <3> QED
      BY <1>4, <3>1, <3>2 DEF PathWaits
  <2>2. CASE ~MayAskPath(s) /\ PathOver(s)
    <3>1. t = Finish(s)
      BY <1>2, <1>4, <2>2
    <3>2. t \in ReadsType
      BY <1>1, <3>1, FinishIs DEF Good
    <3>3. /\ t.fall = s.fall /\ t.zone = s.zone /\ t.vlm = s.vlm /\ t.state = s.state
          /\ t.told = s.told \cup {"blocked"}
          /\ ~t.path.submitted /\ t.path.draining = s.path.draining
      BY <1>1, <3>1, FinishIs DEF Good
    <3>4. Owned(t) /\ Crossed(t) /\ Visited(t)
      BY <1>1, <1>4, <3>3 DEF Good, Owned, Crossed, Visited
    <3> QED
      BY <3>2, <3>3, <3>4 DEF Good, Kept, PathWaits
  <2>3. CASE ~MayAskPath(s) /\ ~PathOver(s)
    <3>1. t = s /\ s.path.wait < PathWait
      BY <1>1, <1>2, <1>4, <2>3, ReadingsAssumption DEF PathOver, Good, ReadsType, Ages, Off
    <3> QED
      BY <1>1, <1>4, <3>1 DEF Kept, PathWaits
  <2> QED
    BY <2>1, <2>2, <2>3
<1>5. CASE Waits(s.path.wait) /\ s.path.submitted
  <2>0. s.vlm.by = "path" /\ ~s.path.draining
    BY <1>1, <1>5 DEF Good, Owned
  <2>1. CASE ~s.vlm.busy
    <3>1. t = Finish(Taken(s))
      BY <1>2, <1>5, <2>1
    <3>2. t \in ReadsType
      BY <1>1, <3>1, TakenIs, FinishIs DEF Good
    <3>3. /\ t.fall = s.fall /\ t.zone = s.zone /\ t.state = s.state /\ t.told = s.told \cup {"blocked"}
          /\ ~t.path.submitted /\ t.path.draining = s.path.draining
          /\ t.vlm.busy = s.vlm.busy /\ t.vlm.by = "none" /\ t.vlm.slot = {} /\ ~t.vlm.late
      BY <1>1, <3>1, TakenIs, FinishIs DEF Good
    <3>4. Good(t) /\ Kept(s, t)
      BY <1>1, <2>0, <2>1, <3>2, <3>3, PathTakenGood
    <3> QED
      BY <3>3, <3>4 DEF PathWaits
  <2>2. CASE s.vlm.busy /\ PathOver(s)
    <3> DEFINE f == Finish(s)
    <3>0. /\ f \in ReadsType /\ f.fall = s.fall /\ f.zone = s.zone /\ f.state = s.state
          /\ f.vlm = s.vlm /\ f.told = s.told \cup {"blocked"} /\ ~f.path.submitted
      BY <1>1, FinishIs DEF Good
    <3>1. t = [f EXCEPT !.path.draining = TRUE, !.vlm.late = TRUE]
      BY <1>2, <1>5, <2>2
    <3> HIDE DEF f
    <3>2. t \in ReadsType
      BY <3>0, <3>1 DEF ReadsType
    <3>3. /\ t.fall = s.fall /\ t.zone = s.zone /\ t.state = s.state /\ t.told = s.told \cup {"blocked"}
          /\ t.vlm.by = s.vlm.by /\ t.vlm.busy = s.vlm.busy /\ t.vlm.slot = s.vlm.slot
          /\ ~t.path.submitted /\ t.path.draining
      BY <3>0, <3>1 DEF ReadsType
    <3>4. Owned(t) /\ Crossed(t) /\ Visited(t)
      BY <1>1, <2>0, <3>3 DEF Good, Owned, Crossed, Visited
    <3> QED
      BY <3>2, <3>3, <3>4 DEF Good, Kept, PathWaits
  <2>3. CASE s.vlm.busy /\ ~PathOver(s)
    <3>1. t = s /\ s.path.wait < PathWait
      BY <1>1, <1>2, <1>5, <2>3, ReadingsAssumption DEF PathOver, Good, ReadsType, Ages, Off
    <3> QED
      BY <1>1, <1>5, <3>1 DEF Kept, PathWaits
  <2> QED
    BY <2>1, <2>2, <2>3
<1> QED
  BY <1>3, <1>4, <1>5

\* The other calls leave the path alone.
Beside(s, t) == t.path = s.path /\ Kept(s, t)

LEMMA BesideSteps == ASSUME NEW s, NEW t, NEW u, Beside(s, t), Beside(t, u) PROVE Beside(s, u)
BY DEF Beside, Kept

------------------------------------------------------------------------------
\* The fall monitor.

LEMMA JudgeIs ==
    ASSUME NEW s \in ReadsType, NEW yes \in BOOLEAN
    PROVE  /\ Judge(s, yes) \in ReadsType
           /\ Judge(s, yes).zone = s.zone /\ Judge(s, yes).path = s.path /\ Judge(s, yes).vlm = s.vlm
           /\ Judge(s, yes).state = s.state /\ s.told \subseteq Judge(s, yes).told
           /\ Judge(s, yes).fall.verdicts = s.fall.verdicts + 1
           /\ Judge(s, yes).fall.pending = s.fall.pending /\ Judge(s, yes).fall.cross = s.fall.cross
           /\ Judge(s, yes).fall.seen = s.fall.seen /\ Judge(s, yes).fall.reported = s.fall.reported
<1> DEFINE b == s.fall.confirmed \/ yes
           n == s.fall.verdicts + 1
           t == Judge(s, yes)
<1>1. b \in BOOLEAN /\ n \in Nat
  BY DEF ReadsType
<1> DEFINE v == Tell(s, "verdict")
<1>2. v \in ReadsType /\ v = [s EXCEPT !.told = @ \cup {"verdict"}]
  BY DEF ReadsType, Tell
<1>3. /\ v.fall = s.fall /\ v.zone = s.zone /\ v.path = s.path /\ v.vlm = s.vlm
      /\ v.state = s.state /\ s.told \subseteq v.told
  BY <1>2 DEF ReadsType
<1> HIDE DEF v
<1>4. t = [v EXCEPT !.fall.confirmed = b, !.fall.verdicts = n]
  BY <1>2, <1>3 DEF Judge, ReadsType, v
<1> HIDE DEF b, t, n
<1>5. t \in ReadsType
  BY <1>1, <1>2, <1>4 DEF ReadsType
<1>6. /\ t.zone = v.zone /\ t.path = v.path /\ t.vlm = v.vlm /\ t.state = v.state /\ t.told = v.told
      /\ t.fall.verdicts = n
      /\ t.fall.pending = v.fall.pending /\ t.fall.cross = v.fall.cross
      /\ t.fall.seen = v.fall.seen /\ t.fall.reported = v.fall.reported
  BY <1>1, <1>2, <1>4 DEF ReadsType
<1> QED
  BY <1>3, <1>5, <1>6 DEF t, n

LEMMA TakeCrossGood ==
    ASSUME NEW s, Good(s)
    PROVE  /\ Good(TakeCross(s)) /\ Beside(s, TakeCross(s))
           /\ TakeCross(s).zone = s.zone /\ TakeCross(s).state = s.state
<1> DEFINE over == s.fall.cross >= Budget
           t == TakeCross(s)
           u == [Taken(s) EXCEPT !.fall.cross = Off, !.fall.reported = FALSE]
<1>0. s \in ReadsType
  BY DEF Good
<1>1. CASE ~Waits(s.fall.cross)
  BY <1>1 DEF TakeCross, Beside, Kept
<1>2. CASE Waits(s.fall.cross) /\ s.vlm.busy /\ over /\ ~s.fall.reported
  <2> DEFINE j == Judge(s, FALSE)
  <2>1. t = [j EXCEPT !.fall.reported = TRUE, !.vlm.late = TRUE]
    BY <1>2 DEF TakeCross
  <2>2. /\ j \in ReadsType /\ j.zone = s.zone /\ j.path = s.path /\ j.vlm = s.vlm
        /\ j.state = s.state /\ s.told \subseteq j.told /\ j.fall.verdicts = s.fall.verdicts + 1
        /\ j.fall.pending = s.fall.pending /\ j.fall.cross = s.fall.cross /\ j.fall.seen = s.fall.seen
    BY <1>0, JudgeIs
  <2> HIDE DEF j, t
  <2>3. t \in ReadsType
    BY <2>1, <2>2 DEF ReadsType
  <2>4. /\ t.zone = s.zone /\ t.path = s.path /\ t.state = s.state /\ s.told \subseteq t.told
        /\ t.fall.verdicts = s.fall.verdicts + 1 /\ t.fall.reported
        /\ t.fall.pending = s.fall.pending /\ t.fall.cross = s.fall.cross /\ t.fall.seen = s.fall.seen
        /\ t.vlm.by = s.vlm.by /\ t.vlm.busy = s.vlm.busy /\ t.vlm.slot = s.vlm.slot
    BY <2>1, <2>2 DEF ReadsType
  <2>5. s.vlm.by = "cross" /\ ~s.path.submitted /\ ~s.zone.pending /\ s.fall.verdicts = 0
    BY <1>2 DEF Good, Owned, Crossed
  <2>6. Owned(t) /\ Crossed(t) /\ Visited(t)
    BY <1>2, <2>4, <2>5 DEF Good, Owned, Crossed, Visited
  <2> QED
    BY <2>3, <2>4, <2>6 DEF Good, Beside, Kept, t
<1>3. CASE Waits(s.fall.cross) /\ s.vlm.busy /\ ~(over /\ ~s.fall.reported)
  BY <1>3 DEF TakeCross, Beside, Kept
<1>4. CASE Waits(s.fall.cross) /\ ~s.vlm.busy
  <2>1. /\ u \in ReadsType /\ u.zone = s.zone /\ u.path = s.path /\ u.state = s.state /\ u.told = s.told
        /\ u.fall.verdicts = s.fall.verdicts /\ ~u.fall.reported /\ u.fall.cross = Off
        /\ u.fall.pending = s.fall.pending /\ u.fall.seen = s.fall.seen
        /\ ~u.vlm.busy /\ u.vlm.by = "none" /\ u.vlm.slot = {} /\ ~u.vlm.late
    <3> DEFINE k == Taken(s)
    <3>1. /\ k \in ReadsType /\ k.fall = s.fall /\ k.zone = s.zone /\ k.path = s.path
          /\ k.state = s.state /\ k.told = s.told
          /\ ~k.vlm.busy /\ k.vlm.by = "none" /\ k.vlm.slot = {} /\ ~k.vlm.late
      BY <1>0, <1>4, TakenIs
    <3> HIDE DEF k
    <3>2. u \in ReadsType
      BY <3>1, AgesHold DEF ReadsType, k
    <3> QED
      BY <3>1, <3>2 DEF ReadsType, k
  <2>2. /\ s.vlm.by = "cross" /\ s.fall.seen /\ ~s.path.submitted /\ ~s.path.draining
        /\ ~s.zone.pending /\ s.fall.pending = "none"
        /\ s.fall.verdicts = IF s.fall.reported THEN 1 ELSE 0
    BY <1>4 DEF Good, Owned, Crossed
  <2> DEFINE yes == ~over /\ "person" \in Answer(s)
             j == Judge(u, yes)
  <2>3. t = IF s.fall.reported THEN u ELSE j
    BY <1>4 DEF TakeCross
  <2>4. yes \in BOOLEAN
    OBVIOUS
  <2> HIDE DEF u, t, yes
  <2>5. /\ j \in ReadsType /\ j.zone = u.zone /\ j.path = u.path /\ j.vlm = u.vlm
        /\ j.state = u.state /\ u.told \subseteq j.told /\ j.fall.verdicts = u.fall.verdicts + 1
        /\ j.fall.pending = u.fall.pending /\ j.fall.cross = u.fall.cross /\ j.fall.seen = u.fall.seen
        /\ j.fall.reported = u.fall.reported
    BY <2>1, <2>4, JudgeIs
  <2> HIDE DEF j
  <2>6. /\ t \in ReadsType /\ t.zone = s.zone /\ t.path = s.path /\ t.state = s.state
        /\ s.told \subseteq t.told /\ t.fall.verdicts = 1 /\ ~t.fall.reported /\ ~Waits(t.fall.cross)
        /\ t.fall.pending = s.fall.pending /\ t.fall.seen
        /\ ~t.vlm.busy /\ t.vlm.by = "none" /\ t.vlm.slot = {} /\ ~t.vlm.late
    <3>1. CASE s.fall.reported
      <4>1. t = u /\ s.fall.verdicts = 1
        BY <2>2, <2>3, <3>1
      <4> QED
        BY <2>1, <2>2, <4>1, AgesHold
    <3>2. CASE ~s.fall.reported
      <4>1. t = j /\ s.fall.verdicts = 0
        BY <2>2, <2>3, <3>2
      <4>2. j.fall.verdicts = 1 /\ ~Waits(j.fall.cross) /\ ~j.fall.reported
        BY <2>1, <2>5, <4>1, AgesHold
      <4>3. j.fall.seen /\ j.fall.pending = s.fall.pending
        BY <2>1, <2>2, <2>5
      <4> QED
        BY <2>1, <2>5, <4>1, <4>2, <4>3
    <3> QED
      BY <3>1, <3>2
  <2>7. Owned(t) /\ Crossed(t) /\ Visited(t)
    BY <2>2, <2>6 DEF Good, Owned, Crossed, Visited
  <2> QED
    BY <2>6, <2>7 DEF Good, Beside, Kept, t
<1> QED
  BY <1>1, <1>2, <1>3, <1>4

LEMMA RuleOverGood ==
    ASSUME NEW s, Good(s), ~s.fall.seen
    PROVE  /\ Good(RuleOver(s)) /\ Beside(s, RuleOver(s))
           /\ RuleOver(s).zone = s.zone /\ RuleOver(s).state = s.state
<1> DEFINE j == Judge(s, FALSE)
           t == RuleOver(s)
<1>1. /\ j \in ReadsType /\ j.zone = s.zone /\ j.path = s.path /\ j.vlm = s.vlm
      /\ j.state = s.state /\ s.told \subseteq j.told /\ j.fall.verdicts = s.fall.verdicts + 1
      /\ j.fall.pending = s.fall.pending /\ j.fall.cross = s.fall.cross
      /\ j.fall.reported = s.fall.reported
  BY JudgeIs DEF Good
<1>2. t = [j EXCEPT !.fall.seen = TRUE]
  BY DEF RuleOver
<1> HIDE DEF j, t
<1>3. t \in ReadsType
  BY <1>1, <1>2 DEF ReadsType
<1>4. /\ t.zone = s.zone /\ t.path = s.path /\ t.vlm = s.vlm /\ t.state = s.state
      /\ s.told \subseteq t.told /\ t.fall.verdicts = s.fall.verdicts + 1 /\ t.fall.seen
      /\ t.fall.pending = s.fall.pending /\ t.fall.cross = s.fall.cross
      /\ t.fall.reported = s.fall.reported
  BY <1>1, <1>2 DEF ReadsType
<1>5. s.fall.verdicts = 0 /\ ~Waits(s.fall.cross) /\ ~s.fall.reported
  BY DEF Good, Crossed
<1>6. Owned(t) /\ Crossed(t) /\ Visited(t)
  BY <1>4, <1>5 DEF Good, Owned, Crossed, Visited
<1> QED
  BY <1>3, <1>4, <1>6 DEF Good, Beside, Kept, t

LEMMA FallWatchGood ==
    ASSUME NEW s0, Good(s0), NEW timeout
    PROVE  Good(FallWatch(s0, timeout)) /\ Beside(s0, FallWatch(s0, timeout))
<1> DEFINE s == TakeCross(s0)
           r == IF ~s.fall.seen /\ s.fall.rule >= Budget THEN RuleOver(s) ELSE s
           tracking == r.state = "ALERT"
           ends == r.fall.suspected /\ (~tracking \/ (timeout /\ ~r.fall.confirmed))
           to == IF tracking THEN "PATROL" ELSE r.state
           u == [r EXCEPT !.fall.suspected = FALSE, !.fall.confirmed = FALSE, !.state = to]
<1>1. Good(s) /\ Beside(s0, s)
  BY TakeCrossGood
<1>2. FallWatch(s0, timeout) = IF ends THEN u ELSE r
  BY DEF FallWatch
<1> HIDE DEF s
<1>3. Good(r) /\ Beside(s, r)
  BY <1>1, RuleOverGood DEF Beside, Kept
<1> HIDE DEF r
<1>4. to \in {"PATROL", "ZONE_INSPECT", "ALERT", "OTHER"} /\ (to = "ZONE_INSPECT" => r.state = "ZONE_INSPECT")
  BY <1>3 DEF Good, ReadsType
<1> HIDE DEF to
<1>5. u \in ReadsType
  BY <1>3, <1>4 DEF Good, ReadsType
<1>6. /\ u.zone = r.zone /\ u.path = r.path /\ u.vlm = r.vlm /\ u.told = r.told /\ u.state = to
      /\ u.fall.verdicts = r.fall.verdicts /\ u.fall.pending = r.fall.pending
      /\ u.fall.cross = r.fall.cross /\ u.fall.seen = r.fall.seen /\ u.fall.reported = r.fall.reported
  BY <1>3, <1>4 DEF Good, ReadsType
<1> HIDE DEF u
<1>7. Owned(u) /\ Crossed(u) /\ Visited(u)
  BY <1>3, <1>4, <1>6 DEF Good, Owned, Crossed, Visited
<1>8. Good(u) /\ Beside(r, u)
  BY <1>5, <1>6, <1>7 DEF Good, Beside, Kept
<1> QED
  BY <1>1, <1>2, <1>3, <1>8, BesideSteps

LEMMA FallTakeGood ==
    ASSUME NEW s0, Good(s0), NEW again
    PROVE  Good(FallTake(s0, again)) /\ Beside(s0, FallTake(s0, again))
<1> DEFINE s == TakeCross(s0)
           t == [Taken(s) EXCEPT !.fall.pending = "none"]
<1>1. Good(s) /\ Beside(s0, s)
  BY TakeCrossGood
<1>2. FallTake(s0, again) \in {s, t, Suspect(t, again)}
  BY DEF FallTake
<1>3. FallTake(s0, again) # s => ~Waits(s.fall.cross) /\ s.fall.pending # "none" /\ ~s.vlm.busy
  BY DEF FallTake
<1> HIDE DEF s
<1>4. ASSUME ~Waits(s.fall.cross), s.fall.pending # "none", ~s.vlm.busy
      PROVE  Good(t) /\ Beside(s, t)
  <2> DEFINE k == Taken(s)
  <2>1. /\ k \in ReadsType /\ k.fall = s.fall /\ k.zone = s.zone /\ k.path = s.path
        /\ k.state = s.state /\ k.told = s.told
        /\ ~k.vlm.busy /\ k.vlm.by = "none" /\ k.vlm.slot = {} /\ ~k.vlm.late
    BY <1>1, <1>4, TakenIs DEF Good
  <2> HIDE DEF k
  <2>2. t \in ReadsType
    BY <2>1 DEF ReadsType, k
  <2>3. /\ t.zone = s.zone /\ t.path = s.path /\ t.vlm = k.vlm /\ t.state = s.state /\ t.told = s.told
        /\ t.fall.verdicts = s.fall.verdicts /\ t.fall.pending = "none"
        /\ t.fall.cross = s.fall.cross /\ t.fall.seen = s.fall.seen /\ t.fall.reported = s.fall.reported
    BY <2>1 DEF ReadsType, k
  <2>4. s.vlm.by = "fall" /\ ~s.zone.pending /\ ~s.path.submitted /\ ~s.path.draining
    BY <1>1, <1>4 DEF Good, Owned
  <2> HIDE DEF t
  <2>5. Owned(t) /\ Crossed(t) /\ Visited(t)
    BY <1>1, <1>4, <2>1, <2>3, <2>4 DEF Good, Owned, Crossed, Visited
  <2> QED
    BY <2>2, <2>3, <2>5 DEF Good, Beside, Kept
<1>5. Good(t) => Good(Suspect(t, again)) /\ Beside(t, Suspect(t, again))
  BY SuspectGood DEF Beside
<1> HIDE DEF t
<1> QED
  BY <1>1, <1>2, <1>3, <1>4, <1>5, BesideSteps

\* Who may ask finds the reader without an owner.
LEMMA NoOwner ==
    ASSUME NEW s, Good(s), ~FallWaiting(s), ~PathWaiting(s), ~s.zone.pending
    PROVE  /\ s.vlm.by = "none" /\ ~s.vlm.busy /\ s.vlm.slot = {}
           /\ ~s.path.submitted /\ ~s.path.draining /\ s.fall.pending = "none"
           /\ ~Waits(s.fall.cross) /\ ~Waits(s.zone.wait)
<1>1. /\ s.fall.pending = "none" /\ ~Waits(s.fall.cross) /\ ~Waits(s.path.wait) /\ ~s.path.draining
      /\ s.vlm.by \in {"none", "fall", "cross", "zone", "path"}
  BY DEF Good, ReadsType, FallWaiting, PathWaiting
<1>2. ~s.path.submitted /\ ~Waits(s.zone.wait)
  BY <1>1 DEF Good, Owned, Visited
<1>3. s.vlm.by = "none"
  BY <1>1, <1>2 DEF Good, Owned
<1> QED
  BY <1>1, <1>2, <1>3 DEF Good, Owned

LEMMA AskCrossGood ==
    ASSUME NEW s, Good(s)
    PROVE  Good(AskCross(s)) /\ Beside(s, AskCross(s))
<1> DEFINE z == [s EXCEPT !.fall.rule = 0]
           t == IF Waits(s.fall.rule) THEN s ELSE z
           c == [Submit(t, "cross") EXCEPT !.fall.cross = 0, !.fall.seen = TRUE]
<1>1. CASE s.fall.seen \/ Waits(s.fall.cross)
  BY <1>1 DEF AskCross, Beside, Kept
<1>2. CASE ~(s.fall.seen \/ Waits(s.fall.cross))
  <2>1. z \in ReadsType
    BY AgesHold DEF Good, ReadsType
  <2>2. /\ z.zone = s.zone /\ z.path = s.path /\ z.vlm = s.vlm /\ z.state = s.state /\ z.told = s.told
        /\ z.fall.verdicts = s.fall.verdicts /\ z.fall.pending = s.fall.pending
        /\ z.fall.cross = s.fall.cross /\ z.fall.seen = s.fall.seen /\ z.fall.reported = s.fall.reported
    BY AgesHold DEF Good, ReadsType
  <2> HIDE DEF z
  <2>3. Owned(z) /\ Crossed(z) /\ Visited(z)
    BY <2>2 DEF Good, Owned, Crossed, Visited
  <2>4. Good(t) /\ Beside(s, t) /\ ~t.fall.seen /\ ~Waits(t.fall.cross)
    BY <1>2, <2>1, <2>2, <2>3 DEF Good, Beside, Kept
  <2>5. AskCross(s) = IF t.fall.rule >= Budget THEN RuleOver(t)
                      ELSE IF MayAskFall(t) THEN c ELSE t
    BY <1>2 DEF AskCross, z
  <2> HIDE DEF t
  <2>6. Good(RuleOver(t)) /\ Beside(t, RuleOver(t))
    BY <2>4, RuleOverGood
  <2>7. ASSUME MayAskFall(t) PROVE Good(c) /\ Beside(t, c)
    <3> DEFINE k == Submit(t, "cross")
    <3>1. /\ k \in ReadsType /\ k.fall = t.fall /\ k.zone = t.zone /\ k.path = t.path
          /\ k.state = t.state /\ k.told = t.told /\ k.vlm.busy /\ k.vlm.by = "cross"
      BY <2>4, SubmitIs DEF Good
    <3> HIDE DEF k
    <3>2. c \in ReadsType
      BY <3>1, AgesHold DEF ReadsType, k
    <3>3. /\ c.zone = t.zone /\ c.path = t.path /\ c.state = t.state /\ c.told = t.told
          /\ c.fall.verdicts = t.fall.verdicts /\ c.fall.pending = t.fall.pending
          /\ c.fall.cross = 0 /\ c.fall.seen /\ c.fall.reported = t.fall.reported
          /\ c.vlm.busy /\ c.vlm.by = "cross"
      BY <3>1 DEF ReadsType, k
    <3>4. ~FallWaiting(t) /\ ~PathWaiting(t) /\ ~t.zone.pending
      BY <2>4, <2>7 DEF MayAskFall, FallWaiting
    <3>5. /\ ~t.path.submitted /\ ~t.path.draining /\ t.fall.pending = "none" /\ ~Waits(t.zone.wait)
          /\ t.fall.verdicts = 0 /\ ~t.fall.reported
      BY <2>4, <3>4, NoOwner DEF Good, Crossed
    <3> HIDE DEF c
    <3>6. Owned(c) /\ Crossed(c) /\ Visited(c)
      BY <2>4, <3>3, <3>4, <3>5, AgesHold DEF Good, Owned, Crossed, Visited
    <3> QED
      BY <3>2, <3>3, <3>6 DEF Good, Beside, Kept
  <2> HIDE DEF c
  <2> QED
    BY <2>4, <2>5, <2>6, <2>7, BesideSteps
<1> QED
  BY <1>1, <1>2

LEMMA FallAskGood ==
    ASSUME NEW s, Good(s), NEW rule, NEW due
    PROVE  Good(FallAsk(s, rule, due)) /\ Beside(s, FallAsk(s, rule, due))
<1> DEFINE t == [s EXCEPT !.fall.seen = FALSE, !.fall.rule = Off, !.fall.verdicts = 0]
           p == IF t.fall.suspected THEN "suspect" ELSE "patrol"
           u == [Submit(t, "fall") EXCEPT !.fall.pending = p]
<1>1. CASE rule \/ Waits(s.fall.cross)
  BY <1>1, AskCrossGood DEF FallAsk, Beside, Kept
<1>2. CASE ~rule /\ ~Waits(s.fall.cross)
  <2>1. FallAsk(s, rule, due) \in {t, u} /\ (FallAsk(s, rule, due) # t => MayAskFall(t))
    BY <1>2 DEF FallAsk
  <2>2. t \in ReadsType
    BY AgesHold DEF Good, ReadsType
  <2>3. /\ t.zone = s.zone /\ t.path = s.path /\ t.vlm = s.vlm /\ t.state = s.state /\ t.told = s.told
        /\ t.fall.verdicts = 0 /\ t.fall.pending = s.fall.pending
        /\ t.fall.cross = s.fall.cross /\ ~t.fall.seen /\ t.fall.reported = s.fall.reported
    BY DEF Good, ReadsType
  <2> HIDE DEF t
  <2>4. Owned(t) /\ Crossed(t) /\ Visited(t)
    BY <1>2, <2>3 DEF Good, Owned, Crossed, Visited
  <2>5. Good(t) /\ Beside(s, t) /\ ~Waits(t.fall.cross)
    BY <1>2, <2>2, <2>3, <2>4 DEF Good, Beside, Kept
  <2>6. ASSUME MayAskFall(t) PROVE Good(u) /\ Beside(t, u)
    <3>0. p \in {"patrol", "suspect"}
      OBVIOUS
    <3> HIDE DEF p
    <3> DEFINE k == Submit(t, "fall")
    <3>1. /\ k \in ReadsType /\ k.fall = t.fall /\ k.zone = t.zone /\ k.path = t.path
          /\ k.state = t.state /\ k.told = t.told /\ k.vlm.busy /\ k.vlm.by = "fall"
      BY <2>5, SubmitIs DEF Good
    <3> HIDE DEF k
    <3>2. u \in ReadsType
      BY <3>0, <3>1 DEF ReadsType, k
    <3>3. /\ u.zone = t.zone /\ u.path = t.path /\ u.state = t.state /\ u.told = t.told
          /\ u.fall.verdicts = t.fall.verdicts /\ u.fall.pending # "none"
          /\ u.fall.cross = t.fall.cross /\ u.fall.seen = t.fall.seen /\ u.fall.reported = t.fall.reported
          /\ u.vlm.busy /\ u.vlm.by = "fall"
      BY <3>0, <3>1 DEF ReadsType, k
    <3>4. ~FallWaiting(t) /\ ~PathWaiting(t) /\ ~t.zone.pending
      BY <2>5, <2>6 DEF MayAskFall, FallWaiting
    <3>5. ~t.path.submitted /\ ~t.path.draining /\ ~Waits(t.fall.cross) /\ ~Waits(t.zone.wait)
      BY <2>5, <3>4, NoOwner
    <3> HIDE DEF u
    <3>6. Owned(u) /\ Crossed(u) /\ Visited(u)
      BY <2>5, <3>3, <3>4, <3>5 DEF Good, Owned, Crossed, Visited
    <3> QED
      BY <3>2, <3>3, <3>6 DEF Good, Beside, Kept
  <2> HIDE DEF u
  <2> QED
    BY <2>1, <2>5, <2>6, BesideSteps
<1> QED
  BY <1>1, <1>2

------------------------------------------------------------------------------
\* The inspector.

\* A question of the visit that goes on.
LEMMA SubmitZoneGood ==
    ASSUME NEW s, Good(s), s.vlm.by = "none",
           s.zone.open, ~s.zone.concluded, s.zone.asked, s.zone.hazards = {},
           NEW sus \in SUBSET Hazards, \A k \in sus : s.zone.votes[k] >= 1,
           NEW u, u = [SubmitZone(s) EXCEPT !.zone.suspects = sus] \/ (u = SubmitZone(s) /\ sus = s.zone.suspects)
    PROVE  Good(u) /\ Beside(s, u)
<1> DEFINE t == SubmitZone(s)
<1> DEFINE k == Submit(s, "zone")
<1>0. /\ k \in ReadsType /\ k.fall = s.fall /\ k.zone = s.zone /\ k.path = s.path
      /\ k.state = s.state /\ k.told = s.told /\ k.vlm.busy /\ k.vlm.by = "zone" /\ ~k.vlm.late
  BY SubmitIs DEF Good
<1> HIDE DEF k
<1>1. t \in ReadsType
  BY <1>0, AgesHold DEF ReadsType, ZoneType, SubmitZone, k
<1>2. /\ t.fall = s.fall /\ t.path = s.path /\ t.state = s.state /\ t.told = s.told
      /\ t.vlm.busy /\ t.vlm.by = "zone" /\ ~t.vlm.late
      /\ t.zone.pending /\ t.zone.wait = 0
      /\ t.zone.open = s.zone.open /\ t.zone.concluded = s.zone.concluded /\ t.zone.done = s.zone.done
      /\ t.zone.asked = s.zone.asked /\ t.zone.hazards = s.zone.hazards
      /\ t.zone.suspects = s.zone.suspects
      /\ t.zone.votes = s.zone.votes /\ t.zone.backed = s.zone.backed
  BY <1>0 DEF ReadsType, ZoneType, SubmitZone, k
<1> HIDE DEF t
<1>3. /\ u \in ReadsType
      /\ u.fall = t.fall /\ u.path = t.path /\ u.state = t.state /\ u.told = t.told /\ u.vlm = t.vlm
      /\ u.zone.pending /\ u.zone.wait = 0
      /\ u.zone.open = t.zone.open /\ u.zone.concluded = t.zone.concluded /\ u.zone.done = t.zone.done
      /\ u.zone.asked = t.zone.asked /\ u.zone.hazards = t.zone.hazards
      /\ u.zone.suspects = sus
      /\ u.zone.votes = t.zone.votes /\ u.zone.backed = t.zone.backed
  <2>1. CASE u = t /\ sus = s.zone.suspects
    BY <1>1, <1>2, <2>1
  <2>2. CASE u = [t EXCEPT !.zone.suspects = sus]
    <3>1. u \in ReadsType
      BY <1>1, <2>2 DEF ReadsType, ZoneType
    <3>2. /\ u.fall = t.fall /\ u.path = t.path /\ u.state = t.state /\ u.told = t.told /\ u.vlm = t.vlm
          /\ u.zone.pending = t.zone.pending /\ u.zone.wait = t.zone.wait
          /\ u.zone.open = t.zone.open /\ u.zone.concluded = t.zone.concluded /\ u.zone.done = t.zone.done
          /\ u.zone.asked = t.zone.asked /\ u.zone.hazards = t.zone.hazards
          /\ u.zone.suspects = sus
          /\ u.zone.votes = t.zone.votes /\ u.zone.backed = t.zone.backed
      BY <1>1, <2>2 DEF ReadsType, ZoneType
    <3> QED
      BY <1>2, <3>1, <3>2
  <2> QED
    BY <2>1, <2>2 DEF t
<1>4. /\ s.fall.pending = "none" /\ ~Waits(s.fall.cross) /\ ~s.path.submitted /\ ~s.path.draining
  BY DEF Good, Owned
<1>5. Owned(u) /\ Crossed(u)
  BY <1>2, <1>3, <1>4 DEF Good, Owned, Crossed
<1>6. Visited(u)
  BY <1>2, <1>3 DEF Good, Visited
<1> QED
  BY <1>2, <1>3, <1>5, <1>6 DEF Good, Beside, Kept

LEMMA ZoneTakeGood ==
    ASSUME NEW s, Good(s), NEW away, NEW again
    PROVE  Good(ZoneTake(s, away, again)) /\ Beside(s, ZoneTake(s, away, again))
<1>1. CASE ~s.zone.pending \/ s.vlm.busy
  BY <1>1 DEF ZoneTake, Beside, Kept
<1>2. CASE s.zone.pending /\ ~s.vlm.busy
  <2> DEFINE mine == Waits(s.zone.wait)
             said == Answer(s) \cap Hazards
             read == s.vlm.slot # {}
             t == [Taken(s) EXCEPT
                     !.zone.pending = FALSE, !.zone.wait = Off,
                     !.zone.votes = [k \in Hazards |->
                        IF mine /\ ~s.vlm.late /\ k \in said /\ @[k] < 2 THEN @[k] + 1 ELSE @[k]]]
             w == [t EXCEPT !.zone.hazards = Both(s.zone.suspects, said), !.zone.suspects = {}]
             v == [SubmitZone(t) EXCEPT !.zone.suspects = said]
             u == CASE ~(mine /\ read) -> t
                    [] mine /\ read /\ s.zone.suspects # {} -> w
                    [] mine /\ read /\ s.zone.suspects = {} ->
                         IF said # {} /\ s.state = "ZONE_INSPECT" /\ ~away /\ Submits(t) THEN v ELSE t
             votes == [k \in Hazards |->
                         IF mine /\ ~s.vlm.late /\ k \in said /\ s.zone.votes[k] < 2
                         THEN s.zone.votes[k] + 1 ELSE s.zone.votes[k]]
  <2>1. ZoneTake(s, away, again) = IF "person" \in Answer(s) THEN Suspect(u, again) ELSE u
    BY <1>2 DEF ZoneTake
  <2> DEFINE k0 == Taken(s)
  <2>2. /\ k0 \in ReadsType /\ k0.fall = s.fall /\ k0.zone = s.zone /\ k0.path = s.path
        /\ k0.state = s.state /\ k0.told = s.told
        /\ ~k0.vlm.busy /\ k0.vlm.by = "none" /\ k0.vlm.slot = {} /\ ~k0.vlm.late
    BY <1>2, TakenIs DEF Good
  <2>3. s.zone.votes \in [Hazards -> 0..2] /\ s.zone.suspects \in SUBSET Hazards
    BY DEF Good, ReadsType, ZoneType
  <2>4. /\ votes \in [Hazards -> 0..2]
        /\ \A k \in Hazards : votes[k] >= s.zone.votes[k]
        /\ \A k \in Hazards : s.zone.votes[k] = 2 => votes[k] = 2
        /\ mine /\ ~s.vlm.late =>
             \A k \in said : votes[k] >= 1 /\ (s.zone.votes[k] >= 1 => votes[k] = 2)
    BY <2>3
  <2>5. mine => /\ ~s.vlm.late /\ s.zone.open /\ ~s.zone.concluded /\ s.zone.asked
                /\ s.zone.hazards = {} /\ \A k \in s.zone.suspects : s.zone.votes[k] >= 1
    BY DEF Good, Visited
  <2>6. s.vlm.by = "zone"
    BY <1>2 DEF Good, Owned
  <2>7. said \in SUBSET Hazards
    OBVIOUS
  <2>8. t = [k0 EXCEPT !.zone.pending = FALSE, !.zone.wait = Off, !.zone.votes = votes]
    BY <2>2
  <2> HIDE DEF t, votes, k0, said
  <2>9. t \in ReadsType
    BY <2>2, <2>4, <2>8, AgesHold DEF ReadsType, ZoneType
  <2>10. /\ t.fall = s.fall /\ t.path = s.path /\ t.state = s.state /\ t.told = s.told
         /\ t.vlm = k0.vlm /\ ~t.zone.pending /\ t.zone.wait = Off /\ t.zone.votes = votes
         /\ t.zone.open = s.zone.open /\ t.zone.concluded = s.zone.concluded
         /\ t.zone.done = s.zone.done /\ t.zone.asked = s.zone.asked
         /\ t.zone.hazards = s.zone.hazards /\ t.zone.suspects = s.zone.suspects
         /\ t.zone.backed = s.zone.backed
    BY <2>2, <2>4, <2>8 DEF ReadsType, ZoneType
  <2>11. Good(t) /\ Beside(s, t)
    <3>1. Owned(t) /\ Crossed(t)
      BY <1>2, <2>2, <2>6, <2>10 DEF Good, Owned, Crossed
    <3>2. \A k \in s.zone.suspects \cup s.zone.hazards : k \in Hazards /\ s.zone.votes[k] \in 0..2
      BY <2>3 DEF Good, ReadsType, ZoneType
    <3>3. /\ t.state = "ZONE_INSPECT" => \A k \in t.zone.suspects : t.zone.votes[k] >= 1
          /\ \A k \in t.zone.hazards : t.zone.votes[k] = 2
      BY <2>3, <2>4, <2>10, <3>2 DEF Good, Visited
    <3>4. Visited(t)
      BY <2>10, <3>3, AgesHold DEF Good, Visited
    <3> QED
      BY <2>9, <2>10, <3>1, <3>4 DEF Good, Beside, Kept
  <2>12. ASSUME mine, s.zone.suspects # {} PROVE Good(w) /\ Beside(s, w)
    <3> DEFINE b == Both(s.zone.suspects, said)
    <3>1. b \in SUBSET Hazards /\ \A k \in b : votes[k] = 2
      BY <2>3, <2>4, <2>5, <2>7, <2>12 DEF Both
    <3> HIDE DEF b
    <3>2. w \in ReadsType
      BY <2>9, <3>1 DEF ReadsType, ZoneType, b
    <3>3. /\ w.fall = t.fall /\ w.path = t.path /\ w.state = t.state /\ w.told = t.told
          /\ w.vlm = t.vlm /\ w.zone.pending = t.zone.pending /\ w.zone.wait = t.zone.wait
          /\ w.zone.votes = t.zone.votes
          /\ w.zone.open = t.zone.open /\ w.zone.concluded = t.zone.concluded
          /\ w.zone.done = t.zone.done /\ w.zone.asked = t.zone.asked
          /\ w.zone.hazards = b /\ w.zone.suspects = {} /\ w.zone.backed = t.zone.backed
      BY <2>9, <3>1 DEF ReadsType, ZoneType, b
    <3> HIDE DEF w
    <3>4. Owned(w) /\ Crossed(w)
      BY <2>11, <3>3 DEF Good, Owned, Crossed
    <3>5. Visited(w)
      BY <2>5, <2>10, <2>11, <2>12, <3>1, <3>3, AgesHold DEF Good, Visited
    <3>6. Beside(s, w)
      BY <2>5, <2>10, <2>12, <3>3 DEF Beside, Kept
    <3> QED
      BY <3>2, <3>4, <3>5, <3>6 DEF Good
  <2>13. ASSUME mine, s.zone.suspects = {} PROVE Good(v) /\ Beside(s, v)
    <3>1. Good(v) /\ Beside(t, v)
      BY <2>2, <2>4, <2>5, <2>7, <2>10, <2>11, <2>13, SubmitZoneGood
    <3> QED
      BY <2>11, <3>1, BesideSteps
  <2> HIDE DEF w, v
  <2>14. Good(u) /\ Beside(s, u)
    BY <2>11, <2>12, <2>13
  <2> HIDE DEF u
  <2>15. Good(Suspect(u, again)) /\ Beside(u, Suspect(u, again))
    BY <2>14, SuspectGood DEF Beside
  <2> QED
    BY <2>1, <2>14, <2>15, BesideSteps
<1> QED
  BY <1>1, <1>2

\* The visit ends: what was confirmed is told, what was waited for is given up.
LEMMA LeaveGood ==
    ASSUME NEW s0, Good(s0), NEW departed \in BOOLEAN, NEW heard \in BOOLEAN,
           departed => s0.state # "ZONE_INSPECT"
    PROVE  /\ Good(Leave(s0, departed, heard)) /\ Beside(s0, Leave(s0, departed, heard))
           /\ departed => Leave(s0, departed, heard).zone.concluded
           /\ departed => Leave(s0, departed, heard).state = s0.state
<1> DEFINE s == [s0 EXCEPT !.zone.done = TRUE]
           light == s.zone.found \/ "light" \in s.zone.hazards
           alarm == "alarm" \in s.zone.hazards
           left == [s.zone EXCEPT
                      !.wait = Off, !.found = FALSE, !.hazards = {}, !.concluded = TRUE,
                      !.backed = @ /\ \A k \in s.zone.hazards : s.zone.votes[k] = 2,
                      !.votes = IF departed \/ heard THEN [k \in Hazards |-> 0] ELSE @,
                      !.asked = @ /\ alarm]
           told == s.told \cup (IF light THEN {"light"} ELSE {}) \cup (IF alarm THEN {"alarm"} ELSE {})
           to == IF departed \/ ~heard THEN s.state ELSE IF alarm THEN "ALERT" ELSE "PATROL"
           t == [s EXCEPT !.zone = left, !.told = told, !.state = to]
           b == s.zone.backed /\ \A k \in s.zone.hazards : s.zone.votes[k] = 2
           v == IF departed \/ heard THEN [k \in Hazards |-> 0] ELSE s.zone.votes
           a == s.zone.asked /\ alarm
<1>1. s \in ReadsType
  BY DEF Good, ReadsType, ZoneType
<1>2. /\ s.fall = s0.fall /\ s.path = s0.path /\ s.vlm = s0.vlm /\ s.state = s0.state /\ s.told = s0.told
      /\ s.zone.done /\ s.zone.open = s0.zone.open /\ s.zone.concluded = s0.zone.concluded
      /\ s.zone.asked = s0.zone.asked /\ s.zone.pending = s0.zone.pending /\ s.zone.wait = s0.zone.wait
      /\ s.zone.suspects = s0.zone.suspects /\ s.zone.hazards = s0.zone.hazards
      /\ s.zone.votes = s0.zone.votes /\ s.zone.backed = s0.zone.backed
  BY DEF Good, ReadsType, ZoneType
<1>3. Leave(s0, departed, heard)
        = IF ~departed /\ Waits(s.zone.wait) /\ s.zone.wait < Budget THEN s ELSE t
  BY DEF Leave
<1> HIDE DEF s
<1>4. Good(s) /\ Beside(s0, s)
  <2>1. Owned(s) /\ Crossed(s)
    BY <1>2 DEF Good, Owned, Crossed
  <2>2. Visited(s)
    BY <1>2 DEF Good, Visited
  <2> QED
    BY <1>1, <1>2, <2>1, <2>2 DEF Good, Beside, Kept
<1>5. /\ b \in BOOLEAN /\ a \in BOOLEAN /\ v \in [Hazards -> 0..2]
      /\ s.zone \in ZoneType /\ Off \in Ages(Budget)
  BY <1>1, AgesHold DEF ReadsType, ZoneType
<1>6. /\ s.told \subseteq told /\ s.zone.hazards \subseteq told
      /\ to = "ZONE_INSPECT" => v = s.zone.votes /\ s.state = "ZONE_INSPECT"
      /\ departed => to = s.state
      /\ b
  BY <1>1, <1>2, <1>4 DEF ReadsType, ZoneType, Hazards, Good, Visited
<1>7. left = [s.zone EXCEPT !.wait = Off, !.found = FALSE, !.hazards = {}, !.concluded = TRUE,
                            !.backed = b, !.votes = v, !.asked = a]
  BY <1>1 DEF ReadsType, ZoneType
<1>8. /\ told \in SUBSET {"blocked", "verdict", "light", "alarm"}
      /\ to \in {"PATROL", "ZONE_INSPECT", "ALERT", "OTHER"}
  BY <1>1 DEF ReadsType
<1> HIDE DEF b, a, v, told, to, left
<1>9. left \in ZoneType
  <2> DEFINE l == [s.zone EXCEPT !.wait = Off, !.found = FALSE, !.hazards = {}, !.concluded = TRUE]
  <2>1. l \in ZoneType
    BY <1>5 DEF ZoneType
  <2>2. left = [l EXCEPT !.backed = b, !.votes = v, !.asked = a]
    BY <1>7
  <2> HIDE DEF l
  <2> QED
    BY <1>5, <2>1, <2>2 DEF ZoneType
<1>10. /\ left.done = s.zone.done /\ left.open = s.zone.open /\ left.concluded
       /\ left.pending = s.zone.pending /\ left.wait = Off
       /\ left.suspects = s.zone.suspects /\ left.hazards = {}
       /\ left.votes = v /\ left.backed = b
  BY <1>5, <1>7 DEF ZoneType
<1>11. /\ t \in ReadsType
       /\ t.fall = s.fall /\ t.path = s.path /\ t.vlm = s.vlm /\ t.zone = left
       /\ t.state = to /\ t.told = told
  BY <1>1, <1>8, <1>9 DEF ReadsType
<1> HIDE DEF t
<1>12. Owned(t) /\ Crossed(t)
  BY <1>4, <1>10, <1>11 DEF Good, Owned, Crossed
<1>13. Visited(t)
  BY <1>2, <1>4, <1>5, <1>6, <1>10, <1>11, AgesHold DEF Good, Visited
<1>14. Good(t) /\ Beside(s, t) /\ t.zone.concluded /\ t.state = to
  BY <1>6, <1>10, <1>11, <1>12, <1>13 DEF Good, Beside, Kept
<1> QED
  BY <1>2, <1>3, <1>4, <1>6, <1>14, BesideSteps

\* A visit starts with nothing asked, suspected or confirmed.
LEMMA ArriveGood ==
    ASSUME NEW s, Good(s), s.zone.hazards = {}
    PROVE  Good(Arrive(s)) /\ Beside(s, Arrive(s))
<1> DEFINE late == s.vlm.late \/ s.zone.pending
           none == [k \in Hazards |-> 0]
           z == [s.zone EXCEPT !.open = TRUE, !.concluded = FALSE, !.done = FALSE,
                               !.aligned = FALSE, !.asked = FALSE, !.wait = Off,
                               !.suspects = {}, !.hazards = {}, !.found = FALSE,
                               !.votes = none]
           t == Arrive(s)
<1>1. none \in [Hazards -> 0..2] /\ s.zone \in ZoneType /\ Off \in Ages(Budget)
  BY AgesHold DEF Good, ReadsType
<1>2. late \in BOOLEAN /\ t = [s EXCEPT !.state = "ZONE_INSPECT", !.vlm.late = late, !.zone = z]
  BY DEF Good, ReadsType, Arrive
<1> HIDE DEF none
<1>3. z \in ZoneType
  BY <1>1 DEF ZoneType
<1>4. /\ z.pending = s.zone.pending /\ z.wait = Off /\ ~z.concluded
      /\ z.suspects = {} /\ z.hazards = {} /\ z.backed = s.zone.backed
  BY <1>1 DEF ZoneType
<1>5. late => s.vlm.late \/ s.zone.pending
  OBVIOUS
<1> HIDE DEF late, z, t
<1>6. /\ t \in ReadsType
      /\ t.fall = s.fall /\ t.path = s.path /\ t.told = s.told /\ t.zone = z
      /\ t.vlm.busy = s.vlm.busy /\ t.vlm.by = s.vlm.by /\ t.vlm.slot = s.vlm.slot /\ t.vlm.late = late
  BY <1>2, <1>3 DEF Good, ReadsType
<1>7. Owned(t) /\ Crossed(t)
  BY <1>4, <1>5, <1>6 DEF Good, Owned, Crossed
<1>8. Visited(t)
  BY <1>4, <1>6, AgesHold DEF Good, Visited
<1> QED
  BY <1>4, <1>6, <1>7, <1>8 DEF Good, Beside, Kept, t

\* What no part of the invariant looks at may change.
LEMMA AsideGood ==
    ASSUME NEW s, Good(s), NEW t \in ReadsType,
           t.fall = s.fall, t.path = s.path, t.vlm = s.vlm, t.state = s.state, t.told = s.told,
           t.zone.pending = s.zone.pending, t.zone.wait = s.zone.wait, t.zone.open = s.zone.open,
           t.zone.concluded = s.zone.concluded, t.zone.done = s.zone.done,
           t.zone.asked = s.zone.asked, t.zone.suspects = s.zone.suspects,
           t.zone.hazards = s.zone.hazards, t.zone.votes = s.zone.votes, t.zone.backed = s.zone.backed
    PROVE  Good(t) /\ Beside(s, t)
<1>1. Owned(t) /\ Crossed(t)
  BY DEF Good, Owned, Crossed
<1>2. Visited(t)
  BY DEF Good, Visited
<1> QED
  BY <1>1, <1>2 DEF Good, Beside, Kept

LEMMA ReadSceneGood ==
    ASSUME NEW s, Good(s), s.state = "ZONE_INSPECT", s.zone.open, ~s.zone.concluded
    PROVE  Good(ReadScene(s)) /\ Beside(s, ReadScene(s))
<1> DEFINE t == [s EXCEPT !.zone.asked = TRUE]
<1>1. CASE s.zone.asked \/ FallWaiting(s) \/ PathWaiting(s)
  BY <1>1 DEF ReadScene, Beside, Kept
<1>2. CASE ~(s.zone.asked \/ FallWaiting(s) \/ PathWaiting(s))
  <2>1. ReadScene(s) = IF ~t.zone.pending /\ Submits(t) THEN SubmitZone(t) ELSE t
    BY <1>2 DEF ReadScene
  <2>2. t \in ReadsType
    BY DEF Good, ReadsType, ZoneType
  <2>3. /\ t.fall = s.fall /\ t.path = s.path /\ t.vlm = s.vlm /\ t.state = s.state /\ t.told = s.told
        /\ t.zone.pending = s.zone.pending /\ t.zone.wait = s.zone.wait /\ t.zone.open = s.zone.open
        /\ t.zone.concluded = s.zone.concluded /\ t.zone.done = s.zone.done
        /\ t.zone.asked /\ t.zone.suspects = s.zone.suspects
        /\ t.zone.hazards = s.zone.hazards /\ t.zone.votes = s.zone.votes /\ t.zone.backed = s.zone.backed
    BY DEF Good, ReadsType, ZoneType
  <2> HIDE DEF t
  <2>4. Owned(t) /\ Crossed(t)
    BY <2>3 DEF Good, Owned, Crossed
  <2>5. Visited(t)
    BY <2>3 DEF Good, Visited
  <2>6. Good(t) /\ Beside(s, t)
    BY <2>2, <2>3, <2>4, <2>5 DEF Good, Beside, Kept
  <2>7. ASSUME ~t.zone.pending PROVE Good(SubmitZone(t)) /\ Beside(t, SubmitZone(t))
    <3>1. t.vlm.by = "none"
      BY <1>2, <2>3, <2>6, <2>7, NoOwner DEF FallWaiting, PathWaiting
    <3>2. t.zone.hazards = {} /\ \A k \in t.zone.suspects : t.zone.votes[k] >= 1
      BY <1>2, <2>3 DEF Good, Visited
    <3>3. t.zone.suspects \in SUBSET Hazards
      BY <2>2 DEF ReadsType, ZoneType
    <3> QED
      BY <2>3, <2>6, <3>1, <3>2, <3>3, SubmitZoneGood
  <2> QED
    BY <2>1, <2>6, <2>7, BesideSteps
<1> QED
  BY <1>1, <1>2

LEMMA VisitGood ==
    ASSUME NEW s, Good(s), s.state = "ZONE_INSPECT", s.zone.open,
           NEW away, NEW turned, NEW over, NEW found \in BOOLEAN, NEW heard \in BOOLEAN
    PROVE  /\ Good(Visit(s, away, turned, over, found, heard))
           /\ Beside(s, Visit(s, away, turned, over, found, heard))
<1> DEFINE a == [s EXCEPT !.zone.aligned = TRUE]
           c == ReadScene(a)
           u == [c EXCEPT !.zone.found = @ \/ found]
<1>1. \A t : Good(t) => Good(Leave(t, FALSE, heard)) /\ Beside(t, Leave(t, FALSE, heard))
  BY LeaveGood
<1>2. CASE away \/ s.zone.done
  BY <1>1, <1>2 DEF Visit
<1>3. CASE ~(away \/ s.zone.done) /\ ~s.zone.aligned /\ ~turned
  BY <1>1, <1>3 DEF Visit, Beside, Kept
<1>4. CASE ~(away \/ s.zone.done) /\ ~(~s.zone.aligned /\ ~turned)
  <2>1. Visit(s, away, turned, over, found, heard) = IF over THEN Leave(u, FALSE, heard) ELSE u
    BY <1>4 DEF Visit
  <2>2. /\ a \in ReadsType
        /\ a.fall = s.fall /\ a.path = s.path /\ a.vlm = s.vlm /\ a.state = s.state /\ a.told = s.told
        /\ a.zone.pending = s.zone.pending /\ a.zone.wait = s.zone.wait /\ a.zone.open = s.zone.open
        /\ a.zone.concluded = s.zone.concluded /\ a.zone.done = s.zone.done
        /\ a.zone.asked = s.zone.asked /\ a.zone.suspects = s.zone.suspects
        /\ a.zone.hazards = s.zone.hazards /\ a.zone.votes = s.zone.votes /\ a.zone.backed = s.zone.backed
    BY DEF Good, ReadsType, ZoneType
  <2> HIDE DEF a
  <2>3. Good(a) /\ Beside(s, a)
    BY <2>2, AsideGood
  <2>4. Good(c) /\ Beside(a, c)
    BY <1>4, <2>2, <2>3, ReadSceneGood DEF Good, Visited
  <2> HIDE DEF c
  <2> DEFINE f == c.zone.found \/ found
  <2>5. f \in BOOLEAN /\ u = [c EXCEPT !.zone.found = f]
    BY <2>4 DEF Good, ReadsType, ZoneType
  <2> HIDE DEF u, f
  <2>6. /\ u \in ReadsType
        /\ u.fall = c.fall /\ u.path = c.path /\ u.vlm = c.vlm /\ u.state = c.state /\ u.told = c.told
        /\ u.zone.pending = c.zone.pending /\ u.zone.wait = c.zone.wait /\ u.zone.open = c.zone.open
        /\ u.zone.concluded = c.zone.concluded /\ u.zone.done = c.zone.done
        /\ u.zone.asked = c.zone.asked /\ u.zone.suspects = c.zone.suspects
        /\ u.zone.hazards = c.zone.hazards /\ u.zone.votes = c.zone.votes /\ u.zone.backed = c.zone.backed
    BY <2>4, <2>5 DEF Good, ReadsType, ZoneType
  <2>7. Good(u) /\ Beside(c, u)
    BY <2>4, <2>6, AsideGood
  <2>8. Beside(s, u)
    BY <2>3, <2>4, <2>7, BesideSteps
  <2>9. Good(Leave(u, FALSE, heard)) /\ Beside(s, Leave(u, FALSE, heard))
    BY <1>1, <2>7, <2>8, BesideSteps
  <2> QED
    BY <2>1, <2>7, <2>8, <2>9
<1> QED
  BY <1>2, <1>3, <1>4

LEMMA ZoneInspectGood ==
    ASSUME NEW s0, Good(s0), NEW away \in BOOLEAN, NEW arrives, NEW turned, NEW over,
           NEW found \in BOOLEAN, NEW heard \in BOOLEAN, NEW again
    PROVE  /\ Good(ZoneInspect(s0, away, arrives, turned, over, found, heard, again))
           /\ Beside(s0, ZoneInspect(s0, away, arrives, turned, over, found, heard, again))
<1> DEFINE s == ZoneTake(s0, away, again)
           t == IF Departed(s) THEN Leave(s, TRUE, heard) ELSE s
           o == t.zone.open /\ ~away
           p == [t EXCEPT !.zone.open = o]
           r == ZoneInspect(s0, away, arrives, turned, over, found, heard, again)
<1>1. Good(s) /\ Beside(s0, s)
  BY ZoneTakeGood
<1>2. r = CASE t.state = "PATROL" ->
                 IF arrives /\ heard THEN Arrive(t) ELSE [t EXCEPT !.zone.open = @ /\ ~away]
            [] t.state = "ZONE_INSPECT" /\ t.zone.open -> Visit(t, away, turned, over, found, heard)
            [] OTHER -> t
  BY DEF ZoneInspect
<1> HIDE DEF s, r
<1>3. Good(t) /\ Beside(s, t) /\ (t.state = "PATROL" => t.zone.hazards = {} /\ ~Waits(t.zone.wait))
  <2>1. CASE Departed(s)
    <3>1. Good(t) /\ Beside(s, t) /\ t.zone.concluded
      BY <1>1, <2>1, LeaveGood DEF Departed
    <3> QED
      BY <3>1 DEF Good, Visited
  <2>2. CASE ~Departed(s)
    BY <1>1, <2>2 DEF Departed, Good, Visited, Beside, Kept
  <2> QED
    BY <2>1, <2>2
<1> HIDE DEF t
<1>4. Good(t) /\ Beside(s0, t)
  BY <1>1, <1>3, BesideSteps
<1>5. ASSUME t.state = "PATROL" PROVE Good(p) /\ Beside(t, p)
  <2>1. o \in BOOLEAN
    BY <1>3 DEF Good, ReadsType, ZoneType
  <2> HIDE DEF o
  <2>2. /\ p \in ReadsType
        /\ p.fall = t.fall /\ p.path = t.path /\ p.vlm = t.vlm /\ p.state = t.state /\ p.told = t.told
        /\ p.zone.pending = t.zone.pending /\ p.zone.wait = t.zone.wait
        /\ p.zone.concluded = t.zone.concluded /\ p.zone.done = t.zone.done
        /\ p.zone.asked = t.zone.asked /\ p.zone.suspects = t.zone.suspects
        /\ p.zone.hazards = t.zone.hazards /\ p.zone.votes = t.zone.votes /\ p.zone.backed = t.zone.backed
    BY <1>3, <2>1 DEF Good, ReadsType, ZoneType
  <2> HIDE DEF p
  <2>3. Owned(p) /\ Crossed(p)
    BY <1>3, <2>2 DEF Good, Owned, Crossed
  <2>4. Visited(p)
    BY <1>3, <1>5, <2>2 DEF Good, Visited
  <2> QED
    BY <2>2, <2>3, <2>4 DEF Good, Beside, Kept
<1>6. t.state = "PATROL" => Good(Arrive(t)) /\ Beside(t, Arrive(t))
  BY <1>3, ArriveGood
<1>7. t.state = "ZONE_INSPECT" /\ t.zone.open =>
        /\ Good(Visit(t, away, turned, over, found, heard))
        /\ Beside(t, Visit(t, away, turned, over, found, heard))
  BY <1>3, VisitGood
<1>8. [t EXCEPT !.zone.open = @ /\ ~away] = p
  BY <1>3 DEF Good, ReadsType, ZoneType
<1> HIDE DEF p
<1> SUFFICES Good(r) /\ Beside(t, r)
  BY <1>4, BesideSteps DEF r
<1>9. CASE t.state = "PATROL"
  BY <1>2, <1>5, <1>6, <1>8, <1>9
<1>10. CASE t.state # "PATROL"
  BY <1>2, <1>3, <1>7, <1>10 DEF Beside, Kept
<1> QED
  BY <1>9, <1>10

------------------------------------------------------------------------------
\* The steps.

LEMMA OlderWaits ==
    ASSUME NEW most \in Nat \ {0}, NEW n \in Ages(most)
    PROVE  Older(n, most) \in Ages(most) /\ (Waits(Older(n, most)) <=> Waits(n))
BY DEF Ages, Waits, Older, Off

\* What one call of the loop does to the hazards and to the blocked path.
Called ==
    /\ Good(reads')
    /\ reads.zone.hazards \subseteq reads'.zone.hazards \cup reads'.told
    /\ Waits(reads.path.wait) =>
         \/ "blocked" \in reads'.told
         \/ /\ Waits(reads'.path.wait)
            /\ piece = "blocked" /\ piece' = "watch" =>
                 \/ reads'.path.wait < PathWait
                 \/ ~reads.path.submitted /\ reads'.path.submitted

LEMMA FreshGood ==
    ASSUME Good(reads)
    PROVE  /\ Good(Fresh) /\ Fresh.fall = reads.fall /\ Fresh.zone = reads.zone
           /\ Fresh.path = reads.path /\ Fresh.vlm = reads.vlm /\ Fresh.state = reads.state
           /\ Fresh.told = {}
<1>1. Fresh \in ReadsType
  BY DEF Good, ReadsType, ZoneType, Fresh
<1>2. /\ Fresh.fall = reads.fall /\ Fresh.zone = reads.zone /\ Fresh.vlm = reads.vlm
      /\ Fresh.path = reads.path /\ Fresh.state = reads.state /\ Fresh.told = {}
  BY DEF Good, ReadsType, Fresh
<1>3. Owned(Fresh) /\ Crossed(Fresh) /\ Visited(Fresh)
  BY <1>2 DEF Good, Owned, Crossed, Visited
<1> QED
  BY <1>1, <1>2, <1>3 DEF Good

LEMMA BesideCalled ==
    ASSUME Good(reads), Good(reads'), Beside(Fresh, reads'), ~(piece = "blocked" /\ piece' = "watch")
    PROVE  Called
BY FreshGood DEF Called, Beside, Kept

LEMMA PollCalled ==
    ASSUME Good(reads), Poll
    PROVE  Called
<1> DEFINE f == Fresh
           a == Older(f.path.wait, PathWait)
           b == Older(f.fall.cross, Budget)
           c == Older(f.fall.rule, Budget)
           d == Older(f.zone.wait, Budget)
           o == [f EXCEPT !.path.wait = a, !.fall.cross = b, !.fall.rule = c, !.zone.wait = d]
<1>1. Good(f) /\ f.zone = reads.zone /\ f.path = reads.path
  BY FreshGood
<1>2. f \in ReadsType /\ Budget \in Nat \ {0} /\ PathWait \in Nat \ {0}
  BY <1>1, ReadingsAssumption DEF Good
<1>3. reads' = PathPoll(o)
  BY <1>2 DEF Poll, ReadsType, ZoneType
<1> HIDE DEF f
<1>4. /\ a \in Ages(PathWait) /\ b \in Ages(Budget) /\ c \in Ages(Budget) /\ d \in Ages(Budget)
      /\ Waits(a) <=> Waits(f.path.wait)
      /\ Waits(b) <=> Waits(f.fall.cross)
      /\ Waits(d) <=> Waits(f.zone.wait)
  BY <1>2, OlderWaits DEF ReadsType, ZoneType
<1> HIDE DEF a, b, c, d
<1>5. o \in ReadsType
  BY <1>2, <1>4 DEF ReadsType, ZoneType
<1>6. /\ o.vlm = f.vlm /\ o.state = f.state /\ o.told = f.told
      /\ o.path.wait = a /\ o.path.submitted = f.path.submitted /\ o.path.draining = f.path.draining
      /\ o.fall.cross = b /\ o.fall.pending = f.fall.pending /\ o.fall.seen = f.fall.seen
      /\ o.fall.reported = f.fall.reported /\ o.fall.verdicts = f.fall.verdicts
  BY <1>2, <1>4 DEF ReadsType
<1>7. /\ o.zone.pending = f.zone.pending /\ o.zone.wait = d /\ o.zone.open = f.zone.open
      /\ o.zone.concluded = f.zone.concluded /\ o.zone.done = f.zone.done
      /\ o.zone.asked = f.zone.asked /\ o.zone.suspects = f.zone.suspects
      /\ o.zone.hazards = f.zone.hazards /\ o.zone.votes = f.zone.votes /\ o.zone.backed = f.zone.backed
  BY <1>2, <1>4 DEF ReadsType, ZoneType
<1> HIDE DEF o
<1>8. Owned(o) /\ Crossed(o)
  BY <1>1, <1>4, <1>6, <1>7 DEF Good, Owned, Crossed
<1>9. Visited(o)
  BY <1>1, <1>4, <1>6, <1>7 DEF Good, Visited
<1>10. Good(o)
  BY <1>5, <1>8, <1>9 DEF Good
<1>11. Good(reads') /\ Kept(o, reads') /\ PathWaits(o, reads')
  BY <1>3, <1>10, PathPollGood
<1> QED
  BY <1>1, <1>4, <1>6, <1>7, <1>11 DEF Called, Kept, PathWaits

LEMMA ReaderCalled ==
    ASSUME Good(reads),
           Load \/ (\E slot : Read(slot)) \/ (\E to \in {"PATROL", "ALERT", "OTHER"} : Move(to))
    PROVE  Called
<1> DEFINE f == Fresh
<1>1. Good(f) /\ f.vlm = reads.vlm /\ f \in ReadsType
  BY FreshGood DEF Good
<1>2. Good(reads') /\ Beside(f, reads')
  <2>1. CASE Load
    <3>1. reads' = [f EXCEPT !.vlm.loaded = TRUE]
      BY <2>1 DEF Load
    <3> HIDE DEF f
    <3>2. /\ reads' \in ReadsType
          /\ reads'.fall = f.fall /\ reads'.zone = f.zone /\ reads'.path = f.path
          /\ reads'.state = f.state /\ reads'.told = f.told /\ reads'.vlm.busy = f.vlm.busy
          /\ reads'.vlm.by = f.vlm.by /\ reads'.vlm.slot = f.vlm.slot /\ reads'.vlm.late = f.vlm.late
      BY <1>1, <3>1 DEF ReadsType
    <3>3. Owned(reads') /\ Crossed(reads') /\ Visited(reads')
      BY <1>1, <3>2 DEF Good, Owned, Crossed, Visited
    <3> QED
      BY <3>2, <3>3 DEF Good, Beside, Kept
  <2>2. ASSUME NEW slot, Read(slot) PROVE Good(reads') /\ Beside(f, reads')
    <3> DEFINE n == IF slot = {} THEN f.vlm.slot ELSE slot
    <3>1. f.vlm.busy /\ n \in SUBSET SUBSET Keys("zone")
      <4>1. Keys(reads.vlm.by) \subseteq Keys("zone")
        BY DEF Keys
      <4>2. reads.vlm.busy /\ slot \in SUBSET SUBSET Keys("zone")
        BY <2>2, <4>1 DEF Read
      <4>3. f.vlm.slot \in SUBSET SUBSET Keys("zone")
        BY <1>1 DEF ReadsType
      <4> QED
        BY <1>1, <4>2, <4>3
    <3>2. reads' = [f EXCEPT !.vlm.busy = FALSE, !.vlm.slot = n]
      BY <1>1, <2>2 DEF Read, ReadsType
    <3> HIDE DEF f, n
    <3>3. /\ reads' \in ReadsType
          /\ reads'.fall = f.fall /\ reads'.zone = f.zone /\ reads'.path = f.path
          /\ reads'.state = f.state /\ reads'.told = f.told
          /\ reads'.vlm.by = f.vlm.by /\ reads'.vlm.late = f.vlm.late
      BY <1>1, <3>1, <3>2 DEF ReadsType
    <3>4. Owned(reads') /\ Crossed(reads') /\ Visited(reads')
      BY <1>1, <3>1, <3>3 DEF Good, Owned, Crossed, Visited
    <3> QED
      BY <3>3, <3>4 DEF Good, Beside, Kept
  <2>3. ASSUME NEW to \in {"PATROL", "ALERT", "OTHER"}, Move(to) PROVE Good(reads') /\ Beside(f, reads')
    <3>1. reads' = [f EXCEPT !.state = to]
      BY <2>3 DEF Move
    <3> HIDE DEF f
    <3>2. /\ reads' \in ReadsType
          /\ reads'.fall = f.fall /\ reads'.zone = f.zone /\ reads'.path = f.path
          /\ reads'.state = to /\ reads'.told = f.told /\ reads'.vlm = f.vlm
      BY <1>1, <3>1 DEF ReadsType
    <3>3. Owned(reads') /\ Crossed(reads') /\ Visited(reads')
      BY <1>1, <3>2 DEF Good, Owned, Crossed, Visited
    <3> QED
      BY <3>2, <3>3 DEF Good, Beside, Kept
  <2> QED
    BY <2>1, <2>2, <2>3
<1>3. ~(piece = "blocked" /\ piece' = "watch")
  BY DEF Load, Read, Move
<1> QED
  BY <1>2, <1>3, BesideCalled

LEMMA InspectCalled ==
    ASSUME Good(reads), \E a, v, d, e, f, h, g \in BOOLEAN : Inspect(a, v, d, e, f, h, g)
    PROVE  Called
<1>1. PICK a, v, d, e, f, h, g \in BOOLEAN : Inspect(a, v, d, e, f, h, g)
  OBVIOUS
<1>2. reads' = ZoneInspect(Fresh, a, v, d, e, f, h, g) /\ piece = "inspect"
  BY <1>1 DEF Inspect
<1>3. Good(reads') /\ Beside(Fresh, reads')
  BY <1>2, FreshGood, ZoneInspectGood
<1> QED
  BY <1>2, <1>3, BesideCalled

\* Every step keeps the invariant, the hazards and the blocked path.
LEMMA NextCalled ==
    ASSUME Good(reads), [ReadsNext]_readsVars
    PROVE  Called
<1>1. Good(Fresh) /\ Fresh.path = reads.path /\ Fresh.zone = reads.zone
  BY FreshGood
<1>2. ASSUME NEW p \in BOOLEAN, Blocked(p) PROVE Called
  BY <1>1, <1>2, PathBlockedGood DEF Blocked, Called, Kept
<1>3. CASE Poll
  BY <1>3, PollCalled
<1>4. ASSUME NEW p \in BOOLEAN, NEW t \in BOOLEAN, Watch(p, t) PROVE Called
  BY <1>1, <1>4, FallWatchGood, BesideCalled DEF Watch
<1>5. ASSUME NEW l \in BOOLEAN, NEW g \in BOOLEAN, Take(l, g) PROVE Called
  <2> DEFINE s == FallTake(Fresh, g)
  <2>1. Good(s) /\ Beside(Fresh, s)
    BY <1>1, FallTakeGood
  <2>2. reads' = (IF l THEN Suspect(s, g) ELSE s) /\ piece = "take"
    BY <1>5 DEF Take
  <2> HIDE DEF s
  <2>3. Good(Suspect(s, g)) /\ Beside(s, Suspect(s, g))
    BY <2>1, SuspectGood DEF Beside
  <2>4. Good(reads') /\ Beside(Fresh, reads')
    BY <2>1, <2>2, <2>3, BesideSteps
  <2> QED
    BY <2>2, <2>4, BesideCalled
<1>6. ASSUME NEW r \in BOOLEAN, NEW d \in BOOLEAN, Ask(r, d) PROVE Called
  BY <1>1, <1>6, FallAskGood, BesideCalled DEF Ask
<1>7. CASE Load \/ (\E slot : Read(slot)) \/ (\E to \in {"PATROL", "ALERT", "OTHER"} : Move(to))
  BY <1>7, ReaderCalled
<1>8. CASE UNCHANGED readsVars
  BY <1>8 DEF readsVars, Called
<1>9. CASE ReadsNext
  <2>1. (\E p \in BOOLEAN : Blocked(p)) \/ Poll \/ (\E p, t \in BOOLEAN : Watch(p, t)) => Called
    BY <1>2, <1>3, <1>4
  <2>2. (\E l, g \in BOOLEAN : Take(l, g)) \/ (\E r, d \in BOOLEAN : Ask(r, d)) => Called
    BY <1>5, <1>6
  <2>3. (\E a, v, d, e, f, h, g \in BOOLEAN : Inspect(a, v, d, e, f, h, g)) => Called
    BY InspectCalled
  <2>4. \/ (\E p \in BOOLEAN : Blocked(p)) \/ Poll \/ (\E p, t \in BOOLEAN : Watch(p, t))
        \/ (\E l, g \in BOOLEAN : Take(l, g)) \/ (\E r, d \in BOOLEAN : Ask(r, d))
        \/ (\E a, v, d, e, f, h, g \in BOOLEAN : Inspect(a, v, d, e, f, h, g))
        \/ Load \/ (\E slot : Read(slot)) \/ (\E to \in {"PATROL", "ALERT", "OTHER"} : Move(to))
    BY <1>9, Zenon DEF ReadsNext
  <2> QED
    BY <1>7, <2>1, <2>2, <2>3, <2>4
<1> QED
  BY <1>8, <1>9

LEMMA StartGood == ReadsInit => Good(reads)
<1> SUFFICES ASSUME ReadsInit PROVE Good(reads)
  OBVIOUS
<1>1. [k \in Hazards |-> 0] \in [Hazards -> 0..2]
  OBVIOUS
<1>2. reads \in ReadsType
  BY <1>1, AgesHold DEF ReadsInit, ReadsType, ZoneType
<1>3. Owned(reads) /\ Crossed(reads) /\ Visited(reads)
  BY AgesHold DEF ReadsInit, Owned, Crossed, Visited
<1> QED
  BY <1>2, <1>3 DEF Good

------------------------------------------------------------------------------
\* The invariant of every reachable state: the question has one owner, a rule's
\* picture one verdict, and what a visit waits for belongs to it.
THEOREM Invariance == ReadsSpec => []Good(reads)
<1>1. Good(reads) /\ [ReadsNext]_readsVars => Good(reads)'
  BY NextCalled DEF Called
<1> QED
  BY <1>1, StartGood, PTL DEF ReadsSpec

\* An answer is taken by who asked for it.
THEOREM AnswersOwned == ReadsSpec => []OneOwner
<1>1. Good(reads) => OneOwner
  <2> SUFFICES ASSUME Good(reads) PROVE OneOwner
    OBVIOUS
  <2>1. Claims = {reads.vlm.by} \ {"none"}
    BY DEF Good, Owned, ReadsType, Claims
  <2> QED
    BY <2>1 DEF OneOwner, Good, Owned
<1> QED
  BY <1>1, Invariance, PTL

\* A hazard is confirmed by two answers to questions of one visit.
THEOREM ConfirmedTwice == ReadsSpec => []TwoAnswers
<1>1. Good(reads) => TwoAnswers
  BY DEF Good, Visited, TwoAnswers
<1> QED
  BY <1>1, Invariance, PTL

\* One verdict on each person the rule judged to be down.
THEOREM JudgedOnce == ReadsSpec => []CrossJudgedOnce
<1>1. Good(reads) => CrossJudgedOnce
  BY DEF Good, Crossed, CrossJudgedOnce
<1> QED
  BY <1>1, Invariance, PTL

\* What is confirmed is told before it is forgotten.
THEOREM ConfirmedIsTold == ReadsSpec => HazardTold
<1>1. Good(reads) /\ [ReadsNext]_readsVars =>
        [reads.zone.hazards \subseteq reads'.zone.hazards \cup reads'.told]_readsVars
  BY NextCalled DEF Called
<1> QED
  BY <1>1, Invariance, PTL DEF ReadsSpec, HazardTold

\* A blocked path is told at its deadline, whatever the reader does.
THEOREM BlockedIsTold == ReadsSpec => BlockageTold
<1>1. Good(reads) /\ [ReadsNext]_readsVars =>
        [ Waits(reads.path.wait) =>
            \/ "blocked" \in reads'.told
            \/ /\ Waits(reads'.path.wait)
               /\ piece = "blocked" /\ piece' = "watch" =>
                    \/ reads'.path.wait < PathWait
                    \/ ~reads.path.submitted /\ reads'.path.submitted ]_readsVars
  BY NextCalled DEF Called
<1> QED
  BY <1>1, Invariance, PTL DEF ReadsSpec, BlockageTold
==============================================================================

------------------------------ MODULE Readings ------------------------------
(***************************************************************************)
(* One picture reader, three who ask: src/host/vision/vlm_worker.py holds  *)
(* one thread and one slot for its answer, and tells nobody whose answer   *)
(* it is.  The fall monitor (behavior/fall_monitor.py), the zone inspector *)
(* (zone_inspector.py) and the cause of a blocked path (path_cause.py)     *)
(* share it by looking at each other before they ask.                      *)
(*                                                                         *)
(* They all run on the loop, in the order of Runtime.tick: obstacles       *)
(* (Blocked), PathCause.poll (Poll), FallMonitor.watch (Watch), and for a  *)
(* new picture take_reading (Take), inspect (Inspect) and ask (Ask).  The  *)
(* reader's thread ends, and the state of the robot changes, between any   *)
(* two.  The mission is the factory's, where all three are switched on.    *)
(***************************************************************************)
EXTENDS Integers, FiniteSets

CONSTANTS
    Budget,     \* vision.vlm.budget_ms, in ticks
    PathWait    \* path_cause_wait_ms, in ticks

ASSUME ReadingsAssumption == {Budget, PathWait} \subseteq Nat \ {0}

VARIABLES
    reads,  \* [vlm, fall, zone, path, state, told], see ReadsType; told is what the
            \* last step has recorded for the control room
    piece   \* the call of Runtime.tick that is next

readsVars == <<reads, piece>>

\* What a picture may be answered to show: a person on the ground, a hazard that
\* raises L3 (a fallen object), one that is only told (a blocked path, a lighter).
\* The cause of a blocked path is only passed on.
Hazards == {"alarm", "light"}
Keys(by) == CASE by = "zone" -> {"person"} \cup Hazards [] by = "path" -> {} [] OTHER -> {"person"}

Off == -1
Waits(n) == n # Off
Older(n, most) == IF Waits(n) /\ n < most THEN n + 1 ELSE n

\* vlm: by is whose question is in the thread or its answer in the slot, late that
\* he gave it up; neither is in the code.
ReadsInit ==
    /\ reads = [vlm   |-> [loaded |-> FALSE, busy |-> FALSE, slot |-> {}, by |-> "none", late |-> FALSE],
                fall  |-> [suspected |-> FALSE, confirmed |-> FALSE, pending |-> "none", cross |-> Off,
                           reported |-> FALSE, seen |-> FALSE, rule |-> Off, verdicts |-> 0],
                zone  |-> [open |-> FALSE, concluded |-> FALSE, done |-> FALSE, aligned |-> FALSE,
                           asked |-> FALSE, pending |-> FALSE, wait |-> Off,
                           suspects |-> {}, hazards |-> {}, found |-> FALSE,
                           votes |-> [k \in Hazards |-> 0], backed |-> TRUE],
                path  |-> [wait |-> Off, submitted |-> FALSE, draining |-> FALSE],
                state |-> "PATROL", told |-> {}]
    /\ piece = "blocked"

------------------------------------------------------------------------------
\* The reader.

\* submit: refused while a thread is alive, or without a model.
Submits(s) == s.vlm.loaded /\ ~s.vlm.busy
Submit(s, who) == [s EXCEPT !.vlm.busy = TRUE, !.vlm.by = who, !.vlm.late = FALSE]
\* take; an empty slot is the answer of a thread that failed.
Taken(s) == [s EXCEPT !.vlm.slot = {}, !.vlm.by = "none", !.vlm.late = FALSE]
Answer(s) == UNION s.vlm.slot

FallWaiting(s) == s.fall.pending # "none" \/ Waits(s.fall.cross)
PathWaiting(s) == Waits(s.path.wait) \/ s.path.draining

Tell(s, what) == [s EXCEPT !.told = @ \cup {what}]

------------------------------------------------------------------------------
\* PathCause.

SubmitPath(s) == [Submit(s, "path") EXCEPT !.path.submitted = TRUE]
MayAskPath(s) == ~s.path.draining /\ ~FallWaiting(s) /\ ~s.zone.pending /\ Submits(s)
Finish(s) == [Tell(s, "blocked") EXCEPT !.path.wait = Off, !.path.submitted = FALSE]

\* blocked; "picture" is a picture young enough to be asked about.
PathBlocked(s, picture) ==
    IF ~picture \/ ~s.vlm.loaded \/ Waits(s.path.wait) THEN Tell(s, "blocked")
    ELSE LET t == [s EXCEPT !.path.wait = 0, !.path.submitted = FALSE]
         IN  IF MayAskPath(t) THEN SubmitPath(t) ELSE t

\* A deadline that is missed by one, and so never met.
PathOverLate(s) == s.path.wait > PathWait

PathOver(s) == s.path.wait >= PathWait

\* poll; who gives up a question keeps the slot until its answer is thrown away.
PathPoll(s0) ==
    LET s == IF s0.path.draining /\ ~s0.vlm.busy
             THEN [Taken(s0) EXCEPT !.path.draining = FALSE] ELSE s0
    IN  CASE ~Waits(s.path.wait) -> s
          [] ~s.path.submitted /\ Waits(s.path.wait) ->
               IF MayAskPath(s) THEN SubmitPath(s) ELSE IF PathOver(s) THEN Finish(s) ELSE s
          [] s.path.submitted /\ Waits(s.path.wait) ->
               IF ~s.vlm.busy THEN Finish(Taken(s))
               ELSE IF PathOver(s) THEN [Finish(s) EXCEPT !.path.draining = TRUE, !.vlm.late = TRUE]
               ELSE s

------------------------------------------------------------------------------
\* FallMonitor.

\* suspect; "again" says that the time without a new suspicion is over.
Suspect(s, again) ==
    IF s.fall.suspected \/ ~again \/ s.state \notin {"PATROL", "ZONE_INSPECT", "ALERT"} THEN s
    ELSE [s EXCEPT !.state = "ALERT", !.fall.suspected = TRUE, !.fall.confirmed = FALSE]

\* _cross_result: a verdict on the rule's picture; verdicts counts those of one rule.
Judge(s, yes) ==
    [Tell(s, "verdict") EXCEPT !.fall.confirmed = @ \/ yes, !.fall.verdicts = @ + 1]

\* take_cross_reading; reported is forgotten with the question (the code resets it
\* with the next one).
TakeCross(s) ==
    LET over == s.fall.cross >= Budget
    IN  IF ~Waits(s.fall.cross) THEN s
        ELSE IF s.vlm.busy
        THEN IF over /\ ~s.fall.reported
             THEN [Judge(s, FALSE) EXCEPT !.fall.reported = TRUE, !.vlm.late = TRUE] ELSE s
        ELSE LET t == [Taken(s) EXCEPT !.fall.cross = Off, !.fall.reported = FALSE]
             IN  IF s.fall.reported THEN t ELSE Judge(t, ~over /\ "person" \in Answer(s))

\* A verdict that leaves the picture open to a second one.
RuleOverAgain(s) == Judge(s, FALSE)

\* The rule's picture was not asked about in time.
RuleOver(s) == [Judge(s, FALSE) EXCEPT !.fall.seen = TRUE]

\* watch; _end when the scene was left, resolve when the suspicion has lasted too long.
FallWatch(s0, timeout) ==
    LET s == TakeCross(s0)
        t == IF ~s.fall.seen /\ s.fall.rule >= Budget THEN RuleOver(s) ELSE s
        tracking == t.state = "ALERT"
        ends == t.fall.suspected /\ (~tracking \/ (timeout /\ ~t.fall.confirmed))
    IN  IF ends THEN [t EXCEPT !.fall.suspected = FALSE, !.fall.confirmed = FALSE,
                               !.state = IF tracking THEN "PATROL" ELSE @]
        ELSE t

\* take_reading: what was asked under a suspicion that is over starts no new one.
FallTake(s0, again) ==
    LET s == TakeCross(s0)
    IN  IF Waits(s.fall.cross) \/ s.fall.pending = "none" \/ s.vlm.busy THEN s
        ELSE LET t == [Taken(s) EXCEPT !.fall.pending = "none"]
             IN  IF "person" \in Answer(s) /\ s.fall.pending = "patrol" THEN Suspect(t, again) ELSE t

\* Asked without a look at the path's question.
MayAskFallAnyway(s) == s.fall.pending = "none" /\ ~s.zone.pending /\ Submits(s)

MayAskFall(s) == s.fall.pending = "none" /\ ~s.zone.pending /\ ~PathWaiting(s) /\ Submits(s)

\* _ask_cross: the same picture until it could be asked about.
AskCross(s) ==
    IF s.fall.seen \/ Waits(s.fall.cross) THEN s
    ELSE LET t == IF Waits(s.fall.rule) THEN s ELSE [s EXCEPT !.fall.rule = 0]
         IN  IF t.fall.rule >= Budget THEN RuleOver(t)
             ELSE IF MayAskFall(t)
             THEN [Submit(t, "cross") EXCEPT !.fall.cross = 0, !.fall.seen = TRUE]
             ELSE t

\* ask; "rule" says that the rule has judged the person to be down, "due" that a
\* question of the patrol is due.
FallAsk(s, rule, due) ==
    IF rule THEN AskCross(s)
    ELSE IF Waits(s.fall.cross) THEN s
    ELSE LET t == [s EXCEPT !.fall.seen = FALSE, !.fall.rule = Off, !.fall.verdicts = 0]
             wanted == IF t.fall.suspected THEN ~t.fall.confirmed ELSE t.state = "PATROL" /\ due
         IN  IF wanted /\ MayAskFall(t)
             THEN [Submit(t, "fall") EXCEPT !.fall.pending = IF t.fall.suspected THEN "suspect" ELSE "patrol"]
             ELSE t

------------------------------------------------------------------------------
\* ZoneInspector.

SubmitZone(s) == [Submit(s, "zone") EXCEPT !.zone.pending = TRUE, !.zone.wait = 0]

\* The second answer speaks for itself.
BothOrLast(first, second) == second

\* What the second answer has in common with the first.
Both(first, second) == first \cap second

\* _take_reading: a hazard is confirmed by two answers of one visit; votes counts
\* the answers to what was asked in this visit.
ZoneTake(s, away, again) ==
    IF ~s.zone.pending \/ s.vlm.busy THEN s
    ELSE LET mine == Waits(s.zone.wait)
             said == Answer(s) \cap Hazards
             read == s.vlm.slot # {}
             t == [Taken(s) EXCEPT
                     !.zone.pending = FALSE, !.zone.wait = Off,
                     !.zone.votes = [k \in Hazards |->
                        IF mine /\ ~s.vlm.late /\ k \in said /\ @[k] < 2 THEN @[k] + 1 ELSE @[k]]]
             u == CASE ~(mine /\ read) -> t
                    [] mine /\ read /\ s.zone.suspects # {} ->
                         [t EXCEPT !.zone.hazards = Both(s.zone.suspects, said), !.zone.suspects = {}]
                    [] mine /\ read /\ s.zone.suspects = {} ->
                         IF said # {} /\ s.state = "ZONE_INSPECT" /\ ~away /\ Submits(t)
                         THEN [SubmitZone(t) EXCEPT !.zone.suspects = said] ELSE t
         IN  IF "person" \in Answer(s) THEN Suspect(u, again) ELSE u

\* _leave, where every visit is concluded; backed remembers for TwoAnswers whether all
\* that was told had its two answers; "heard" says that the FSM takes the event.
Leave(s0, departed, heard) ==
    LET s == [s0 EXCEPT !.zone.done = TRUE]
        light == s.zone.found \/ "light" \in s.zone.hazards
        alarm == "alarm" \in s.zone.hazards
        left == [s.zone EXCEPT
                   !.wait = Off, !.found = FALSE, !.hazards = {}, !.concluded = TRUE,
                   !.backed = @ /\ \A k \in s.zone.hazards : s.zone.votes[k] = 2,
                   !.votes = IF departed \/ heard THEN [k \in Hazards |-> 0] ELSE @,
                   !.asked = @ /\ alarm]
        told == s.told \cup (IF light THEN {"light"} ELSE {}) \cup (IF alarm THEN {"alarm"} ELSE {})
        to == IF departed \/ ~heard THEN s.state ELSE IF alarm THEN "ALERT" ELSE "PATROL"
    IN  IF ~departed /\ Waits(s.zone.wait) /\ s.zone.wait < Budget THEN s
        ELSE [s EXCEPT !.zone = left, !.told = told, !.state = to]

\* A visit that is broken off is not concluded.
DepartedNever(s) == FALSE

\* Another event has ended the visit.
Departed(s) == s.zone.open /\ ~s.zone.concluded /\ s.state # "ZONE_INSPECT"

\* The head of inspect when PATROL has come to another zone.
Arrive(s) ==
    [s EXCEPT !.state = "ZONE_INSPECT", !.vlm.late = @ \/ s.zone.pending,
              !.zone = [@ EXCEPT !.open = TRUE, !.concluded = FALSE, !.done = FALSE,
                                 !.aligned = FALSE, !.asked = FALSE, !.wait = Off,
                                 !.suspects = {}, !.hazards = {}, !.found = FALSE,
                                 !.votes = [k \in Hazards |-> 0]]]

\* _read_scene: once per visit, and not before the answer to an earlier visit is taken.
ReadScene(s) ==
    IF s.zone.asked \/ FallWaiting(s) \/ PathWaiting(s) THEN s
    ELSE LET t == [s EXCEPT !.zone.asked = TRUE]
         IN  IF ~t.zone.pending /\ Submits(t) THEN SubmitZone(t) ELSE t

\* The tail of inspect; "turned" says that the robot looks where it should, "over" that
\* the time to turn or to look is over, or that there are pictures enough, "found" that
\* the detector has confirmed something.
Visit(s, away, turned, over, found, heard) ==
    IF away \/ s.zone.done THEN Leave(s, FALSE, heard)
    ELSE IF ~s.zone.aligned /\ ~turned
    THEN IF over THEN Leave(s, FALSE, heard) ELSE s
    ELSE LET u == [ReadScene([s EXCEPT !.zone.aligned = TRUE]) EXCEPT !.zone.found = @ \/ found]
         IN  IF over THEN Leave(u, FALSE, heard) ELSE u

\* inspect.  In PATROL, "away" says that the last zone was left behind.
ZoneInspect(s0, away, arrives, turned, over, found, heard, again) ==
    LET s == ZoneTake(s0, away, again)
        t == IF Departed(s) THEN Leave(s, TRUE, heard) ELSE s
    IN  CASE t.state = "PATROL" ->
               IF arrives /\ heard THEN Arrive(t) ELSE [t EXCEPT !.zone.open = @ /\ ~away]
          [] t.state = "ZONE_INSPECT" /\ t.zone.open -> Visit(t, away, turned, over, found, heard)
          [] OTHER -> t

------------------------------------------------------------------------------
\* Steps.  A call of the loop starts with nothing told.

Fresh == [reads EXCEPT !.told = {}]

\* ScanRelay.record_path_blocked, while patrolling.
Blocked(picture) ==
    /\ piece = "blocked" /\ reads.state = "PATROL"
    /\ reads' = PathBlocked(Fresh, picture) /\ UNCHANGED piece

\* A tick starts: everything has waited for one more.
Poll ==
    /\ piece = "blocked" /\ piece' = "watch"
    /\ reads' = PathPoll([Fresh EXCEPT !.path.wait = Older(@, PathWait),
                                       !.fall.cross = Older(@, Budget), !.fall.rule = Older(@, Budget),
                                       !.zone.wait = Older(@, Budget)])

Watch(picture, timeout) ==
    /\ piece = "watch" /\ piece' = (IF picture THEN "take" ELSE "blocked")
    /\ reads' = FallWatch(Fresh, timeout)

\* take_reading, and suspect for a detected lying person (Runtime._observe_fallen).
Take(lying, again) ==
    /\ piece = "take" /\ piece' = "inspect"
    /\ LET s == FallTake(Fresh, again) IN reads' = IF lying THEN Suspect(s, again) ELSE s

\* What is asked of the robot in one state only is not chosen in another.
Inspect(away, arrives, turned, over, found, heard, again) ==
    /\ piece = "inspect" /\ piece' = "ask"
    /\ arrives => reads.state = "PATROL"
    /\ turned \/ over \/ found => reads.state = "ZONE_INSPECT"
    /\ reads' = ZoneInspect(Fresh, away, arrives, turned, over, found, heard, again)

Ask(rule, due) ==
    /\ piece = "ask" /\ piece' = "blocked"
    /\ reads' = FallAsk(Fresh, rule, due)

\* VlmWorker.start has loaded the model; _run ends with an answer or with an exception.
Load ==
    /\ ~reads.vlm.loaded /\ reads' = [Fresh EXCEPT !.vlm.loaded = TRUE] /\ UNCHANGED piece

Read(slot) ==
    /\ reads.vlm.busy /\ slot \in {{}} \cup { {a} : a \in SUBSET Keys(reads.vlm.by) }
    /\ reads' = [Fresh EXCEPT !.vlm.busy = FALSE, !.vlm.slot = IF slot = {} THEN @ ELSE slot]
    /\ UNCHANGED piece

\* Every other event of the FSM: a person comes or goes, manual control, a failsafe.
Move(to) ==
    /\ to # reads.state
    /\ reads' = [Fresh EXCEPT !.state = to] /\ UNCHANGED piece

ReadsNext ==
    \/ \E p \in BOOLEAN : Blocked(p)
    \/ Poll
    \/ \E p, t \in BOOLEAN : Watch(p, t)
    \/ \E l, g \in BOOLEAN : Take(l, g)
    \/ \E a, v, d, e, f, h, g \in BOOLEAN : Inspect(a, v, d, e, f, h, g)
    \/ \E r, d \in BOOLEAN : Ask(r, d)
    \/ Load
    \/ \E slot \in {{}} \cup { {a} : a \in SUBSET Keys("zone") } : Read(slot)
    \/ \E to \in {"PATROL", "ALERT", "OTHER"} : Move(to)

\* Nothing is assumed to go on: the reader may hang, the camera may stop.
ReadsSpec == ReadsInit /\ [][ReadsNext]_readsVars

------------------------------------------------------------------------------
\* Properties.

Ages(most) == {Off} \cup 0..most
ZoneType ==
    [open : BOOLEAN, concluded : BOOLEAN, done : BOOLEAN, aligned : BOOLEAN,
     asked : BOOLEAN, pending : BOOLEAN, wait : Ages(Budget),
     suspects : SUBSET Hazards, hazards : SUBSET Hazards, found : BOOLEAN,
     votes : [Hazards -> 0..2], backed : BOOLEAN]
ReadsType ==
    [vlm   : [loaded : BOOLEAN, busy : BOOLEAN, slot : SUBSET SUBSET Keys("zone"),
              by : {"none", "fall", "cross", "zone", "path"}, late : BOOLEAN],
     fall  : [suspected : BOOLEAN, confirmed : BOOLEAN, pending : {"none", "patrol", "suspect"},
              cross : Ages(Budget), reported : BOOLEAN, seen : BOOLEAN, rule : Ages(Budget), verdicts : Nat],
     zone  : ZoneType,
     path  : [wait : Ages(PathWait), submitted : BOOLEAN, draining : BOOLEAN],
     state : {"PATROL", "ZONE_INSPECT", "ALERT", "OTHER"},
     told  : SUBSET {"blocked", "verdict", "light", "alarm"}]

ReadsTypeOK == reads \in ReadsType /\ piece \in {"blocked", "watch", "take", "inspect", "ask"}

\* Who believes that what is in the thread or in the slot is his.
Claims ==
    { who \in {"fall", "cross", "zone", "path"} :
        CASE who = "fall"  -> reads.fall.pending # "none"
          [] who = "cross" -> Waits(reads.fall.cross)
          [] who = "zone"  -> reads.zone.pending
          [] who = "path"  -> reads.path.submitted \/ reads.path.draining }

\* An answer is taken by who asked for it: the one question under way has one
\* claimant, an unread answer has one, and a path that waits for an answer never
\* waits for the answer about an earlier one (vlm_worker.py has no addressee).
OneOwner ==
    /\ Claims = {reads.vlm.by} \ {"none"}
    /\ reads.vlm.busy \/ reads.vlm.slot # {} => reads.vlm.by # "none"
    /\ reads.path.submitted => ~reads.path.draining /\ ~reads.vlm.late

\* A hazard is confirmed by two answers to questions of one visit (ADR-44).
TwoAnswers == reads.zone.backed /\ \A k \in reads.zone.hazards : reads.zone.votes[k] = 2

\* What is confirmed is told before it is forgotten, also when the visit is broken
\* off (zone_inspector.py, comment in inspect: it would never ring again).
HazardTold ==
    [][ reads.zone.hazards \subseteq reads'.zone.hazards \cup reads'.told ]_readsVars

\* One verdict, not none and not two, on each person the rule judged to be down,
\* whether the reader answers, answers late, is taken, or hangs.
CrossJudgedOnce ==
    /\ reads.fall.verdicts <= 1
    /\ reads.fall.seen /\ ~Waits(reads.fall.cross) => reads.fall.verdicts = 1

\* A blocked path is told, at its deadline whatever the reader does, or one tick
\* later when the question itself was only asked then; nothing drops it before.
BlockageTold ==
    [][ Waits(reads.path.wait) =>
          \/ "blocked" \in reads'.told
          \/ /\ Waits(reads'.path.wait)
             /\ piece = "blocked" /\ piece' = "watch" =>
                  \/ reads'.path.wait < PathWait
                  \/ ~reads.path.submitted /\ reads'.path.submitted ]_readsVars
==============================================================================

---------------------------- MODULE MCSensorPath ----------------------------
(***************************************************************************)
(* TLC instance of SensorPath, a clock that wraps and a sample that may    *)
(* grow stale before it is replaced, and of SampleHistory, all sequences   *)
(* of distance and of battery samples up to the bounds, long enough to     *)
(* engage, clear and engage again.  A behaviour is one of the two models,  *)
(* as part says; they share the operators of SafetyMonitor and no state.   *)
(***************************************************************************)
EXTENDS SensorPath, SampleHistory

VARIABLE part

sensorsVars == <<vars, historyVars, part>>

SensorsInit == /\ Init /\ HistoryInit /\ part \in {"path", "history"}
               /\ part = "history" => scene = "clear"

\* Both histories have their full length: the bound of the model, not a deadlock.
HistoryFull == Len(distances) = MaxDistances /\ Len(batteries) = MaxBatteries

OfPath(A) == part = "path" /\ A /\ UNCHANGED <<historyVars, part>>

SensorsNext ==
    \/ OfPath(Next)
    \/ part = "history" /\ HistoryNext /\ UNCHANGED <<vars, part>>
    \/ part = "history" /\ HistoryFull /\ UNCHANGED sensorsVars

\* The fairness of SensorPath; SampleHistory has none.
SensorsSpec ==
    /\ SensorsInit /\ [][SensorsNext]_sensorsVars
    /\ SF_sensorsVars(OfPath(Tick))
    /\ SF_sensorsVars(OfPath(AcquireSonar)) /\ SF_sensorsVars(OfPath(Publish))
    /\ WF_sensorsVars(OfPath(Capture)) /\ SF_sensorsVars(OfPath(Judge)) /\ SF_sensorsVars(OfPath(PassOver))
==============================================================================

---------------------------- MODULE SampleHistory ----------------------------
(***************************************************************************)
(* The monitor of SafetyMonitor fed one distinct sample at a time, beside  *)
(* the complete history of what it was fed.  The history gives the verdict *)
(* a meaning that does not mention the counters, and the counters are      *)
(* checked against it.                                                     *)
(***************************************************************************)
EXTENDS SafetyMonitor, Sequences

CONSTANTS
    MaxDistances,   \* bound: length of the distance history
    MaxBatteries    \* bound: length of the battery history

VARIABLES
    counted,     \* g_safety, fed the history below
    distances,   \* classes of the distinct distance samples judged so far
    batteries    \* classes of the distinct battery samples judged so far

historyVars == <<counted, distances, batteries>>

HistoryInit ==
    /\ counted   = InitMonitor
    /\ distances = <<>>
    /\ batteries = <<>>

Distance(c) ==
    /\ Len(distances) < MaxDistances
    /\ counted'   = JudgeDistance(counted, c)
    /\ distances' = Append(distances, c)
    /\ UNCHANGED batteries

Battery(c) ==
    /\ Len(batteries) < MaxBatteries
    /\ counted'   = JudgeBattery(counted, c)
    /\ batteries' = Append(batteries, c)
    /\ UNCHANGED distances

HistoryNext ==
    \/ \E c \in DistanceClass : Distance(c)
    \/ \E c \in BatteryClass  : Battery(c)

HistorySpec == HistoryInit /\ [][HistoryNext]_historyVars

------------------------------------------------------------------------------
\* The n samples of s that end at position i are all of class c.
RunEnding(s, i, n, c) == i >= n /\ \A k \in (i - n + 1)..i : s[k] = c

\* The type invariant: counters never pass their thresholds (uint8_t fields of
\* SafetyMonitor) and the histories hold sample classes.
HistoryTypeOK ==
    /\ counted   \in Monitor
    /\ distances \in Seq(DistanceClass)
    /\ batteries \in Seq(BatteryClass)

\* The reflex stop is engaged exactly when some ObstacleSamples samples in a
\* row were near and no ClearSamples clear samples in a row came after them:
\* single outliers neither stop the robot nor free it (safety_monitor.h:28-38).
ObstacleMeaning ==
    counted.obstacle <=>
        \E i \in DOMAIN distances :
            /\ RunEnding(distances, i, ObstacleSamples, "near")
            /\ \A j \in i..Len(distances) :
                   ~RunEnding(distances, j, ClearSamples, "clear")

\* The battery counts as critical exactly when some ShutdownSamples samples in
\* a row were low and none since was above the warning line: hovering between
\* the two lines does not re-arm (safety_monitor.h:78-82).
CriticalMeaning ==
    counted.critical <=>
        \E i \in DOMAIN batteries :
            /\ RunEnding(batteries, i, ShutdownSamples, "low")
            /\ \A j \in i..Len(batteries) : batteries[j] # "ok"
==============================================================================

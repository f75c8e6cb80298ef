------------------------------ MODULE EstopOrder ------------------------------
(***************************************************************************)
(* ResetHandshake with a history variable for the order of two people's    *)
(* wishes: the reset asked for with AskReset waits for the next tick, the  *)
(* E-Stop goes out at once, ahead of it (runtime.py:1647-1660).            *)
(***************************************************************************)
EXTENDS ResetHandshake

VARIABLE overruled   \* an E-Stop was pressed after the reset that waits to be sent

OrderInit == Init /\ overruled = FALSE

\* Asking again after the E-Stop is a new decision; a tick sends what waits.
OrderNext ==
    \/ EstopPressed /\ overruled' = asked
    \/ (AskReset \/ Tick \/ TickOvertaken) /\ overruled' = FALSE
    \/ Next /\ ~EstopPressed /\ ~AskReset /\ ~Tick /\ ~TickOvertaken /\ UNCHANGED overruled

OrderSpec == OrderInit /\ [][OrderNext]_<<vars, overruled>>

\* "E-Stop is handled first in every state" (docs/internal/WBS.md:200): a reset asked
\* for before the E-Stop was pressed is not sent behind it, where it would open the
\* latch the E-Stop closed.
EstopHolds == [][Tick /\ asked => ~overruled]_<<vars, overruled>>
==============================================================================

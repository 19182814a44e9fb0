-------------------------- MODULE MCPositionMonitor --------------------------
(***************************************************************************)
(* Values of the position monitor's constants for TLC.                     *)
(***************************************************************************)
EXTENDS PositionMonitor

\* A loss that by itself reaches half of the starting balance, and a profit.
SmallPnls == {-1, 1}

==============================================================================

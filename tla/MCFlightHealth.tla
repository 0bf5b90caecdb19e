---------------------------- MODULE MCFlightHealth ----------------------------
(***************************************************************************)
(* Timeouts and message grades for model-checking FlightHealth.            *)
(***************************************************************************)
EXTENDS FlightHealth

\* The pose is the one sensor, for which every grade may be received.
Timeouts == [state |-> 2, landed |-> 1, pose |-> 1]
Grades == [pose |-> Grade]
=============================================================================

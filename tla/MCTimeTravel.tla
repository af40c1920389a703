---------------------------- MODULE MCTimeTravel ----------------------------
(* Instances of TimeTravel for TLC. *)
EXTENDS TimeTravel, TLC

\* Value 1 fills its sector.
MCExtent == 1 :> 2
=============================================================================

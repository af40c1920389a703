--------------------------- MODULE MCPreservation ---------------------------
(* Instances of Preservation for TLC. *)
EXTENDS PreservationHistory, TLC

\* The one value other than zero fills one cell of its sector.
MCExtent == 1 :> 1
=============================================================================

------------------------------- MODULE Handover ------------------------------
(***************************************************************************)
(* What a migration promises of the two copies of a guest, without         *)
(* processes, pipes or names: the guest moves at most once, the source's   *)
(* copy may be resumed as long as the target's has not been started, and   *)
(* is destroyed only after that.                                           *)
(***************************************************************************)

VARIABLES source, target   \* the copies

copies == <<source, target>>

Init == source = "running" /\ target = "none"

Suspend == source = "running" /\ target # "running" /\ source' = "suspended" /\ UNCHANGED target
Resume == source = "suspended" /\ target # "running" /\ source' = "running" /\ UNCHANGED target

\* What was sent is restored, maybe while the source runs again already.
Restore == target = "none" /\ target' = "paused" /\ UNCHANGED source
Start == target = "paused" /\ source = "suspended" /\ target' = "running" /\ UNCHANGED source

DiscardTarget == target = "paused" /\ target' = "gone" /\ UNCHANGED source
DestroySource == source = "suspended" /\ target = "running" /\ source' = "gone" /\ UNCHANGED target

Next == Suspend \/ Resume \/ Restore \/ Start \/ DiscardTarget \/ DestroySource

Spec == Init /\ [][Next]_copies
=============================================================================

--------------------------- MODULE VersionHistory ---------------------------
(***************************************************************************)
(* What a preservation disk promises, without log, index or buffers: every *)
(* block has a history of versions that only ever grows; a session appends *)
(* to it, and what a session appended becomes durable when it closes.      *)
(* Where the process dies on the way, each block keeps either the durable  *)
(* history or all of the session's.                                        *)
(***************************************************************************)
EXTENDS Sequences

CONSTANTS Blocks, Version

VARIABLES durable,   \* the history of each block on disk
          current    \* with what the session in progress appended

history_vars == <<durable, current>>

Init == durable = [b \in Blocks |-> <<>>] /\ current = durable

\* A write of the guest: one more version of block b.
AppendVersion(b) ==
  /\ \E v \in Version : current' = [current EXCEPT ![b] = Append(@, v)]
  /\ UNCHANGED durable

\* The end of a session that made the blocks in saved durable: all of them when
\* it closes, any of them when it dies while closing, none when it dies before.
EndSession(saved) ==
  /\ durable' = [b \in Blocks |-> IF b \in saved THEN current[b] ELSE durable[b]]
  /\ current' = durable'

Next == (\E b \in Blocks : AppendVersion(b)) \/ (\E saved \in SUBSET Blocks : EndSession(saved))

Spec == Init /\ [][Next]_history_vars
=============================================================================

------------------------------ MODULE RecordLog -----------------------------
(***************************************************************************)
(* What the buffered I/O layer gives to the preservation disk above it: a  *)
(* log of records, each appended behind the others and found again where   *)
(* it was put.  The log is in the file below base and in the append buffer *)
(* from there on; a read buffer shows a window of it, in which only what   *)
(* is below limit is right.                                                *)
(*                                                                         *)
(* BufferedIO implements it cell by cell; the preservation disk keeps no   *)
(* other account of the log than this one.                                 *)
(***************************************************************************)
EXTENDS Naturals, Rounding

CONSTANTS Start, SectorSize, BufferSize

VARIABLES
  committed,   \* the end of the log for the next session: the header on disk
  open,        \* a session is in progress
  base, fill,  \* where the append buffer begins, and how much is in it
  records,     \* what was appended: [pos, size, id]
  window       \* the read buffer: [enable, pos, limit]

log_vars == <<committed, open, base, fill, records, window>>

NoWindow == [enable |-> FALSE, pos |-> 0, limit |-> 0]

Init ==
  /\ committed = Start /\ base = Start /\ fill = 0
  /\ open = FALSE /\ records = {} /\ window = NoWindow

Open ==
  /\ ~open /\ open'
  /\ base' = committed /\ fill' = 0
  /\ window' = NoWindow
  /\ UNCHANGED <<committed, records>>

\* A read refills the window from the sector it begins in, or finds the record elsewhere.
MayRefill ==
  \/ window' = window
  \/ \E at \in 0..(base - 1) :
       window' = [enable |-> TRUE, pos |-> RoundDown(at, SectorSize), limit |-> base]

Read ==
  /\ open
  /\ MayRefill
  /\ UNCHANGED <<committed, open, base, fill, records>>

\* The append buffer goes to the file, padded to whole sectors.
Flushed ==
  \E n \in fill..(fill + SectorSize - 1) : n % SectorSize = 0 /\ base' = base + n

\* A new record, behind what is in the append buffer, or in its place if it does not fit.
\* What is below it may have been read just before.
Append ==
  /\ open
  /\ MayRefill
  /\ \E r \in records' :
       /\ records' = records \cup {r}
       /\ r.size \in 1..BufferSize
       /\ \/ fill + r.size <= BufferSize /\ base' = base /\ fill' = fill + r.size
          \/ fill + r.size > BufferSize /\ Flushed /\ fill' = r.size
       /\ r.pos = base' + fill' - r.size
  /\ UNCHANGED <<committed, open>>

\* A session ends with a flush; then the header is written; then it is closed.
Finish ==
  /\ open
  /\ Flushed /\ fill' = 0
  /\ \/ UNCHANGED <<committed, open>>
     \/ committed' = base' /\ open' \in BOOLEAN
  /\ window' = IF open' THEN window ELSE NoWindow
  /\ UNCHANGED records

\* The process dies: what was not committed will be overwritten.
Kill ==
  /\ open /\ ~open'
  /\ base' = committed /\ fill' = 0
  /\ records' = {r \in records : r.pos + r.size <= committed}
  /\ window' = NoWindow
  /\ UNCHANGED committed

Next == Open \/ Read \/ Append \/ Finish \/ Kill

Spec == Init /\ [][Next]_log_vars
=============================================================================

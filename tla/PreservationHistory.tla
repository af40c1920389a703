------------------------ MODULE PreservationHistory -------------------------
(* The preservation disk implements VersionHistory: the history of a block is
   what walking its chain in the log finds.  And it implements RecordLog, as
   BufferedIO does: what the disk does to the log is what that layer does. *)
EXTENDS Preservation

History == INSTANCE VersionHistory WITH
  Version <- [ts : 0..MaxTime, data : Content],
  durable <- [b \in Blocks |-> Versions[disk_index[b]]],
  current <- [b \in Blocks |-> Versions[IF pc = "closed" THEN disk_index[b] ELSE index_table[b]]]

\* Through the chains, appending only ever adds one version to one block, and
\* closing or dying at any point keeps, block by block, either the history on
\* disk or that of the session, never less and never a mixture
\* (preservation.c:152-180, 489, 514).
ImplementsHistory == History!Spec

\* The record at offset o, as bio_write was given it.
LogRecord(o) == [pos |-> o, size |-> RecordCells(log[o].data), id |-> log[o]]
LogRecords == {LogRecord(o) : o \in DOMAIN log}

Log == INSTANCE RecordLog WITH
  Start <- FirstOffset, SectorSize <- SectorCells, BufferSize <- BufferCells,
  committed <- disk_next, open <- pc # "closed", base <- next_offset, fill <- buffer_pos,
  records <- LogRecords, window <- rb

\* All that pd_read, pd_write and pd_finalize do to the log, and all that a dying process does,
\* is what the buffered I/O layer does (preservation.c:152-180, 310-381, 445-519): records are
\* appended behind the others, and what the header covers is never changed.
ImplementsLog == Log!Spec
=============================================================================

----------------------------- MODULE TimeTravel -----------------------------
(***************************************************************************)
(* A tap:timetravel device (drivers/block-timetravel.c and the read-only   *)
(* half of drivers/preservation.c) beside the preservation driver of the   *)
(* same image: another process, which opens the file at any moment, since  *)
(* nothing locks it.                                                       *)
(*                                                                         *)
(* A restored block is read in one step: the handler runs to its end, and  *)
(* what it reads of the file, the records below the header it read, does   *)
(* not change meanwhile (PastPreserved; TimeTravelReadsRight of            *)
(* BufferedIOProofs for its read buffer).                                  *)
(***************************************************************************)
EXTENDS Preservation, Integers

VARIABLES
  tt_pc,        \* "none", "header" (read), "open" or "fault"
  tt_ts,        \* disk->ts, the time to restore
  tt_next,      \* bio.next_offset, from the header
  tt_index,     \* index_table
  tt_cached,    \* index_cache_enable: the blocks whose bit is set
  tt_size,      \* cached_data_size
  tt_hist,      \* the history that the index read stands for
  tt_whole,     \* the index read was not half old, half new
  torn,         \* a kill cut the write of the index short
  existed       \* the states of the disk before, between and after requests

tt_vars == <<tt_pc, tt_ts, tt_next, tt_index, tt_cached, tt_size, tt_hist, tt_whole>>
image_vars == <<vars, torn, existed>>
all_vars == <<image_vars, tt_vars>>

\* The disk as the guest knows it, of history h.
StateOf(h) == [b \in Blocks |-> Current(h, b)]

TTInit ==
  /\ Init
  /\ tt_pc = "none" /\ tt_ts = 0 /\ tt_next = 0 /\ tt_index = NoIndex
  /\ tt_cached = {} /\ tt_size = NoIndex
  /\ tt_hist = [b \in Blocks |-> <<>>] /\ tt_whole = TRUE
  /\ torn = FALSE
  /\ existed = {StateOf(hist)}

-----------------------------------------------------------------------------
(* tdtimetravel_open, pd_initialize_read_only, open_disk *)

TTReadHeader(t) ==
  /\ tt_pc = "none"
  /\ tt_pc' = "header"
  /\ tt_ts' = t
  /\ tt_next' = disk_next
  /\ UNCHANGED <<tt_index, tt_cached, tt_size, tt_hist, tt_whole>>

\* read() of the index; while the driver's write() of it is in progress the
\* first done entries may be the new ones.
TTReadIndex(done) ==
  /\ tt_pc = "header"
  /\ done > 0 => pc = "index"
  /\ tt_pc' = "open"
  /\ tt_index' = [b \in Blocks |-> IF b < done THEN index_table[b] ELSE disk_index[b]]
  /\ tt_hist' = [b \in Blocks |-> IF b < done THEN hist[b] ELSE disk_hist[b]]
  /\ tt_cached' = {}
  /\ tt_size' = NoIndex
  /\ tt_whole' = (done \in {0, NumBlocks})
  /\ UNCHANGED <<tt_ts, tt_next>>

-----------------------------------------------------------------------------
(* tdtimetravel_queue_read and read_current_block *)

\* A record beyond next_offset is copied from the append buffer, which a
\* read-only disk does not have (utils.c:51,85).
Faults(offset) == offset # 0 /\ offset >= tt_next

\* Variant: the last version of the second itself would count.
SameOrOlder(offset) == log[offset].ts <= tt_ts
Older(offset) == log[offset].ts < tt_ts

\* The newest record on the chain from an offset that is older than the time
\* to restore, or 0.
Walk[offset \in {0} \cup DOMAIN log] ==
  IF offset = 0 \/ Older(offset) THEN offset ELSE Walk[log[offset].next]

\* What is left in data_size when no record is found: the size of the oldest
\* one, or what was on the stack; only whether it is zero ever matters.
LeftOver == {0, BlockCells}

\* The data_size that is cached when the walk ends at found.
\* Variant: the size is not cached.
SizeUncached(found) == {0}
SizeFound(found) == IF found = 0 THEN LeftOver ELSE {ActualSize(log[found].data)}

TTReadBlock(b) ==
  /\ tt_pc = "open"
  /\ IF b \in tt_cached THEN UNCHANGED tt_vars
     ELSE IF Faults(tt_index[b])
     THEN /\ tt_pc' = "fault"
          /\ UNCHANGED <<tt_ts, tt_next, tt_index, tt_cached, tt_size, tt_hist, tt_whole>>
     ELSE LET found == Walk[tt_index[b]] IN
          /\ tt_index' = [tt_index EXCEPT ![b] = found]
          /\ tt_cached' = tt_cached \cup {b}
          /\ \E size \in SizeFound(found) : tt_size' = [tt_size EXCEPT ![b] = size]
          /\ UNCHANGED <<tt_pc, tt_ts, tt_next, tt_hist, tt_whole>>

\* tdtimetravel_close, or the death of the process.
TTClose ==
  /\ tt_pc # "none"
  /\ tt_pc' = "none" /\ tt_ts' = 0 /\ tt_next' = 0 /\ tt_index' = NoIndex
  /\ tt_cached' = {} /\ tt_size' = NoIndex
  /\ tt_hist' = [b \in Blocks |-> <<>>] /\ tt_whole' = TRUE

-----------------------------------------------------------------------------
Reader ==
  \/ \E t \in 1..(MaxTime + 1) : TTReadHeader(t)
  \/ \E done \in 0..NumBlocks : TTReadIndex(done)
  \/ \E b \in Blocks : TTReadBlock(b)
  \/ TTClose

\* The steps of the driver that the image or its history can show to others:
\* all but pd_read, which leaves no trace there.
Writer ==
  \/ Open
  \/ \E sec \in 0..(NumSectors - 1), secs \in 1..MaxSecs :
       \E data \in [0..(secs - 1) -> Sectors] : QueueWrite(sec, secs, data)
  \/ WriteBlock
  \/ Complete
  \/ BioFinalize
  \/ Finalize
  \/ KillInIndex
  \/ Kill
  \/ Tick

TTNext ==
  \/ Reader /\ UNCHANGED image_vars
  \/ /\ Writer
     /\ torn' = (torn \/ disk_hist' \notin {disk_hist, hist})
     /\ existed' = IF pc = "done" THEN existed \cup {StateOf(hist)} ELSE existed
     /\ UNCHANGED tt_vars

TTSpec == TTInit /\ [][TTNext]_all_vars

-----------------------------------------------------------------------------
TTTypeOK ==
  /\ tt_pc \in {"none", "header", "open", "fault"}
  /\ tt_ts \in 0..(MaxTime + 1)
  /\ tt_next \in Nat
  /\ tt_index \in [Blocks -> Nat]
  /\ tt_cached \subseteq Blocks
  /\ tt_size \in [Blocks -> 0..BlockCells]
  /\ tt_whole \in BOOLEAN /\ torn \in BOOLEAN

\* What read_current_block(b) returns, now and whether or not it is cached.
View(b) ==
  LET found == IF b \in tt_cached THEN tt_index[b] ELSE Walk[tt_index[b]]
      size  == IF b \in tt_cached THEN tt_size[b] ELSE ActualSize(log[found].data)
  IN  IF found = 0 \/ size = 0 THEN ZeroBlock
      ELSE IF size = ActualSize(log[found].data) THEN log[found].data
      ELSE [s \in 0..(SectorsPerBlock - 1) |-> -1]     \* cut off, or too long

Readable(b) == b \in tt_cached \/ ~Faults(tt_index[b])

\* The last version of history h that was written before time t.
Before(h, t) == {i \in DOMAIN h : h[i].ts < t}
StateAt(h, t) ==
  IF Before(h, t) = {} THEN [data |-> ZeroBlock, ok |-> TRUE, request |-> 0]
  ELSE LET i == CHOOSE i \in Before(h, t) : \A j \in Before(h, t) : j <= i
       IN  [data |-> h[i].data, ok |-> h[i].ok, request |-> h[i].request]

\* A time travel device shows of each block the last version written before
\* its time, of the history that was on disk when it was opened, whether found
\* on the chain or through the cache (preservation.c:318-339), and whatever the
\* driver appends, flushes, closes or loses meanwhile.
ViewCorrect ==
  /\ TTTypeOK
  /\ tt_pc = "open" => \A b \in Blocks : Readable(b) =>
       LET s == StateAt(tt_hist[b], tt_ts) IN s.ok => View(b) = s.data

\* The device only runs into a record it cannot read when the image was being
\* closed between its two reads of the header and of the index.
FaultOnlyInRace ==
  tt_pc = "open" /\ (\E b \in Blocks : ~Readable(b)) => tt_next < disk_next

AllOk(h) == \A i \in DOMAIN h : h[i].ok

\* As long as the clock is not set back, a restored disk is a state the disk
\* really had between two requests of the guest: a request shows on all its
\* blocks or on none (preservation.c:456 reads the clock once for all of them),
\* and with it all earlier ones.  It takes an index that no kill and no
\* concurrent close cut in two.
RestoredStateExisted ==
  /\ tt_pc = "open" /\ tt_whole /\ ~torn
  /\ \A b \in Blocks : Readable(b) /\ AllOk(tt_hist[b])
  => [b \in Blocks |-> View(b)] \in existed

\* Once a device is open, what it shows of a block does not change.
ViewStable ==
  [][tt_pc = "open" /\ tt_pc' = "open" /\ <<log, tt_vars>>' # <<log, tt_vars>> =>
       \A b \in Blocks : Readable(b) => Readable(b)' /\ View(b)' = View(b)]_all_vars
=============================================================================

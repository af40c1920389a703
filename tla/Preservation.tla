---------------------------- MODULE Preservation ----------------------------
(***************************************************************************)
(* The preservation disk (drivers/preservation.c) behind the tap:prsv      *)
(* driver (drivers/block-preservation.c): every write of the guest is      *)
(* appended to a log as a new version of its block; the versions of a      *)
(* block are chained from the newest to the oldest, and the index table    *)
(* holds the newest version of each block.                                 *)
(*                                                                         *)
(* The unit of the log is the record here.  Where a record is, and which   *)
(* part of the log the read buffer holds, is counted in cells of 16 bytes  *)
(* as in BufferedIO, whose theorems justify what this module takes of      *)
(* bio_read: it is right unless it hits the read buffer beyond what was in *)
(* the file when that was filled, and then it may return anything.         *)
(***************************************************************************)
EXTENDS Naturals, Sequences, Rounding

CONSTANTS NumBlocks,        \* disk_size / block_size
          SectorsPerBlock,
          SectorCells,      \* DEFAULT_SECTOR_SIZE, in cells
          HeaderCells,      \* sizeof(struct entry_header)
          BufferCells,      \* BUFFER_SIZE
          FirstOffset,      \* where the log starts: after header and index
          Values,           \* contents of a sector other than zeros
          Extent,           \* cells of a value up to its last non-zero byte
          MaxSecs,          \* the longest td_request, in sectors
          MaxRequests,      \* bound: write requests of a behaviour
          MaxTime,          \* bound: readings of the clock
          ClockStepsBack    \* TRUE: CLOCK_REALTIME may be set back

BlockCells == SectorsPerBlock * SectorCells
ReadBufferCells == 2 * BlockCells   \* READ_BUFFER_SIZE

ASSUME DiskAssumption ==
  /\ NumBlocks \in Nat \ {0} /\ SectorsPerBlock \in Nat \ {0}
  /\ SectorCells \in Nat \ {0} /\ HeaderCells \in Nat \ {0}
  /\ HeaderCells <= SectorCells
  /\ FirstOffset \in Nat \ {0} /\ FirstOffset % SectorCells = 0
  /\ BufferCells \in Nat /\ HeaderCells + BlockCells <= BufferCells
  /\ Values \subseteq Nat \ {0} /\ Extent \in [Values -> 1..SectorCells]
  /\ MaxSecs \in 1..SectorsPerBlock
  /\ MaxRequests \in Nat /\ MaxTime \in Nat /\ ClockStepsBack \in BOOLEAN

Blocks == 0..(NumBlocks - 1)
NumSectors == NumBlocks * SectorsPerBlock
Sectors == {0} \cup Values
Content == [0..(SectorsPerBlock - 1) -> Sectors]
ZeroBlock == [s \in 0..(SectorsPerBlock - 1) |-> 0]
Smaller(m, n) == IF m <= n THEN m ELSE n

VARIABLES
  disk_next, disk_index,   \* header->next_offset and the index in the image file
  log,                     \* offset -> record [block, ts, next, data]
  pc,                      \* what the driver is doing
  index_table, next_offset, buffer_pos,  \* of the open struct preservation_disk
  rb,                      \* its read buffer: [enable, pos, limit]
  req,                     \* the td_request being served
  clock,                   \* CLOCK_REALTIME
  requests,                \* number of write requests so far
  hist, disk_hist          \* what the guest wrote to each block, and what of it
                           \* the index on disk stands for

disk_vars == <<disk_next, disk_index, disk_hist>>
bio_vars == <<next_offset, buffer_pos, log>>
vars == <<disk_vars, bio_vars, pc, index_table, rb, req, clock, requests, hist>>

NoRequest == [op |-> "none", sec |-> 0, secs |-> 0, data |-> <<>>, ts |-> 0,
              sector |-> 0, remain_sectors |-> 0, buf |-> <<>>, stale |-> FALSE]
EmptyReadBuffer == [enable |-> FALSE, pos |-> 0, limit |-> 0]
NoIndex == [b \in Blocks |-> 0]

\* The last state of block b in a history h of versions, as the guest knows it.
Current(h, b) == IF h[b] = <<>> THEN ZeroBlock ELSE h[b][Len(h[b])].data
CurrentOk(h, b) == h[b] = <<>> \/ h[b][Len(h[b])].ok

-----------------------------------------------------------------------------
(* An image fresh from mkimage.rb, and open_disk. *)

Init ==
  /\ disk_next = FirstOffset
  /\ disk_index = NoIndex
  /\ disk_hist = [b \in Blocks |-> <<>>]
  /\ log = [o \in {} |-> NoRequest]
  /\ pc = "closed"
  /\ index_table = NoIndex
  /\ next_offset = FirstOffset
  /\ buffer_pos = 0
  /\ rb = EmptyReadBuffer
  /\ req = NoRequest
  /\ clock = 0
  /\ requests = 0
  /\ hist = [b \in Blocks |-> <<>>]

\* Where a session appends: where the header says the log ends.
\* Variant: at the start of the log, whatever is there.
LogStart == FirstOffset
LogEnd == disk_next

Open ==
  /\ pc = "closed"
  /\ pc' = "idle"
  /\ index_table' = disk_index
  /\ next_offset' = LogEnd
  /\ buffer_pos' = 0
  /\ rb' = EmptyReadBuffer
  /\ UNCHANGED <<disk_vars, log, req, clock, requests, hist>>

-----------------------------------------------------------------------------
(* bio_read, bio_write *)

\* Whether bio_read finds n cells at pos in the read buffer r.
Hit(r, pos, n) == r.enable /\ pos >= r.pos /\ (pos - r.pos) + n < ReadBufferCells

\* A hit on what was beyond the end of the flushed log when r was filled.
StaleHit(r, pos, n) == pos < next_offset /\ Hit(r, pos, n) /\ pos >= r.limit

\* The read buffer after bio_read(pos, n).
Fetched(r, pos, n) ==
  IF pos >= next_offset \/ Hit(r, pos, n) THEN r
  ELSE [enable |-> TRUE, pos |-> RoundDown(pos, SectorCells), limit |-> next_offset]

\* The last sector of a block that is not zero.
LastUsed(data) ==
  CHOOSE s \in DOMAIN data : data[s] # 0 /\ \A t \in DOMAIN data : t > s => data[t] = 0

\* get_actual_data_size: a block up to its last non-zero byte, in cells.
ActualSize(data) ==
  IF data = ZeroBlock THEN 0
  ELSE LastUsed(data) * SectorCells + Extent[data[LastUsed(data)]]

RecordCells(data) == HeaderCells + ActualSize(data)

\* Whether the append buffer must be flushed before size more cells.
Full(size) == buffer_pos + size > BufferCells

\* bio_write of a new record of block b, and the index entry that pd_write
\* points at it.
BioWrite(b, rec) ==
  LET size  == RecordCells(rec.data)
      full  == Full(size)
      base  == IF full THEN next_offset + RoundUp(buffer_pos, SectorCells) ELSE next_offset
      start == IF full THEN 0 ELSE buffer_pos
  IN  /\ next_offset' = base
      /\ buffer_pos' = start + size
      /\ log' = [o \in DOMAIN log \cup {base + start} |-> IF o = base + start THEN rec ELSE log[o]]
      /\ index_table' = [index_table EXCEPT ![b] = base + start]

\* The outcomes of read_latest_block(b): the data, the read buffer it leaves,
\* and whether a stale hit was involved.  After a stale header data_size is
\* arbitrary; a size beyond the block ends the process (see Kill).
ReadLatestBlock(b) ==
  LET offset == index_table[b]
      r1     == Fetched(rb, offset, HeaderCells)
      data   == log[offset].data
      size   == ActualSize(data)
      r2     == Fetched(r1, offset + HeaderCells, size)
      Any(rs) == [rb : rs, data : Content, stale : {TRUE}]
  IN  IF offset = 0 THEN {[rb |-> rb, data |-> ZeroBlock, stale |-> FALSE]}
      ELSE IF StaleHit(rb, offset, HeaderCells)
        THEN Any({r1} \cup {Fetched(r1, offset + HeaderCells, n) : n \in 1..BlockCells})
      ELSE IF size = 0 THEN {[rb |-> r1, data |-> data, stale |-> FALSE]}
      ELSE IF StaleHit(r1, offset + HeaderCells, size) THEN Any({r2})
      ELSE {[rb |-> r2, data |-> data, stale |-> FALSE]}

-----------------------------------------------------------------------------
(* tdpreservation_queue_read and pd_read *)

QueueRead(sec, secs) ==
  /\ pc = "idle"
  /\ sec + secs <= NumSectors
  /\ pc' = "read"
  /\ req' = [NoRequest EXCEPT !.op = "read", !.sec = sec, !.secs = secs, !.sector = sec]
  /\ UNCHANGED <<disk_vars, bio_vars, index_table, rb, clock, requests, hist>>

\* The first sector of the block after b.
NextSector(b) == (b + 1) * SectorsPerBlock
Continue(sector, here) == IF sector < req.sec + req.secs THEN here ELSE "done"

\* One iteration of either loop of pd_read.
ReadBlock ==
  /\ pc = "read"
  /\ LET b == req.sector \div SectorsPerBlock IN
     \E r \in ReadLatestBlock(b) :
       /\ rb' = r.rb
       /\ req' = [req EXCEPT !.buf = Append(@, r.data), !.sector = NextSector(b),
                             !.stale = @ \/ r.stale]
       /\ pc' = Continue(NextSector(b), "read")
  /\ UNCHANGED <<disk_vars, bio_vars, index_table, clock, requests, hist>>

\* Variant: the first block is returned from its first sector on.
SectorReadFromStart(i) ==
  IF i \div SectorsPerBlock < Len(req.buf)
  THEN req.buf[(i \div SectorsPerBlock) + 1][i % SectorsPerBlock] ELSE 0

\* The i-th sector that pd_read returns.
SectorRead(i) ==
  LET s == (req.sec % SectorsPerBlock) + i
  IN  IF s \div SectorsPerBlock < Len(req.buf)
      THEN req.buf[(s \div SectorsPerBlock) + 1][s % SectorsPerBlock] ELSE 0

-----------------------------------------------------------------------------
(* tdpreservation_queue_write and pd_write *)

QueueWrite(sec, secs, data) ==
  /\ pc = "idle"
  /\ requests < MaxRequests
  /\ sec + secs <= NumSectors
  /\ pc' = "write"
  /\ req' = [NoRequest EXCEPT !.op = "write", !.sec = sec, !.secs = secs, !.data = data,
                              !.ts = clock, !.sector = sec, !.remain_sectors = secs]
  /\ requests' = requests + 1
  /\ UNCHANGED <<disk_vars, bio_vars, index_table, rb, clock, hist>>

\* Block content old, with the part of the request that concerns it put in.
Updated(old, first, n, from) ==
  [s \in 0..(SectorsPerBlock - 1) |->
     IF s \in first..(first + n - 1) THEN req.data[from + (s - first)] ELSE old[s]]

\* Whether pd_write leaves out the new data of block b.
\* Variant: zeros are left out even where they replace something.
IgnoredIfZero(b, data) == ActualSize(data) = 0
Ignored(b, data) == ActualSize(data) = 0 /\ index_table[b] = 0

\* The record of new data for block b.
\* Variants: without the link; with the time of the block, not of the request.
RecordUnlinked(b, data) == [block |-> b, ts |-> req.ts, next |-> 0, data |-> data]
RecordLate(b, data) == [block |-> b, ts |-> clock, next |-> index_table[b], data |-> data]
NewRecord(b, data) == [block |-> b, ts |-> req.ts, next |-> index_table[b], data |-> data]

\* One iteration of the loop of pd_write.
WriteBlock ==
  /\ pc = "write"
  /\ LET b       == req.sector \div SectorsPerBlock
         first   == req.sector % SectorsPerBlock
         n       == Smaller(SectorsPerBlock - first, req.remain_sectors)
         remain  == req.remain_sectors - n
         from    == req.secs - remain - n
     IN
     \E r \in ReadLatestBlock(b) :
       LET data == Updated(r.data, first, n, from) IN
       /\ rb' = r.rb
       /\ \/ Ignored(b, data) /\ UNCHANGED <<bio_vars, index_table>>
          \/ ~Ignored(b, data) /\ BioWrite(b, NewRecord(b, data))
       /\ hist' = [hist EXCEPT ![b] = Append(@,
            [ts |-> req.ts, data |-> Updated(Current(hist, b), first, n, from),
             ok |-> n = SectorsPerBlock \/ (~r.stale /\ CurrentOk(hist, b)),
             request |-> requests])]
       /\ req' = [req EXCEPT !.sector = NextSector(b), !.remain_sectors = remain]
       /\ pc' = Continue(NextSector(b), "write")
  /\ UNCHANGED <<disk_vars, clock, requests>>

\* Variant: the write handler forgets td_complete_request.
CompleteReads ==
  /\ pc = "done"
  /\ req.op = "read"
  /\ pc' = "idle"
  /\ req' = NoRequest
  /\ UNCHANGED <<disk_vars, bio_vars, index_table, rb, clock, requests, hist>>

\* td_complete_request.
Complete ==
  /\ pc = "done"
  /\ pc' = "idle"
  /\ req' = NoRequest
  /\ UNCHANGED <<disk_vars, bio_vars, index_table, rb, clock, requests, hist>>

-----------------------------------------------------------------------------
(* tdpreservation_close and pd_finalize: flush, then header, then index. *)

BioFinalize ==
  /\ pc = "idle"
  /\ pc' = "header"
  /\ next_offset' = next_offset + RoundUp(buffer_pos, SectorCells)
  /\ buffer_pos' = 0
  /\ UNCHANGED <<disk_vars, log, index_table, rb, req, clock, requests, hist>>

\* Variant: next_offset is not stored in the header.
WriteOldHeader ==
  /\ pc = "header"
  /\ pc' = "index"
  /\ UNCHANGED <<disk_vars, bio_vars, index_table, rb, req, clock, requests, hist>>

WriteHeader ==
  /\ pc = "header"
  /\ pc' = "index"
  /\ disk_next' = next_offset
  /\ UNCHANGED <<disk_index, disk_hist, bio_vars, index_table, rb, req, clock, requests, hist>>

\* write() of the index table; it is one call, but a kill may cut it short
\* after any number of entries.  done is the number of entries written.
Closed ==
  /\ pc' = "closed"
  /\ index_table' = NoIndex
  /\ rb' = EmptyReadBuffer
  /\ req' = NoRequest
  /\ buffer_pos' = 0

WriteIndex(done) ==
  /\ pc = "index"
  /\ disk_index' = [b \in Blocks |-> IF b < done THEN index_table[b] ELSE disk_index[b]]
  /\ disk_hist' = [b \in Blocks |-> IF b < done THEN hist[b] ELSE disk_hist[b]]
  /\ hist' = disk_hist'
  /\ Closed
  /\ UNCHANGED <<disk_next, next_offset, log, clock, requests>>

CloseIndex == WriteIndex(NumBlocks)
KillInIndex == \E done \in 0..(NumBlocks - 1) : WriteIndex(done)

\* tapdisk dies before the header is written: the next session appends where
\* the header still says, so whatever this session appended is gone.
Kill ==
  /\ pc \notin {"closed", "index"}
  /\ log' = [o \in {p \in DOMAIN log : p < disk_next} |-> log[o]]
  /\ hist' = disk_hist
  /\ next_offset' = disk_next
  /\ Closed
  /\ UNCHANGED <<disk_vars, clock, requests>>

\* Time passes, also within a request, or somebody sets the clock.
Tick ==
  /\ pc \in {"closed", "idle", "write"}
  /\ clock' \in {t \in 0..MaxTime : t = clock + 1 \/ (ClockStepsBack /\ t < clock)}
  /\ UNCHANGED <<disk_vars, bio_vars, pc, index_table, rb, req, requests, hist>>

-----------------------------------------------------------------------------
Serve == ReadBlock \/ WriteBlock \/ Complete
Finalize == WriteHeader \/ CloseIndex

Next ==
  \/ Open
  \/ \E sec \in 0..(NumSectors - 1), secs \in 1..MaxSecs : QueueRead(sec, secs)
  \/ \E sec \in 0..(NumSectors - 1), secs \in 1..MaxSecs :
       \E data \in [0..(secs - 1) -> Sectors] : QueueWrite(sec, secs, data)
  \/ Serve
  \/ BioFinalize
  \/ Finalize
  \/ KillInIndex
  \/ Kill
  \/ Tick

Spec == Init /\ [][Next]_vars

\* tapdisk's event loop runs a handler to its end once it has called it.
FairSpec == Spec /\ WF_vars(Serve) /\ WF_vars(Finalize)
-----------------------------------------------------------------------------
End == next_offset + buffer_pos

Record == [block : Blocks, ts : 0..MaxTime, next : Nat, data : Content]

\* A request that is not made of whole blocks needs at most the two blocks of
\* the buffer on pd_read's stack (preservation.c:416-419,429).
StackBufferSuffices ==
  req.op = "read" /\ (req.sec % SectorsPerBlock # 0 \/ req.secs % SectorsPerBlock # 0)
    => Len(req.buf) <= 2

\* Every variable keeps its type, and buffers are long enough.
TypeOK ==
  /\ StackBufferSuffices
  /\ disk_next \in Nat /\ disk_index \in [Blocks -> Nat]
  /\ DOMAIN log \subseteq Nat /\ \A o \in DOMAIN log : log[o] \in Record
  /\ pc \in {"closed", "idle", "read", "write", "done", "header", "index"}
  /\ index_table \in [Blocks -> Nat]
  /\ next_offset \in Nat /\ buffer_pos \in 0..BufferCells
  /\ rb \in [enable : BOOLEAN, pos : Nat, limit : Nat]
  /\ req.op \in {"none", "read", "write"}
  /\ req.sec \in Nat /\ req.secs \in 0..MaxSecs
  /\ req.sector \in Nat /\ req.remain_sectors \in 0..MaxSecs /\ req.ts \in 0..MaxTime
  /\ clock \in 0..MaxTime /\ requests \in 0..MaxRequests

\* The entries of an index are records of their block, below limit.
IndexSound(index, limit) ==
  \A b \in Blocks : index[b] # 0 =>
    index[b] \in DOMAIN log /\ index[b] < limit /\ log[index[b]].block = b

\* Every record points to an older record of its block, or to none.
LinksSound ==
  \A o \in DOMAIN log : log[o].next # 0 =>
    /\ log[o].next \in DOMAIN log /\ log[o].next < o
    /\ log[log[o].next].block = log[o].block

\* The chains that both index tables start never leave the log, never loop and
\* stay in their block: in memory while requests are served, and on disk at
\* every moment, so that whenever the driver dies, also between the write of
\* the header and the last entry of the index (preservation.c:165-170), the
\* image can be opened and every chain ends (preservation.c:322-330).
ChainsSound ==
  /\ LinksSound
  /\ \A o \in DOMAIN log : FirstOffset <= o /\ o < End
  /\ pc # "closed" => IndexSound(index_table, End)
  /\ IndexSound(disk_index, disk_next)
  /\ disk_next <= next_offset

\* Records lie one behind the other, and each of them either in the file or in
\* the append buffer, which is what bio_read distinguishes (utils.c:85).
RecordsDisjoint ==
  \A o \in DOMAIN log :
    /\ o + RecordCells(log[o].data) <= End
    /\ o >= next_offset \/ o + RecordCells(log[o].data) <= next_offset
    /\ \A p \in DOMAIN log : p > o => p >= o + RecordCells(log[o].data)

\* What every other property of the log rests on: it is laid out and linked as
\* preservation.c takes it to be, in every state of the driver.
LogSound == TypeOK /\ ChainsSound /\ RecordsDisjoint

\* The versions on the chain from offset o, the oldest first.
Versions[o \in {0} \cup DOMAIN log] ==
  IF o = 0 THEN <<>>
  ELSE Append(Versions[log[o].next], [ts |-> log[o].ts, data |-> log[o].data])

\* The versions of a history that are recorded: all from the first that is not
\* zero (preservation.c:500).
FirstRecorded(h) ==
  IF \E i \in DOMAIN h : h[i].data # ZeroBlock
  THEN CHOOSE i \in DOMAIN h :
         h[i].data # ZeroBlock /\ \A j \in 1..(i - 1) : h[j].data = ZeroBlock
  ELSE Len(h) + 1
Recorded(h) == SubSeq(h, FirstRecorded(h), Len(h))

\* The versions vs are those of history h; a version that was built on a stale
\* read (ok is FALSE) may have other data.
Match(vs, h) ==
  /\ Len(vs) = Len(h)
  /\ \A i \in DOMAIN h : vs[i].ts = h[i].ts /\ (h[i].ok => vs[i].data = h[i].data)

\* No version is ever lost, duplicated or reordered: the chain of each block is
\* exactly what the guest wrote to it, in order and with the time of the
\* request, in memory and, across closes, kills and reopens, on disk.  In
\* particular leaving out a zero block (preservation.c:500) loses nothing.
HistoryRecorded ==
  \A b \in Blocks :
    /\ pc # "closed" => Match(Versions[index_table[b]], Recorded(hist[b]))
    /\ Match(Versions[disk_index[b]], Recorded(disk_hist[b]))

ReadRight(i) ==
  LET s == req.sec + i
      b == s \div SectorsPerBlock
  IN  CurrentOk(hist, b) => SectorRead(i) = Current(hist, b)[s % SectorsPerBlock]

\* A read that met no stale hit returns, for each sector, what was last written
\* to it, however the request lies across blocks, and whether those are in the
\* append buffer, in the read buffer, in the file or nowhere.
ReadReturnsWritten ==
  pc = "done" /\ req.op = "read" /\ ~req.stale => \A i \in 0..(req.secs - 1) : ReadRight(i)

\* "Update only the sectors of buf that the request wrote"
\* (preservation.c:473): the sectors of a block that a request does not cover
\* keep their contents, so every version is what the guest wrote.
VersionsUnpolluted ==
  \A b \in Blocks : pc # "closed" =>
    LET h == Recorded(hist[b]) IN
    \A i \in DOMAIN h : Versions[index_table[b]][i].data = h[i].data

\* What the header on disk covers is never changed, and the header never moves
\* back: neither appending, nor flushing, nor closing, nor dying touches it.
PastPreserved ==
  [][/\ disk_next' >= disk_next
     /\ \A o \in DOMAIN log : o < disk_next => o \in DOMAIN log' /\ log'[o] = log[o]]_vars

\* Every request that was queued is completed, however many blocks it spans,
\* unless tapdisk dies (block-preservation.c:96-116).
RequestsEnd == (pc \in {"read", "write", "done"}) ~> (pc \in {"idle", "closed"})
=============================================================================

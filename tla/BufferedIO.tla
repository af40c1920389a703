----------------------------- MODULE BufferedIO -----------------------------
(***************************************************************************)
(* The buffered I/O layer of the preservation driver (drivers/utils.c): an *)
(* append buffer and a read buffer in front of one image file.             *)
(*                                                                         *)
(* Sizes and offsets are counted in cells, the 16 bytes to which the       *)
(* driver aligns its records.  The content of a cell is the number of the  *)
(* bio_write that produced it, so two writes never have the same content;  *)
(* 0 is everything nobody wrote: holes of the file, uninitialised memory,  *)
(* padding.  Offset 0 is the first byte of the log, just after the header  *)
(* and the index, which preservation.c accesses without this layer.        *)
(***************************************************************************)
EXTENDS Naturals, Rounding

CONSTANTS SectorSize,      \* DEFAULT_SECTOR_SIZE, in cells
          BufferSize,      \* BUFFER_SIZE
          ReadBufferSize,  \* READ_BUFFER_SIZE
          HeaderSize,      \* sizeof(struct entry_header)
          MaxData,         \* the longest data part of a record: one block
          FileCap,         \* bound: cells the device can hold
          MaxWrites,       \* bound: bio_write calls of a behaviour
          IOErrors         \* TRUE: read() and write() may fail or be short

ASSUME SizesAssumption ==
  /\ SectorSize \in Nat \ {0}
  /\ BufferSize \in Nat /\ BufferSize % SectorSize = 0
  /\ HeaderSize \in Nat \ {0} /\ MaxData \in Nat
  /\ HeaderSize + MaxData <= BufferSize
  /\ ReadBufferSize \in Nat
  /\ HeaderSize + SectorSize <= ReadBufferSize
  /\ MaxData + SectorSize <= ReadBufferSize

ASSUME BoundsAssumption == FileCap \in Nat /\ MaxWrites \in Nat /\ IOErrors \in BOOLEAN

VARIABLES
  file, file_size,                                  \* the image file
  header,                                           \* header->next_offset in it
  open, read_only, next_offset, buffer, buffer_pos, \* struct buffered_io
  read_buffer, read_buffer_pos, read_buffer_enable,
  writes,      \* number of bio_write calls so far (the source of cell contents)
  records,     \* what was written and not lost by a kill: [pos, size, id]
  lost,        \* offsets whose write() failed, although bio_flush moved on
  fill_limit   \* the read buffer held the file's cells below this offset when filled

file_vars == <<file, file_size, header>>
read_vars == <<read_buffer, read_buffer_pos, read_buffer_enable, fill_limit>>
vars == <<file_vars, open, read_only, next_offset, buffer, buffer_pos,
          read_vars, writes, records, lost>>

Cells == 0..MaxWrites
Offsets == 0..(FileCap - 1)

Smaller(m, n) == IF m <= n THEN m ELSE n
Larger(m, n) == IF m <= n THEN n ELSE m

-----------------------------------------------------------------------------
(* bio_init and bio_finalize. *)

Init ==
  /\ file = [o \in Offsets |-> 0]
  /\ file_size = 0
  /\ header = 0
  /\ open = FALSE
  /\ read_only = FALSE
  /\ next_offset = 0
  /\ buffer = [i \in 0..(BufferSize - 1) |-> 0]
  /\ buffer_pos = 0
  /\ read_buffer = [i \in 0..(ReadBufferSize - 1) |-> 0]
  /\ read_buffer_pos = 0
  /\ read_buffer_enable = FALSE
  /\ writes = 0
  /\ records = {}
  /\ lost = {}
  /\ fill_limit = 0

\* bio_init(bio, fd, ro, header->next_offset): fresh buffers, never zeroed.
BioInit(ro) ==
  /\ ~open
  /\ open' = TRUE
  /\ read_only' = ro
  /\ next_offset' = header
  /\ buffer' = [i \in 0..(BufferSize - 1) |-> 0]
  /\ buffer_pos' = 0
  /\ read_buffer' = [i \in 0..(ReadBufferSize - 1) |-> 0]
  /\ read_buffer_pos' = 0
  /\ read_buffer_enable' = FALSE
  /\ fill_limit' = 0
  /\ UNCHANGED <<file_vars, writes, records, lost>>

\* What a flush adds to the file.  Variant: without the round_up().
FlushSizeUnpadded == buffer_pos
FlushSize == RoundUp(buffer_pos, SectorSize)

\* How many cells a write() of n cells may leave in the file.
Persisted(n) == IF IOErrors THEN 0..n ELSE {n}

\* Where lseek() puts the write of a flush.  Variant: without the lseek().
FlushPosUnsought == read_buffer_pos
FlushPos == next_offset

\* bio_flush with a non-empty buffer: the result of write() is not looked at.
FlushTo(k) ==
  /\ file' = [o \in Offsets |->
                IF o \in FlushPos..(FlushPos + k - 1)
                THEN buffer[o - FlushPos] ELSE file[o]]
  /\ file_size' = IF k = 0 THEN file_size ELSE Larger(file_size, FlushPos + k)
  /\ next_offset' = next_offset + FlushSize
  /\ lost' = lost \cup ((next_offset + k)..(next_offset + FlushSize - 1))

BioFlush ==
  /\ next_offset + FlushSize <= FileCap
  /\ \E k \in Persisted(FlushSize) : FlushTo(k)

\* bio_finalize and the header write of pd_finalize that stores its result.
BioFinalize ==
  /\ open
  /\ IF read_only \/ buffer_pos = 0
     THEN UNCHANGED <<file, file_size, next_offset, lost>>
     ELSE BioFlush
  /\ header' = IF read_only THEN header ELSE next_offset'
  /\ buffer_pos' = 0
  /\ open' = FALSE
  /\ UNCHANGED <<read_only, buffer, read_vars, writes, records>>

-----------------------------------------------------------------------------
(* bio_write *)

Stored(pos, size, id) ==
  [i \in 0..(BufferSize - 1) |-> IF i \in pos..(pos + size - 1) THEN id ELSE buffer[i]]

Fits(size) == buffer_pos + size <= BufferSize

BioWrite(size) ==
  LET id == writes + 1 IN
  /\ open /\ ~read_only
  /\ writes < MaxWrites
  /\ \/ /\ Fits(size)
        /\ buffer' = Stored(buffer_pos, size, id)
        /\ buffer_pos' = buffer_pos + size
        /\ UNCHANGED <<file, file_size, next_offset, lost>>
     \/ /\ ~Fits(size)
        /\ BioFlush
        /\ buffer' = Stored(0, size, id)
        /\ buffer_pos' = size
  /\ next_offset' + BufferSize <= FileCap
  /\ writes' = id
  /\ records' = records \cup
       {[pos |-> next_offset' + buffer_pos' - size, size |-> size, id |-> id]}
  /\ UNCHANGED <<header, open, read_only, read_vars>>

-----------------------------------------------------------------------------
(* bio_read *)

\* Variant: the first unflushed record is looked for in the file.
InBufferPast(pos) == pos > next_offset
InBuffer(pos) == pos >= next_offset

\* Variant: read_buffer_enable is not looked at.
HitUnfilled(pos, size) ==
  /\ pos >= read_buffer_pos
  /\ (pos - read_buffer_pos) + size < ReadBufferSize

Hit(pos, size) ==
  /\ read_buffer_enable
  /\ pos >= read_buffer_pos
  /\ (pos - read_buffer_pos) + size < ReadBufferSize

\* Up to which offset a read() at p may deliver the file: it may be short anywhere, or
\* fail, which delivers nothing, where I/O fails, and else only at the end of the file.
Delivered(p) == IF IOErrors THEN p..Larger(p, file_size) ELSE {file_size}

\* The read buffer after a read() at p that delivered the file up to offset e:
\* behind that it keeps its old contents.
Filled(p, e) ==
  [i \in 0..(ReadBufferSize - 1) |-> IF p + i < e THEN file[p + i] ELSE read_buffer[i]]

\* The i-th cell that bio_read(pos, size) returns, if a read() delivers the file up to e.
CellRead(pos, size, e, i) ==
  IF InBuffer(pos) THEN buffer[pos - next_offset + i]
  ELSE IF Hit(pos, size) THEN read_buffer[pos - read_buffer_pos + i]
  ELSE Filled(RoundDown(pos, SectorSize), e)[pos - RoundDown(pos, SectorSize) + i]

\* The reads the driver issues: the header of a record, or its data.
Parts(r) ==
  {<<r.pos, HeaderSize>>} \cup
  (IF r.size > HeaderSize THEN {<<r.pos + HeaderSize, r.size - HeaderSize>>} ELSE {})

\* Whatever read() delivered, -1 included, the buffer counts as filled for the next read.
BioReadMiss(pos, size) ==
  LET p == RoundDown(pos, SectorSize) IN
  /\ ~InBuffer(pos) /\ ~Hit(pos, size)
  /\ read_buffer_enable' = TRUE
  /\ read_buffer_pos' = p
  /\ \E e \in Delivered(p) :
       read_buffer' = Filled(p, e) /\ fill_limit' = Smaller(e, next_offset)

BioRead(pos, size) ==
  /\ open
  /\ IF InBuffer(pos) \/ Hit(pos, size) THEN UNCHANGED read_vars ELSE BioReadMiss(pos, size)
  /\ UNCHANGED <<file_vars, open, read_only, next_offset, buffer, buffer_pos,
                 writes, records, lost>>

-----------------------------------------------------------------------------
(* The process dies: what was appended since the header was written is gone,
   whether or not it had been flushed, since the next session appends there. *)
Kill ==
  /\ open
  /\ open' = FALSE
  /\ buffer_pos' = 0
  /\ records' = {r \in records : r.pos + r.size <= header}
  /\ lost' = {o \in lost : o < header}
  /\ next_offset' = header
  /\ UNCHANGED <<file_vars, read_only, buffer, read_vars, writes>>

Next ==
  \/ \E ro \in BOOLEAN : BioInit(ro)
  \/ BioFinalize
  \/ \E n \in 0..MaxData : BioWrite(HeaderSize + n)
  \/ \E r \in records : \E part \in Parts(r) : BioRead(part[1], part[2])
  \/ Kill

Spec == Init /\ [][Next]_vars

-----------------------------------------------------------------------------
Records == [pos : Offsets, size : HeaderSize..(HeaderSize + MaxData), id : Cells]

\* Every variable keeps its type, and positions stay inside their buffers.
TypeOK ==
  /\ file \in [Offsets -> Cells]
  /\ file_size \in 0..FileCap
  /\ header \in 0..FileCap
  /\ open \in BOOLEAN /\ read_only \in BOOLEAN
  /\ next_offset \in 0..FileCap
  /\ buffer \in [0..(BufferSize - 1) -> Cells]
  /\ buffer_pos \in 0..BufferSize
  /\ read_buffer \in [0..(ReadBufferSize - 1) -> Cells]
  /\ read_buffer_pos \in 0..FileCap
  /\ read_buffer_enable \in BOOLEAN
  /\ writes \in 0..MaxWrites
  /\ records \subseteq Records /\ \A r \in records : r.pos + r.size <= FileCap
  /\ lost \subseteq Offsets
  /\ fill_limit \in 0..FileCap

\* The cell of the log at offset o, wherever it is at present.
CellAt(o) == IF o < next_offset THEN file[o] ELSE buffer[o - next_offset]

\* bio_write returns the offset at which the record can be found from then on
\* (utils.c:79): whatever is flushed, padded and reopened later, each of its
\* cells whose write() succeeded is there, and a record lies on one side of
\* next_offset, so that bio_read's choice by its first byte is right.
LogIntact ==
  \A r \in records :
    /\ r.pos + r.size <= next_offset \/ r.pos >= next_offset
    /\ \A o \in r.pos..(r.pos + r.size - 1) : o \notin lost => CellAt(o) = r.id

\* What bio_read(pos, size) returns is the record id, whatever a read() delivers.
Right(pos, size, id) ==
  \A e \in Delivered(RoundDown(pos, SectorSize)), i \in 0..(size - 1) :
    CellRead(pos, size, e, i) = id

\* A read that found in the read buffer what was beyond the end of the log
\* when the buffer was filled.
StaleHit(pos, size) == ~InBuffer(pos) /\ Hit(pos, size) /\ pos >= fill_limit

\* Offset o of the flushed log is not among what the read() delivered that filled the read
\* buffer, or that bio_read(pos, size) does itself.
Undelivered(pos, size, e, o) ==
  o < next_offset /\ o >= (IF Hit(pos, size) THEN fill_limit ELSE e)

\* The only cells that bio_read can return wrong are flushed ones that read() did not
\* deliver: they lay beyond the log when the read buffer was filled (utils.c:90), or
\* read() failed or came back short, of which the test for -1 lets the latter pass
\* (utils.c:95).  What is not flushed yet and whatever was delivered is right.
ReadRightUnlessStale ==
  open => \A r \in records : \A part \in Parts(r) :
    \A e \in Delivered(RoundDown(part[1], SectorSize)), i \in 0..(part[2] - 1) :
      part[1] + i \notin lost =>
        \/ CellRead(part[1], part[2], e, i) = r.id
        \/ Undelivered(part[1], part[2], e, part[1] + i)

\* Without I/O errors a record is read as a whole, right or from a stale buffer: the read
\* buffer never ends in the middle of one.
ReadsAreWhole ==
  open /\ ~IOErrors => \A r \in records : \A part \in Parts(r) :
    Right(part[1], part[2], r.id) \/ StaleHit(part[1], part[2])

\* A read-only session (time travel) always reads what was written: its
\* next_offset never moves, so its read buffer never goes stale.
ReadOnlyReadsRight ==
  open /\ read_only =>
    \A r \in records : \A part \in Parts(r) : Right(part[1], part[2], r.id)

\* What the code's comments promise of every read: "copy from the read buffer"
\* (utils.c:99) what is in the file.
ReadReturnsWritten ==
  open => \A r \in records : \A part \in Parts(r) : Right(part[1], part[2], r.id)

\* No step of any session, crash or failed write touches a cell below the
\* next_offset of the header on disk: the preserved past is never rewritten.
CommittedImmutable ==
  [][/\ header' >= header
     /\ \A o \in Offsets : o < header => file'[o] = file[o]]_vars

Window ==
  IF open THEN [enable |-> read_buffer_enable, pos |-> read_buffer_pos, limit |-> fill_limit]
  ELSE [enable |-> FALSE, pos |-> 0, limit |-> 0]

Log == INSTANCE RecordLog WITH
  Start <- 0, committed <- header, base <- next_offset, fill <- buffer_pos, window <- Window

\* Without I/O errors the layer is a log of records: bio_write puts each where the last one
\* ended or, after a flush, where the next sector begins (utils.c:63-79), bio_read shows what
\* the file held when it was filled (utils.c:84-104), and of what a dead process appended
\* nothing remains.
ImplementsLog == Log!Spec
-----------------------------------------------------------------------------
(* What makes the properties above inductive. *)

\* Between sessions, and in a read-only one, nothing is pending and the log
\* ends where the header says; appending starts above the header.
SessionInv ==
  /\ header <= next_offset
  /\ (~open \/ read_only) => next_offset = header /\ buffer_pos = 0
  /\ \A r \in records : r.pos + r.size <= next_offset + buffer_pos

\* A cell below next_offset that was not lost is in the file.
PersistedInv ==
  /\ \A r \in records : \A o \in r.pos..(r.pos + r.size - 1) :
       o < next_offset /\ o \notin lost => o < file_size
  /\ ~IOErrors => lost = {} /\ next_offset <= file_size

\* Below fill_limit the read buffer agrees with the file, and unless read() was short
\* no record lies on both sides of it.
WindowInv ==
  open /\ read_buffer_enable =>
    /\ fill_limit <= next_offset
    /\ \A i \in 0..(ReadBufferSize - 1) :
         read_buffer_pos + i < fill_limit => read_buffer[i] = file[read_buffer_pos + i]
    /\ ~IOErrors => \A r \in records : r.pos + r.size <= fill_limit \/ r.pos >= fill_limit
    /\ read_only /\ ~IOErrors => fill_limit = next_offset

IInv == TypeOK /\ SessionInv /\ LogIntact /\ PersistedInv /\ WindowInv
=============================================================================

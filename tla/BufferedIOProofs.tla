-------------------------- MODULE BufferedIOProofs --------------------------
EXTENDS BufferedIO, TLAPS

\* The sizes, without the divisibility that only the rounding needs.
LEMMA Sizes ==
  /\ SectorSize \in Nat \ {0} /\ HeaderSize \in Nat \ {0} /\ MaxData \in Nat
  /\ BufferSize \in Nat \ {0} /\ HeaderSize + MaxData <= BufferSize
  /\ ReadBufferSize \in Nat \ {0}
  /\ HeaderSize + SectorSize <= ReadBufferSize /\ MaxData + SectorSize <= ReadBufferSize
  /\ FileCap \in Nat /\ MaxWrites \in Nat /\ IOErrors \in BOOLEAN
BY SizesAssumption, BoundsAssumption

\* A record just copied into the append buffer lies inside the log.
LEMMA RecordFits ==
  ASSUME NEW n \in Nat, NEW b \in Nat, NEW size \in Nat, NEW cap \in Nat, NEW end \in Nat,
         n + cap <= end, size <= b, b <= cap, 1 <= size
  PROVE  /\ n + b - size \in 0..(end - 1)
         /\ n + b - size + size <= end
  OBVIOUS

\* Where that record begins and ends.
LEMMA Sums ==
  ASSUME NEW n \in Nat, NEW b \in Nat, NEW size \in Nat, b - size \in Nat
  PROVE  /\ n + b - size = n + (b - size) /\ n + (b - size) \in Nat
         /\ n + (b - size) + size = n + b
         /\ n <= n + (b - size) /\ n + (b - size) <= n + b
  OBVIOUS

\* From an offset of the log at or behind n to its place in the buffer.
LEMMA Shift ==
  ASSUME NEW n \in Nat, NEW start \in Nat, NEW size \in Nat, NEW cap \in Nat,
         NEW o \in (n + start)..(n + start + size - 1), start + size <= cap
  PROVE  /\ o >= n /\ ~(o < n)
         /\ o - n \in start..(start + size - 1) /\ o - n \in 0..(cap - 1)
  OBVIOUS

\* round_down (utils.c:32) gives the start of the sector that holds n.
LEMMA RoundDownBounds ==
  ASSUME NEW n \in Nat
  PROVE  /\ RoundDown(n, SectorSize) \in Nat
         /\ RoundDown(n, SectorSize) <= n
         /\ n < RoundDown(n, SectorSize) + SectorSize
BY SizesAssumption DEF RoundDown

\* round_up (utils.c:36) gives the least sector boundary not below n.
LEMMA RoundUpBounds ==
  ASSUME NEW n \in Nat
  PROVE  /\ RoundUp(n, SectorSize) \in Nat
         /\ n <= RoundUp(n, SectorSize)
         /\ n <= BufferSize => RoundUp(n, SectorSize) <= BufferSize
<1> DEFINE m == n + SectorSize - 1
<1>1. m \in Nat /\ RoundUp(n, SectorSize) = RoundDown(m, SectorSize) /\ m < RoundDown(m, SectorSize) + SectorSize
  BY SizesAssumption, RoundDownBounds DEF RoundUp
<1>2. RoundUp(n, SectorSize) \in Nat /\ n <= RoundUp(n, SectorSize)
  BY <1>1, SizesAssumption, RoundDownBounds
<1>3. ASSUME n <= BufferSize PROVE RoundUp(n, SectorSize) <= BufferSize
  <2> DEFINE k == BufferSize \div SectorSize
             q == m \div SectorSize
  <2>1. k \in Nat /\ BufferSize = SectorSize * k
    BY SizesAssumption
  <2>2. q \in Nat /\ RoundUp(n, SectorSize) = SectorSize * q
    BY <1>1, SizesAssumption DEF RoundDown
  <2>3. SectorSize * q < SectorSize * (k + 1)
    BY <1>1, <1>3, <2>1, <2>2, RoundDownBounds, SizesAssumption
  <2> HIDE DEF k, q
  <2>4. q < k + 1
    BY <2>1, <2>2, <2>3, SizesAssumption
  <2>5. SectorSize * q <= SectorSize * k
    BY <2>1, <2>2, <2>4, SizesAssumption
  <2> QED BY <2>1, <2>2, <2>5
<1> QED BY <1>2, <1>3
-----------------------------------------------------------------------------
\* What a flush does to each part of the invariant: it is the step that moves
\* next_offset, and the only one that writes to the file.
LEMMA FlushTypes ==
  ASSUME TypeOK, BioFlush
  PROVE  /\ file' \in [Offsets -> Cells] /\ file_size' \in 0..FileCap
         /\ next_offset' \in 0..FileCap /\ lost' \in SUBSET Offsets
         /\ next_offset' = next_offset + FlushSize
         /\ FlushSize \in Nat /\ buffer_pos <= FlushSize /\ FlushSize <= BufferSize
         /\ file_size <= file_size' /\ file_size' \in Nat
         /\ \A o \in Offsets : o < next_offset => file'[o] = file[o]
<1>1. FlushSize \in Nat /\ buffer_pos <= FlushSize /\ FlushSize <= BufferSize
  <2>1. buffer_pos \in Nat /\ buffer_pos <= BufferSize
    BY Sizes DEF TypeOK
  <2> QED BY <2>1, RoundUpBounds DEF FlushSize
<1>2. PICK k \in Persisted(FlushSize) : FlushTo(k)
  BY DEF BioFlush
<1>3. k \in 0..FlushSize
  BY <1>1 DEF Persisted
<1>4. next_offset + FlushSize <= FileCap
  BY DEF BioFlush
<1>5. next_offset' = next_offset + FlushSize /\ next_offset' \in 0..FileCap
  BY <1>1, <1>2, <1>4, Sizes DEF FlushTo, FlushPos, TypeOK
<1>6. file' \in [Offsets -> Cells]
  <2>1. ASSUME NEW o \in next_offset..(next_offset + k - 1)
        PROVE  o - next_offset \in 0..(BufferSize - 1)
    BY <1>1, <1>3, Sizes DEF TypeOK
  <2> QED BY <1>2, <2>1 DEF FlushTo, FlushPos, TypeOK
<1>7. file_size' \in 0..FileCap /\ file_size <= file_size'
  BY <1>1, <1>2, <1>3, <1>4, Sizes DEF FlushTo, FlushPos, TypeOK, Larger
<1>8. lost' \in SUBSET Offsets
  BY <1>1, <1>2, <1>3, <1>4, Sizes DEF FlushTo, FlushPos, TypeOK, Offsets
<1>9. \A o \in Offsets : o < next_offset => file'[o] = file[o]
  BY <1>2, <1>3 DEF FlushTo, FlushPos, TypeOK, Offsets
<1> QED BY <1>1, <1>5, <1>6, <1>7, <1>8, <1>9

\* bio_flush leaves every cell of the log where its offset says (utils.c:113-116).
LEMMA FlushCells ==
  ASSUME IInv, BioFlush
  PROVE  /\ \A r \in records :
              /\ r.pos + r.size <= next_offset'
              /\ \A o \in r.pos..(r.pos + r.size - 1) :
                   o \notin lost' => file'[o] = r.id /\ o < file_size'
         /\ lost \subseteq lost'
         /\ ~IOErrors => lost' = {} /\ next_offset' <= file_size'
<1> USE DEF IInv
<1>1. PICK k \in Persisted(FlushSize) : FlushTo(k)
  BY DEF BioFlush
<1>2. /\ FlushSize \in Nat /\ buffer_pos <= FlushSize /\ FlushSize <= BufferSize
      /\ next_offset' = next_offset + FlushSize
      /\ file_size <= file_size' /\ file_size' \in Nat
      /\ next_offset' \in 0..FileCap
  BY FlushTypes
<1>3. k \in 0..FlushSize /\ (~IOErrors => k = FlushSize)
  BY <1>2 DEF Persisted
<1>4. lost \subseteq lost'
  BY <1>1 DEF FlushTo, FlushPos
<1>5. ASSUME NEW r \in records
      PROVE  /\ r.pos + r.size <= next_offset'
             /\ \A o \in r.pos..(r.pos + r.size - 1) :
                  o \notin lost' => file'[o] = r.id /\ o < file_size'
  <2>1. r \in Records /\ r.pos \in Nat /\ r.size \in Nat
    BY Sizes DEF TypeOK, Records, Offsets
  <2>2. r.pos + r.size <= next_offset + buffer_pos
    BY DEF SessionInv
  <2>3. r.pos + r.size <= next_offset'
    BY <1>2, <2>1, <2>2 DEF TypeOK
  <2>4. ASSUME NEW o \in r.pos..(r.pos + r.size - 1), o \notin lost'
        PROVE  file'[o] = r.id /\ o < file_size'
    <3>1. o \in Nat /\ o < next_offset' /\ o \in Offsets
      BY <1>2, <2>1, <2>3, Sizes DEF Offsets
    <3>2. o \notin lost /\ CellAt(o) = r.id
      BY <1>4, <2>4 DEF LogIntact
    <3>3. CASE o < next_offset
      <4>1. o < file_size
        BY <3>2, <3>3 DEF PersistedInv
      <4>2. file'[o] = file[o]
        BY <3>1, <3>3, FlushTypes
      <4> QED BY <1>2, <3>1, <3>2, <3>3, <4>1, <4>2 DEF CellAt, TypeOK
    <3>4. CASE o >= next_offset
      <4>1. o < next_offset + k
        BY <1>1, <1>2, <1>3, <2>4, <3>1, <3>4 DEF FlushTo, FlushPos, TypeOK
      <4>2. file'[o] = buffer[o - next_offset]
        BY <1>1, <3>1, <3>4, <4>1, <1>3 DEF FlushTo, FlushPos, TypeOK
      <4>3. o < file_size'
        BY <1>1, <1>3, <3>1, <3>4, <4>1 DEF FlushTo, FlushPos, TypeOK, Larger
      <4> QED BY <3>1, <3>2, <3>4, <4>2, <4>3 DEF CellAt, TypeOK
    <3> QED BY <3>1, <3>3, <3>4 DEF TypeOK
  <2> QED BY <2>3, <2>4
<1>6. ASSUME ~IOErrors PROVE lost' = {} /\ next_offset' <= file_size'
  BY <1>1, <1>2, <1>3, <1>6 DEF FlushTo, FlushPos, TypeOK, PersistedInv, Larger
<1> QED BY <1>4, <1>5, <1>6
\* The header and the data of a record lie inside it.
LEMMA PartsTyped ==
  ASSUME records \subseteq Records, NEW r \in records, NEW part \in Parts(r)
  PROVE  /\ part[1] \in Nat /\ part[2] \in Nat \ {0}
         /\ r.pos <= part[1] /\ part[1] + part[2] <= r.pos + r.size
         /\ part[2] + SectorSize <= ReadBufferSize
         /\ r.pos \in Offsets /\ r.size \in Nat
<1>1. r.pos \in Offsets /\ r.size \in HeaderSize..(HeaderSize + MaxData)
  BY DEF Records
<1>2. r.pos \in Nat /\ r.size \in Nat /\ r.size >= HeaderSize /\ r.size - HeaderSize <= MaxData
  BY <1>1, Sizes DEF Offsets
<1>3. CASE part = <<r.pos, HeaderSize>>
  BY <1>1, <1>2, <1>3, Sizes
<1>4. CASE r.size > HeaderSize /\ part = <<r.pos + HeaderSize, r.size - HeaderSize>>
  BY <1>1, <1>2, <1>4, Sizes
<1> QED BY <1>3, <1>4 DEF Parts

-----------------------------------------------------------------------------
\* The initial state is typed.
LEMMA TypeInit == Init => TypeOK
<1> SUFFICES ASSUME Init PROVE TypeOK
  OBVIOUS
<1>1. 0 \in Cells /\ 0 \in 0..FileCap /\ 0 \in 0..BufferSize /\ 0 \in 0..MaxWrites
  BY Sizes DEF Cells
<1>2. /\ file \in [Offsets -> Cells]
      /\ buffer \in [0..(BufferSize - 1) -> Cells]
      /\ read_buffer \in [0..(ReadBufferSize - 1) -> Cells]
  BY <1>1 DEF Init
<1> QED BY <1>1, <1>2 DEF Init, TypeOK

\* Every variable keeps its type and every position stays inside its buffer or
\* file, for all sizes, with or without I/O errors: in particular a flush
\* rounded up to a sector never reads past the append buffer (utils.c:109,114).
THEOREM TypeCorrect == Spec => []TypeOK
<1>1. Init => TypeOK
  BY TypeInit
<1>2. TypeOK /\ [Next]_vars => TypeOK'
  <2> SUFFICES ASSUME TypeOK, [Next]_vars PROVE TypeOK'
    OBVIOUS
  <2>1. ASSUME NEW ro \in BOOLEAN, BioInit(ro) PROVE TypeOK'
    <3>1. 0 \in Cells /\ 0 \in 0..FileCap /\ 0 \in 0..BufferSize
      BY Sizes DEF Cells
    <3>2. /\ buffer' \in [0..(BufferSize - 1) -> Cells]
          /\ read_buffer' \in [0..(ReadBufferSize - 1) -> Cells]
      BY <2>1, <3>1 DEF BioInit
    <3> QED BY <2>1, <3>1, <3>2 DEF TypeOK, BioInit, file_vars
  <2>2. CASE BioFinalize
    <3>1. /\ file' \in [Offsets -> Cells] /\ file_size' \in 0..FileCap
          /\ next_offset' \in 0..FileCap /\ lost' \subseteq Offsets
      BY <2>2, FlushTypes DEF BioFinalize, TypeOK
    <3>2. header' \in 0..FileCap /\ buffer_pos' \in 0..BufferSize
      BY <2>2, <3>1, Sizes DEF BioFinalize, TypeOK
    <3> QED BY <2>2, <3>1, <3>2 DEF BioFinalize, TypeOK, read_vars
  <2>3. ASSUME NEW size \in HeaderSize..(HeaderSize + MaxData), BioWrite(size)
        PROVE  TypeOK'
    <3>0. size \in Nat /\ size \in 1..BufferSize
      BY Sizes
    <3>1. /\ file' \in [Offsets -> Cells] /\ file_size' \in 0..FileCap
          /\ next_offset' \in 0..FileCap /\ lost' \subseteq Offsets
      BY <2>3, FlushTypes DEF BioWrite, TypeOK
    <3>2. writes + 1 \in Cells /\ writes' = writes + 1 /\ writes' \in 0..MaxWrites
      BY <2>3, Sizes DEF BioWrite, TypeOK, Cells
    <3>3. buffer_pos' \in size..BufferSize
      <4>1. CASE ~Fits(size)
        BY <2>3, <3>0, <4>1, Sizes DEF BioWrite, TypeOK, Fits
      <4>2. CASE Fits(size)
        BY <2>3, <3>0, <4>2, Sizes DEF BioWrite, TypeOK, Fits
      <4> QED BY <4>1, <4>2
    <3>4. buffer' \in [0..(BufferSize - 1) -> Cells]
      BY <2>3, <3>2 DEF BioWrite, TypeOK, Stored
    <3>5. /\ next_offset' + buffer_pos' - size \in Offsets
          /\ next_offset' + buffer_pos' - size + size <= FileCap
      <4>1. next_offset' + BufferSize <= FileCap
        BY <2>3 DEF BioWrite
      <4>2. next_offset' \in Nat /\ buffer_pos' \in Nat
        BY <3>0, <3>1, <3>3, Sizes
      <4>3. size <= buffer_pos' /\ buffer_pos' <= BufferSize /\ 1 <= size
        BY <3>0, <3>3
      <4>4. next_offset' + buffer_pos' - size \in 0..(FileCap - 1)
        BY <3>0, <4>1, <4>2, <4>3, Sizes, RecordFits
      <4> QED BY <3>0, <4>1, <4>2, <4>3, <4>4, Sizes, RecordFits DEF Offsets
    <3>6. records' \subseteq Records /\ \A r \in records' : r.pos + r.size <= FileCap
      BY <2>3, <3>0, <3>2, <3>5 DEF BioWrite, TypeOK, Records
    <3>7. buffer_pos' \in 0..BufferSize
      BY <3>0, <3>3, Sizes
    <3> QED BY <2>3, <3>1, <3>2, <3>4, <3>6, <3>7 DEF BioWrite, TypeOK, read_vars
  <2>4. ASSUME NEW pos \in Nat, NEW size \in Nat, pos <= FileCap, BioRead(pos, size)
        PROVE  TypeOK'
    <3>1. RoundDown(pos, SectorSize) \in 0..FileCap /\ RoundDown(pos, SectorSize) \in Nat
      BY <2>4, RoundDownBounds, Sizes
    <3>2. ASSUME NEW e \in Delivered(RoundDown(pos, SectorSize))
          PROVE  /\ e \in Nat
                 /\ Filled(RoundDown(pos, SectorSize), e) \in [0..(ReadBufferSize - 1) -> Cells]
      <4>1. e \in 0..FileCap
        BY <3>1, <3>2, Sizes DEF Delivered, Larger, TypeOK
      <4>2. ASSUME NEW i \in 0..(ReadBufferSize - 1), RoundDown(pos, SectorSize) + i < e
            PROVE  RoundDown(pos, SectorSize) + i \in Offsets
        BY <3>1, <4>1, <4>2, Sizes DEF Offsets
      <4> QED BY <4>1, <4>2, Sizes DEF Filled, TypeOK
    <3>3. fill_limit' \in 0..FileCap
      BY <2>4, <3>2, Sizes DEF BioRead, BioReadMiss, TypeOK, Smaller, read_vars
    <3>4. /\ read_buffer' \in [0..(ReadBufferSize - 1) -> Cells]
          /\ read_buffer_pos' \in 0..FileCap /\ read_buffer_enable' \in BOOLEAN
      BY <2>4, <3>1, <3>2 DEF BioRead, BioReadMiss, TypeOK, read_vars
    <3> QED BY <2>4, <3>3, <3>4 DEF BioRead, TypeOK, file_vars
  <2>5. CASE Kill
    <3>1. records' \subseteq records /\ lost' \subseteq lost
      BY <2>5 DEF Kill
    <3>2. next_offset' \in 0..FileCap /\ buffer_pos' \in 0..BufferSize
      BY <2>5, Sizes DEF Kill, TypeOK
    <3> QED BY <2>5, <3>1, <3>2 DEF Kill, TypeOK, file_vars, read_vars
  <2>6. CASE UNCHANGED vars
    BY <2>6 DEF TypeOK, vars, file_vars, read_vars
  <2>7. ASSUME NEW r \in records, NEW part \in Parts(r)
        PROVE  part[1] \in Nat /\ part[2] \in Nat /\ part[1] <= FileCap
    <3>1. records \subseteq Records /\ r.pos + r.size <= FileCap
      BY DEF TypeOK
    <3>2. /\ part[1] \in Nat /\ part[2] \in Nat /\ part[1] + part[2] <= r.pos + r.size
          /\ r.pos \in Nat /\ r.size \in Nat
      BY <3>1, PartsTyped DEF Offsets
    <3> QED BY <3>1, <3>2, Sizes
  <2>8. ASSUME NEW n \in 0..MaxData PROVE HeaderSize + n \in HeaderSize..(HeaderSize + MaxData)
    BY Sizes
  <2> QED BY <2>1, <2>2, <2>3, <2>4, <2>5, <2>6, <2>7, <2>8 DEF Next
<1> QED BY <1>1, <1>2, PTL DEF Spec
-----------------------------------------------------------------------------
\* The records are typed and lie below the end of the file's address space.
LEMMA RecordsTyped ==
  ASSUME TypeOK, NEW r \in records
  PROVE  r.pos \in Nat /\ r.size \in Nat /\ r.id \in Nat /\ r.pos + r.size <= FileCap
BY Sizes DEF TypeOK, Records, Offsets, Cells

\* The invariant holds of a fresh image.
LEMMA InitIInv == Init => IInv
<1> SUFFICES ASSUME Init PROVE IInv
  OBVIOUS
<1>1. TypeOK
  BY TypeInit
<1>2. SessionInv /\ LogIntact /\ PersistedInv /\ WindowInv
  BY DEF Init, SessionInv, LogIntact, PersistedInv, WindowInv
<1> QED BY <1>1, <1>2 DEF IInv

\* bio_init: the log ends where the header says, and the read buffer is empty.
LEMMA InitStep ==
  ASSUME IInv, TypeOK', NEW ro \in BOOLEAN, BioInit(ro)
  PROVE  SessionInv' /\ LogIntact' /\ PersistedInv' /\ WindowInv'
<1> USE DEF IInv, BioInit, file_vars
<1>1. next_offset' = next_offset /\ next_offset = header /\ next_offset \in Nat
      /\ buffer_pos = 0 /\ buffer_pos' = 0
  BY Sizes DEF SessionInv, TypeOK
<1>2. \A r \in records : r.pos + r.size <= next_offset /\ r.pos \in Nat /\ r.size \in Nat
  BY <1>1, RecordsTyped, Sizes DEF SessionInv
<1>3. SessionInv'
  BY <1>1, <1>2 DEF SessionInv
<1>4. LogIntact'
  <2> SUFFICES ASSUME NEW r \in records, NEW o \in r.pos..(r.pos + r.size - 1), o \notin lost
               PROVE  CellAt(o)' = r.id
    BY <1>1, <1>2 DEF LogIntact
  <2>1. o < next_offset
    BY <1>1, <1>2
  <2> QED BY <1>1, <2>1 DEF LogIntact, CellAt
<1>5. PersistedInv'
  BY <1>1 DEF PersistedInv
<1>6. WindowInv'
  BY DEF WindowInv
<1> QED BY <1>3, <1>4, <1>5, <1>6

\* bio_finalize: the last flush, after which the header moves to next_offset.
LEMMA FinalizeStep ==
  ASSUME IInv, TypeOK', BioFinalize
  PROVE  SessionInv' /\ LogIntact' /\ PersistedInv' /\ WindowInv'
<1> USE DEF IInv
<1>1. WindowInv'
  BY DEF BioFinalize, WindowInv
<1>2. CASE read_only \/ buffer_pos = 0
  <2>1. /\ next_offset' = next_offset /\ file' = file /\ file_size' = file_size
        /\ lost' = lost /\ records' = records /\ buffer' = buffer
        /\ header' = next_offset' /\ next_offset \in Nat /\ buffer_pos = 0 /\ buffer_pos' = 0
    BY <1>2, Sizes DEF BioFinalize, SessionInv, TypeOK
  <2>2. SessionInv'
    BY <2>1 DEF SessionInv
  <2>3. LogIntact' /\ PersistedInv'
    BY <2>1 DEF LogIntact, CellAt, PersistedInv
  <2> QED BY <1>1, <2>2, <2>3
<1>3. CASE ~(read_only \/ buffer_pos = 0)
  <2>1. /\ BioFlush /\ header' = next_offset' /\ buffer_pos' = 0
        /\ records' = records
    BY <1>3 DEF BioFinalize
  <2>2. next_offset' \in Nat
    BY Sizes DEF TypeOK
  <2>3. \A r \in records : r.pos + r.size <= next_offset' /\ r.pos \in Nat /\ r.size \in Nat
    BY <2>1, FlushCells, RecordsTyped
  <2>4. SessionInv'
    BY <2>1, <2>2, <2>3 DEF SessionInv
  <2>5. LogIntact'
    <3> SUFFICES ASSUME NEW r \in records, NEW o \in r.pos..(r.pos + r.size - 1), o \notin lost'
                 PROVE  CellAt(o)' = r.id
      BY <2>1, <2>3 DEF LogIntact
    <3>1. o < next_offset'
      BY <2>2, <2>3
    <3> QED BY <2>1, <3>1, FlushCells DEF CellAt
  <2>6. PersistedInv'
    BY <2>1, FlushCells DEF PersistedInv
  <2> QED BY <1>1, <2>4, <2>5, <2>6
<1> QED BY <1>2, <1>3

\* A kill: what remains are the records below the header.
LEMMA KillStep ==
  ASSUME IInv, TypeOK', Kill
  PROVE  SessionInv' /\ LogIntact' /\ PersistedInv' /\ WindowInv'
<1> USE DEF IInv, Kill, file_vars, read_vars
<1>1. /\ next_offset' = header /\ header \in Nat /\ next_offset \in Nat /\ buffer_pos' = 0
      /\ header <= next_offset /\ file' = file /\ file_size' = file_size /\ header' = header
  BY Sizes DEF SessionInv, TypeOK
<1>2. ASSUME NEW r \in records'
      PROVE  /\ r \in records /\ r.pos + r.size <= header /\ r.pos \in Nat /\ r.size \in Nat
             /\ \A o \in r.pos..(r.pos + r.size - 1) : o < header /\ o < next_offset
             /\ \A o \in r.pos..(r.pos + r.size - 1) : o \notin lost' => o \notin lost
  <2>1. r \in records /\ r.pos + r.size <= header
    OBVIOUS
  <2>2. r.pos \in Nat /\ r.size \in Nat
    BY <2>1, RecordsTyped
  <2> QED BY <1>1, <2>1, <2>2
<1>3. SessionInv'
  BY <1>1, <1>2 DEF SessionInv
<1>4. LogIntact'
  BY <1>1, <1>2 DEF LogIntact, CellAt
<1>5. PersistedInv'
  <2>1. ~IOErrors => lost' = {} /\ next_offset' <= file_size'
    BY <1>1, Sizes DEF PersistedInv, TypeOK
  <2> QED BY <1>1, <1>2, <2>1 DEF PersistedInv
<1>6. WindowInv'
  BY DEF WindowInv
<1> QED BY <1>3, <1>4, <1>5, <1>6

\* bio_read: a miss fills the window from the file up to the end of the log.
LEMMA ReadStep ==
  ASSUME IInv, TypeOK', NEW r \in records, NEW part \in Parts(r), BioRead(part[1], part[2])
  PROVE  SessionInv' /\ LogIntact' /\ PersistedInv' /\ WindowInv'
<1>0. /\ file' = file /\ file_size' = file_size /\ header' = header /\ open' = open
      /\ read_only' = read_only /\ next_offset' = next_offset /\ buffer' = buffer
      /\ buffer_pos' = buffer_pos /\ records' = records /\ lost' = lost
      /\ (UNCHANGED read_vars \/ BioReadMiss(part[1], part[2]))
  BY DEF BioRead, file_vars
<1> USE DEF IInv
<1>1. SessionInv' /\ LogIntact' /\ PersistedInv'
  BY <1>0 DEF SessionInv, LogIntact, CellAt, PersistedInv
<1>2. CASE UNCHANGED read_vars
  <2>1. /\ read_buffer' = read_buffer /\ read_buffer_pos' = read_buffer_pos
        /\ read_buffer_enable' = read_buffer_enable /\ fill_limit' = fill_limit
    BY <1>2 DEF read_vars
  <2> QED BY <1>0, <1>1, <2>1 DEF WindowInv
<1>3. CASE BioReadMiss(part[1], part[2])
  <2> DEFINE p == RoundDown(part[1], SectorSize)
  <2>1. p \in Nat
    BY PartsTyped, RoundDownBounds DEF TypeOK
  <2>2. read_buffer_pos' = p
    BY <1>3 DEF BioReadMiss
  <2>3. next_offset \in Nat /\ file_size \in Nat /\ ReadBufferSize \in Nat
    BY Sizes DEF TypeOK
  <2> HIDE DEF p
  <2>4. PICK e \in Delivered(p) : /\ read_buffer' = Filled(p, e)
                                 /\ fill_limit' = Smaller(e, next_offset)
    BY <1>3 DEF BioReadMiss, p
  <2>5. e \in Nat
    BY <2>1, <2>3, <2>4 DEF Delivered, Larger
  <2>6. fill_limit' \in Nat /\ fill_limit' <= next_offset /\ fill_limit' <= e
    BY <2>3, <2>4, <2>5 DEF Smaller
  <2>7. \A i \in 0..(ReadBufferSize - 1) :
           read_buffer_pos' + i < fill_limit' => read_buffer'[i] = file'[read_buffer_pos' + i]
    BY <1>0, <2>1, <2>2, <2>3, <2>4, <2>5, <2>6 DEF Filled
  <2>8. ~IOErrors => fill_limit' = next_offset
    BY <2>3, <2>4 DEF Smaller, Delivered, PersistedInv
  <2>9. ~IOErrors => \A q \in records' : q.pos + q.size <= fill_limit' \/ q.pos >= fill_limit'
    BY <1>0, <2>8 DEF LogIntact
  <2>10. WindowInv'
    BY <1>0, <2>6, <2>7, <2>8, <2>9 DEF WindowInv
  <2> QED BY <1>1, <2>10
<1> QED BY <1>0, <1>1, <1>2, <1>3
\* bio_write: the new record starts where all earlier ones end, so copying it
\* into the buffer, flushed or not, disturbs none of them.
LEMMA WriteStep ==
  ASSUME IInv, TypeOK', NEW size \in HeaderSize..(HeaderSize + MaxData), BioWrite(size)
  PROVE  SessionInv' /\ LogIntact' /\ PersistedInv' /\ WindowInv'
<1> USE DEF IInv
<1> DEFINE start == buffer_pos' - size
           new == [pos |-> next_offset' + buffer_pos' - size, size |-> size, id |-> writes + 1]
<1>1. /\ size \in Nat \ {0} /\ size <= BufferSize /\ BufferSize \in Nat
      /\ next_offset \in Nat /\ next_offset' \in Nat /\ buffer_pos \in Nat /\ buffer_pos' \in Nat
      /\ header \in Nat /\ file_size \in Nat /\ file_size' \in Nat
  BY Sizes DEF TypeOK
<1>2. /\ records' = records \cup {new} /\ open' = open /\ open /\ read_only' = read_only
      /\ ~read_only /\ header' = header /\ read_buffer' = read_buffer
      /\ read_buffer_pos' = read_buffer_pos /\ read_buffer_enable' = read_buffer_enable
      /\ fill_limit' = fill_limit
  BY DEF BioWrite, read_vars
<1>3. /\ start \in Nat /\ next_offset <= next_offset' /\ file_size <= file_size'
      /\ lost \subseteq lost'
      /\ \A o \in Offsets : o < next_offset => file'[o] = file[o]
      /\ buffer' = Stored(start, size, writes + 1) /\ start + size <= BufferSize
      /\ \A r \in records : r.pos + r.size <= next_offset' + start
      /\ \A r \in records :
           \/ /\ r.pos + r.size <= next_offset'
              /\ \A o \in r.pos..(r.pos + r.size - 1) :
                   o \notin lost' => file'[o] = r.id /\ o < file_size'
           \/ /\ r.pos >= next_offset' /\ start = buffer_pos
              /\ next_offset' = next_offset /\ lost' = lost
      /\ ~IOErrors => lost' = {} /\ next_offset' <= file_size'
  <2>1. CASE ~Fits(size)
    <3>1. BioFlush /\ buffer' = Stored(0, size, writes + 1) /\ buffer_pos' = size
      BY <2>1 DEF BioWrite
    <3>2. start = 0
      BY <1>1, <3>1
    <3>3. next_offset' = next_offset + FlushSize /\ FlushSize \in Nat /\ file_size <= file_size'
          /\ \A o \in Offsets : o < next_offset => file'[o] = file[o]
      BY <3>1, FlushTypes
    <3>4. next_offset' + 0 = next_offset' /\ next_offset <= next_offset' /\ 0 + size <= BufferSize
      BY <1>1, <3>3
    <3> QED BY <3>1, <3>2, <3>3, <3>4, FlushCells
  <2>2. CASE Fits(size)
    <3>1. /\ buffer' = Stored(buffer_pos, size, writes + 1) /\ buffer_pos' = buffer_pos + size
          /\ file' = file /\ file_size' = file_size /\ next_offset' = next_offset /\ lost' = lost
      BY <2>2 DEF BioWrite
    <3>2. start = buffer_pos /\ start + size <= BufferSize
      BY <1>1, <2>2, <3>1 DEF Fits
    <3>3. ASSUME NEW r \in records
          PROVE  \/ /\ r.pos + r.size <= next_offset
                    /\ \A o \in r.pos..(r.pos + r.size - 1) :
                         o \notin lost => file[o] = r.id /\ o < file_size
                 \/ r.pos >= next_offset
      <4>1. r.pos \in Nat /\ r.size \in Nat
        BY RecordsTyped
      <4>2. ASSUME r.pos + r.size <= next_offset, NEW o \in r.pos..(r.pos + r.size - 1),
                   o \notin lost
            PROVE  file[o] = r.id /\ o < file_size
        <5>1. o < next_offset
          BY <1>1, <4>1, <4>2
        <5> QED BY <4>2, <5>1 DEF LogIntact, CellAt, PersistedInv
      <4> QED BY <4>2 DEF LogIntact
    <3>4. \A r \in records : r.pos + r.size <= next_offset' + start
      BY <3>1, <3>2 DEF SessionInv
    <3> QED BY <1>1, <3>1, <3>2, <3>3, <3>4 DEF PersistedInv
  <2> QED BY <2>1, <2>2
<1>4. new.pos = next_offset' + start /\ new.size = size /\ new.id = writes + 1
      /\ new.pos \in Nat /\ new.pos >= next_offset'
      /\ new.pos + new.size = next_offset' + buffer_pos'
  <2>1. new.pos = next_offset' + buffer_pos' - size /\ new.size = size /\ new.id = writes + 1
    OBVIOUS
  <2>2. start \in Nat
    BY <1>3
  <2>3. /\ next_offset' + buffer_pos' - size = next_offset' + start
        /\ next_offset' + start \in Nat /\ next_offset' <= next_offset' + start
        /\ next_offset' + start + size = next_offset' + buffer_pos'
    BY <1>1, <2>2, Sums
  <2> HIDE DEF start, new
  <2> QED BY <1>1, <2>1, <2>3
<1>5. next_offset' + start <= next_offset' + buffer_pos' /\ next_offset' + start \in Nat
  BY <1>1, <1>3, Sums
<1> HIDE DEF start, new
<1>6. SessionInv'
  <2>1. header' <= next_offset'
    BY <1>1, <1>2, <1>3 DEF SessionInv
  <2>2. ASSUME NEW r \in records' PROVE r.pos + r.size <= next_offset' + buffer_pos'
    <3>1. CASE r = new
      BY <1>1, <1>4, <3>1
    <3>2. CASE r \in records
      <4>1. r.pos + r.size \in Nat
        BY <3>2, RecordsTyped
      <4>2. r.pos + r.size <= next_offset' + start
        BY <1>3, <3>2
      <4> QED BY <1>1, <1>5, <4>1, <4>2
    <3> QED BY <1>2, <3>1, <3>2
  <2> QED BY <1>2, <2>1, <2>2 DEF SessionInv
<1>7. LogIntact'
  <2> SUFFICES ASSUME NEW r \in records'
               PROVE  /\ r.pos + r.size <= next_offset' \/ r.pos >= next_offset'
                      /\ \A o \in r.pos..(r.pos + r.size - 1) :
                           o \notin lost' => CellAt(o)' = r.id
    BY DEF LogIntact
  <2>1. CASE r = new
    <3>1. ASSUME NEW o \in new.pos..(new.pos + new.size - 1) PROVE CellAt(o)' = new.id
      <4>1. o >= next_offset' /\ o - next_offset' \in start..(start + size - 1)
            /\ o - next_offset' \in 0..(BufferSize - 1) /\ ~(o < next_offset')
        <5>1. o \in (next_offset' + start)..(next_offset' + start + size - 1) /\ o \in Nat
          BY <1>1, <1>4
        <5>2. start \in Nat /\ start + size <= BufferSize
          BY <1>3
        <5> QED BY <1>1, <5>1, <5>2, Shift
      <4> QED BY <1>3, <1>4, <4>1 DEF CellAt, Stored
    <3> QED BY <1>4, <2>1, <3>1
  <2>2. CASE r \in records
    <3>1. r.pos \in Nat /\ r.size \in Nat /\ r.pos + r.size <= FileCap /\ FileCap \in Nat
      BY <2>2, RecordsTyped, Sizes
    <3>2. CASE r.pos + r.size <= next_offset' /\
               \A o \in r.pos..(r.pos + r.size - 1) : o \notin lost' => file'[o] = r.id
      <4>1. \A o \in r.pos..(r.pos + r.size - 1) : o < next_offset'
        BY <1>1, <3>1, <3>2
      <4> QED BY <3>2, <4>1 DEF CellAt
    <3>3. CASE r.pos >= next_offset' /\ start = buffer_pos /\ next_offset' = next_offset
               /\ lost' = lost
      <4>1. ASSUME NEW o \in r.pos..(r.pos + r.size - 1), o \notin lost
            PROVE  CellAt(o)' = r.id
        <5>1. o - next_offset \in 0..(start - 1) /\ ~(o < next_offset)
              /\ o - next_offset \in 0..(BufferSize - 1)
              /\ ~(o - next_offset \in start..(start + size - 1))
          BY <1>1, <1>3, <2>2, <3>1, <3>3
        <5>2. CellAt(o)' = buffer'[o - next_offset] /\ CellAt(o) = buffer[o - next_offset]
          BY <3>3, <5>1 DEF CellAt
        <5>3. buffer'[o - next_offset] = buffer[o - next_offset]
          BY <1>3, <5>1 DEF Stored
        <5> QED BY <2>2, <4>1, <5>2, <5>3 DEF LogIntact
      <4> QED BY <3>3, <4>1
    <3> QED BY <1>3, <2>2, <3>2, <3>3
  <2> QED BY <1>2, <2>1, <2>2
<1>8. PersistedInv'
  <2>1. ASSUME NEW r \in records', NEW o \in r.pos..(r.pos + r.size - 1),
               o < next_offset', o \notin lost'
        PROVE  o < file_size'
    <3>1. CASE r = new
      BY <1>1, <1>4, <2>1, <3>1
    <3>2. CASE r \in records
      BY <1>1, <1>3, <2>1, <3>2, RecordsTyped
    <3> QED BY <1>2, <3>1, <3>2
  <2> QED BY <1>3, <2>1 DEF PersistedInv
<1>9. WindowInv'
  <2> SUFFICES ASSUME open', read_buffer_enable' PROVE WindowInv'
    BY DEF WindowInv
  <2>0. fill_limit \in Nat /\ read_buffer_pos \in Nat /\ ReadBufferSize \in Nat /\ FileCap \in Nat
    BY Sizes DEF TypeOK
  <2>1. fill_limit' <= next_offset'
    BY <1>1, <1>2, <1>3, <2>0 DEF WindowInv
  <2>2. ASSUME NEW i \in 0..(ReadBufferSize - 1), read_buffer_pos + i < fill_limit
        PROVE  read_buffer[i] = file'[read_buffer_pos + i]
    <3>1. read_buffer_pos + i < next_offset /\ read_buffer_pos + i \in Offsets
      BY <1>1, <1>2, <2>0, <2>2 DEF WindowInv, TypeOK, Offsets
    <3> QED BY <1>2, <1>3, <2>2, <3>1 DEF WindowInv
  <2>3. ASSUME ~IOErrors, NEW r \in records'
        PROVE  r.pos + r.size <= fill_limit \/ r.pos >= fill_limit
    <3>1. CASE r = new
      BY <1>1, <1>2, <1>4, <2>0, <2>1, <3>1
    <3>2. CASE r \in records
      BY <1>2, <2>3, <3>2 DEF WindowInv
    <3> QED BY <1>2, <3>1, <3>2
  <2> QED BY <1>2, <2>1, <2>2, <2>3 DEF WindowInv
<1> QED BY <1>6, <1>7, <1>8, <1>9
-----------------------------------------------------------------------------
\* A step that changes nothing keeps the invariant.
LEMMA StutterStep ==
  ASSUME IInv, UNCHANGED vars
  PROVE  SessionInv' /\ LogIntact' /\ PersistedInv' /\ WindowInv'
BY DEF IInv, vars, file_vars, read_vars, SessionInv, LogIntact, CellAt, PersistedInv, WindowInv

\* Types, sessions, records, persistence and the read window hold together in
\* every reachable state; none of them is inductive alone (utils.c:40-118).
THEOREM InductiveInvariant == Spec => []IInv
<1>1. IInv /\ TypeOK' /\ [Next]_vars => IInv'
  <2> SUFFICES ASSUME IInv, TypeOK', [Next]_vars
               PROVE  SessionInv' /\ LogIntact' /\ PersistedInv' /\ WindowInv'
    BY DEF IInv
  <2>1. ASSUME NEW n \in 0..MaxData PROVE HeaderSize + n \in HeaderSize..(HeaderSize + MaxData)
    BY Sizes
  <2>2. ASSUME NEW ro \in BOOLEAN, BioInit(ro)
        PROVE  SessionInv' /\ LogIntact' /\ PersistedInv' /\ WindowInv'
    BY <2>2, InitStep
  <2>3. CASE BioFinalize
    BY <2>3, FinalizeStep
  <2>4. ASSUME NEW n \in 0..MaxData, BioWrite(HeaderSize + n)
        PROVE  SessionInv' /\ LogIntact' /\ PersistedInv' /\ WindowInv'
    BY <2>1, <2>4, WriteStep
  <2>5. ASSUME NEW r \in records, NEW part \in Parts(r), BioRead(part[1], part[2])
        PROVE  SessionInv' /\ LogIntact' /\ PersistedInv' /\ WindowInv'
    BY <2>5, ReadStep
  <2>6. CASE Kill
    BY <2>6, KillStep
  <2>7. CASE UNCHANGED vars
    BY <2>7, StutterStep
  <2> QED BY <2>2, <2>3, <2>4, <2>5, <2>6, <2>7 DEF Next
<1> QED BY <1>1, InitIInv, TypeCorrect, PTL DEF Spec

\* The offset that bio_write returns finds the record ever after (utils.c:79),
\* through flushes, failed writes, closing, reopening and kills.
THEOREM RecordsStayIntact == Spec => []LogIntact
<1>1. IInv => LogIntact
  BY DEF IInv
<1> QED BY <1>1, InductiveInvariant, PTL

\* bio_flush only ever writes at or above next_offset, which is never below the
\* header on disk: the preserved past is not rewritten, by any session.
THEOREM PastIsImmutable == Spec => CommittedImmutable
<1> DEFINE Stable == header' >= header /\ \A o \in Offsets : o < header => file'[o] = file[o]
<1>1. IInv /\ TypeOK' /\ [Next]_vars => [Stable]_vars
  <2> SUFFICES ASSUME IInv, TypeOK', Next PROVE Stable
    BY DEF vars, file_vars, read_vars
  <2>0. header \in Nat /\ next_offset \in Nat /\ next_offset' \in Nat /\ header <= next_offset
    BY Sizes DEF IInv, TypeOK, SessionInv
  <2>1. ASSUME file' = file, header' = header PROVE Stable
    BY <2>0, <2>1
  <2>2. ASSUME BioFlush, header' \in {header, next_offset'} PROVE Stable
    <3>1. /\ next_offset' = next_offset + FlushSize /\ FlushSize \in Nat
          /\ \A o \in Offsets : o < next_offset => file'[o] = file[o]
      BY <2>2, FlushTypes DEF IInv
    <3>2. header' >= header
      BY <2>0, <2>2, <3>1
    <3>3. \A o \in Offsets : o < header => o < next_offset
      BY <2>0 DEF Offsets
    <3> QED BY <3>1, <3>2, <3>3
  <2>3. CASE \E ro \in BOOLEAN : BioInit(ro)
    BY <2>1, <2>3 DEF BioInit, file_vars
  <2>4. CASE BioFinalize
    <3>1. CASE read_only \/ buffer_pos = 0
      <4>1. file' = file /\ next_offset' = next_offset /\ header' \in {header, next_offset}
        BY <2>4, <3>1 DEF BioFinalize
      <4> QED BY <2>0, <4>1
    <3>2. CASE ~(read_only \/ buffer_pos = 0)
      BY <2>2, <2>4, <3>2 DEF BioFinalize
    <3> QED BY <3>1, <3>2
  <2>5. ASSUME NEW n \in 0..MaxData, BioWrite(HeaderSize + n) PROVE Stable
    <3>1. CASE ~Fits(HeaderSize + n)
      BY <2>2, <2>5, <3>1 DEF BioWrite
    <3>2. CASE Fits(HeaderSize + n)
      BY <2>1, <2>5, <3>2 DEF BioWrite
    <3> QED BY <3>1, <3>2
  <2>6. CASE \E r \in records : \E part \in Parts(r) : BioRead(part[1], part[2])
    BY <2>1, <2>6 DEF BioRead, file_vars
  <2>7. CASE Kill
    BY <2>1, <2>7 DEF Kill, file_vars
  <2> QED BY <2>3, <2>4, <2>5, <2>6, <2>7 DEF Next
<1> QED BY <1>1, InductiveInvariant, TypeCorrect, PTL DEF Spec, CommittedImmutable

\* What a cell is that bio_read returns, from whichever of its three sources, in a
\* state of the invariant.
LEMMA CellIsRight ==
  ASSUME IInv, open, NEW r \in records, NEW part \in Parts(r),
         NEW e \in Delivered(RoundDown(part[1], SectorSize)), NEW i \in 0..(part[2] - 1),
         part[1] + i \notin lost, ~Undelivered(part[1], part[2], e, part[1] + i)
  PROVE  CellRead(part[1], part[2], e, i) = r.id
<1> DEFINE pos == part[1]
           size == part[2]
<1>1. /\ pos \in Nat /\ size \in Nat \ {0} /\ r.pos \in Nat /\ r.size \in Nat
      /\ r.pos <= pos /\ pos + size <= r.pos + r.size
      /\ size + SectorSize <= ReadBufferSize
      /\ next_offset \in Nat /\ file_size \in Nat /\ fill_limit \in Nat
      /\ read_buffer_pos \in Nat
  BY PartsTyped, Sizes DEF IInv, TypeOK, Offsets
<1>2. i \in 0..(size - 1) /\ pos + i \notin lost
  OBVIOUS
<1>3. pos + i < next_offset => IF Hit(pos, size) THEN ~(pos + i >= fill_limit) ELSE ~(pos + i >= e)
  BY DEF Undelivered
<1> HIDE DEF pos, size
<1>4. /\ pos + i \in Nat /\ pos + i \in r.pos..(r.pos + r.size - 1)
      /\ pos \in r.pos..(r.pos + r.size - 1) /\ pos <= pos + i
  BY <1>1, <1>2
<1>5. CellAt(pos + i) = r.id
  BY <1>2, <1>4 DEF IInv, LogIntact
<1>6. CASE InBuffer(pos)
  <2>1. ~(pos + i < next_offset) /\ (pos + i) - next_offset = pos - next_offset + i
    BY <1>1, <1>2, <1>6 DEF InBuffer
  <2>2. CellRead(pos, size, e, i) = buffer[pos - next_offset + i]
    BY <1>6 DEF CellRead
  <2>3. CellAt(pos + i) = buffer[(pos + i) - next_offset]
    BY <2>1 DEF CellAt
  <2> QED BY <1>5, <2>1, <2>2, <2>3 DEF pos, size
<1>7. CASE ~InBuffer(pos)
  <2>1. pos + i < next_offset
    BY <1>1, <1>4, <1>7 DEF IInv, LogIntact, InBuffer
  <2>2. file[pos + i] = r.id
    BY <1>5, <2>1 DEF CellAt
  <2>3. CASE Hit(pos, size)
    <3>1. WindowInv /\ open /\ read_buffer_enable
      BY <2>3 DEF IInv, Hit
    <3>2. ~(pos + i >= fill_limit)
      BY <1>3, <2>1, <2>3
    <3>3. pos + i < fill_limit
      BY <1>1, <1>4, <3>2
    <3>4. pos - read_buffer_pos + i \in 0..(ReadBufferSize - 1)
          /\ read_buffer_pos + (pos - read_buffer_pos + i) = pos + i
      BY <1>1, <1>2, <2>3, Sizes DEF Hit
    <3>5. read_buffer[pos - read_buffer_pos + i] = file[pos + i]
      BY <3>1, <3>3, <3>4 DEF WindowInv
    <3>6. CellRead(pos, size, e, i) = read_buffer[pos - read_buffer_pos + i]
      BY <1>7, <2>3 DEF CellRead
    <3> QED BY <2>2, <3>5, <3>6 DEF pos, size
  <2>4. CASE ~Hit(pos, size)
    <3> DEFINE p == RoundDown(pos, SectorSize)
    <3>1. p \in Nat /\ p <= pos /\ pos < p + SectorSize
      BY <1>1, RoundDownBounds
    <3>2. CellRead(pos, size, e, i) = Filled(p, e)[pos - p + i]
      BY <1>7, <2>4 DEF CellRead
    <3>3. e \in Nat
      BY <1>1, <3>1 DEF Delivered, Larger, pos
    <3> HIDE DEF p
    <3>4. ~(pos + i >= e)
      BY <1>3, <2>1, <2>4
    <3>5. pos - p + i \in 0..(ReadBufferSize - 1) /\ p + (pos - p + i) = pos + i /\ pos + i < e
      BY <1>1, <1>2, <1>4, <3>1, <3>3, <3>4, Sizes
    <3>6. Filled(p, e)[pos - p + i] = file[pos + i]
      BY <3>5 DEF Filled
    <3> QED BY <2>2, <3>2, <3>6 DEF pos, size
  <2> QED BY <2>3, <2>4
<1> QED BY <1>6, <1>7

\* bio_read returns of every record what was written, but for the cells that the read() that
\* fills the read buffer did not deliver (utils.c:90, 95): it is wrong for no other reason,
\* whatever the sizes of the buffers and the order of appends, flushes, reads, short reads,
\* failures and kills.
THEOREM ReadsAreRightUnlessStale == Spec => []ReadRightUnlessStale
<1>1. IInv => ReadRightUnlessStale
  BY CellIsRight DEF ReadRightUnlessStale
<1> QED BY <1>1, InductiveInvariant, PTL

\* Where I/O does not fail, every cell of a record is delivered with the record.
LEMMA ReadIsWhole ==
  ASSUME IInv, open, ~IOErrors, NEW r \in records, NEW part \in Parts(r),
         ~StaleHit(part[1], part[2])
  PROVE  Right(part[1], part[2], r.id)
<1> SUFFICES ASSUME NEW e \in Delivered(RoundDown(part[1], SectorSize)), NEW i \in 0..(part[2] - 1)
             PROVE  CellRead(part[1], part[2], e, i) = r.id
  BY DEF Right
<1>1. part[1] + i \notin lost
  BY DEF IInv, PersistedInv
<1>2. ~Undelivered(part[1], part[2], e, part[1] + i)
  <2> SUFFICES ASSUME Undelivered(part[1], part[2], e, part[1] + i) PROVE FALSE
    OBVIOUS
  <2>1. /\ part[1] \in Nat /\ part[2] \in Nat /\ r.pos \in Nat /\ r.size \in Nat
        /\ r.pos <= part[1] /\ part[1] + part[2] <= r.pos + r.size
        /\ next_offset \in Nat /\ file_size \in Nat /\ fill_limit \in Nat
    BY PartsTyped, Sizes DEF IInv, TypeOK, Offsets
  <2>2. part[1] + i < next_offset
    BY DEF Undelivered
  <2>3. part[1] < next_offset
    BY <2>1, <2>2
  <2>4. CASE Hit(part[1], part[2])
    <3>1. ~InBuffer(part[1])
      BY <2>1, <2>3 DEF InBuffer
    <3>2. ~(part[1] >= fill_limit)
      BY <2>4, <3>1 DEF StaleHit
    <3>3. read_buffer_enable
      BY <2>4 DEF Hit
    <3>4. r.pos + r.size <= fill_limit \/ r.pos >= fill_limit
      BY <3>3 DEF IInv, WindowInv
    <3>5. part[1] + i < fill_limit
      BY <2>1, <3>2, <3>4
    <3>6. part[1] + i >= fill_limit
      BY <2>4 DEF Undelivered
    <3> QED BY <2>1, <3>5, <3>6
  <2>5. CASE ~Hit(part[1], part[2])
    <3>1. e = file_size /\ next_offset <= file_size
      BY DEF Delivered, IInv, PersistedInv
    <3>2. part[1] + i >= e
      BY <2>5 DEF Undelivered
    <3> QED BY <2>1, <2>2, <3>1, <3>2
  <2> QED BY <2>4, <2>5
<1> QED BY <1>1, <1>2, CellIsRight

\* Where I/O does not fail, a record is read either right as a whole or from behind the end
\* that the log had when the read buffer was filled (utils.c:90), which is all that the
\* preservation disk above it is modelled to see.
THEOREM RecordsAreReadWhole == Spec => []ReadsAreWhole
<1>1. IInv => ReadsAreWhole
  BY ReadIsWhole DEF ReadsAreWhole
<1> QED BY <1>1, InductiveInvariant, PTL

\* Time travel never reads stale data: where I/O does not fail, every read of a
\* read-only session is right.
THEOREM TimeTravelReadsRight ==
  ASSUME ~IOErrors
  PROVE  Spec => []ReadOnlyReadsRight
<1>1. IInv => ReadOnlyReadsRight
  <2> SUFFICES ASSUME IInv, open, read_only, NEW r \in records, NEW part \in Parts(r)
               PROVE  Right(part[1], part[2], r.id)
    BY DEF ReadOnlyReadsRight
  <2>1. ~StaleHit(part[1], part[2])
    <3> SUFFICES ASSUME StaleHit(part[1], part[2]) PROVE FALSE
      OBVIOUS
    <3>1. fill_limit = next_offset
      BY DEF StaleHit, Hit, IInv, WindowInv
    <3> QED BY <3>1 DEF StaleHit, InBuffer
  <2> QED BY <2>1, ReadIsWhole
<1> QED BY <1>1, InductiveInvariant, PTL
-----------------------------------------------------------------------------
(* The layer as a log of records *)

\* What a flush adds is the append buffer, padded to whole sectors.
LEMMA WholeSectors ==
  ASSUME NEW n \in Nat
  PROVE  RoundUp(n, SectorSize) \in n..(n + SectorSize - 1) /\ RoundUp(n, SectorSize) % SectorSize = 0
<1> DEFINE m == n + SectorSize - 1
           q == m \div SectorSize
<1>1. m \in Nat /\ RoundUp(n, SectorSize) = RoundDown(m, SectorSize)
  BY SizesAssumption DEF RoundUp
<1>2. q \in Nat /\ RoundUp(n, SectorSize) = SectorSize * q
  BY <1>1, SizesAssumption DEF RoundDown
<1>3. RoundUp(n, SectorSize) <= m
  BY <1>1, RoundDownBounds
<1>4. (SectorSize * q) % SectorSize = 0
  <2> HIDE DEF q
  <2> QED  BY <1>2, SizesAssumption
<1> QED  BY <1>2, <1>3, <1>4, RoundUpBounds

LEMMA FlushIsFlushed ==
  ASSUME TypeOK, \/ BioFlush
                 \/ buffer_pos = 0 /\ next_offset' = next_offset
  PROVE  Log!Flushed
<1>1. buffer_pos \in Nat /\ next_offset \in Nat
  BY Sizes DEF TypeOK
<1>2. CASE BioFlush
  <2>1. next_offset' = next_offset + RoundUp(buffer_pos, SectorSize)
    BY <1>2 DEF BioFlush, FlushTo, FlushSize
  <2> QED  BY <1>1, <2>1, WholeSectors DEF Log!Flushed
<1>3. CASE buffer_pos = 0 /\ next_offset' = next_offset
  <2>1. 0 \in buffer_pos..(buffer_pos + SectorSize - 1) /\ 0 % SectorSize = 0 /\ next_offset' = next_offset + 0
    BY <1>1, <1>3, Sizes
  <2> QED  BY <2>1 DEF Log!Flushed
<1> QED  BY <1>2, <1>3

LEMMA WriteAppends ==
  ASSUME IInv, NEW size \in HeaderSize..(HeaderSize + MaxData), BioWrite(size)
  PROVE  Log!Append
<1> DEFINE r == [pos |-> next_offset' + buffer_pos' - size, size |-> size, id |-> writes + 1]
<1>1. open /\ UNCHANGED <<header, open>> /\ Window' = Window
  BY DEF BioWrite, read_vars, Window
<1>2. records' = records \cup {r} /\ r \in records'
  BY DEF BioWrite
<1>3. size \in 1..BufferSize
  BY Sizes
<1>4. \/ buffer_pos + size <= BufferSize /\ next_offset' = next_offset /\ buffer_pos' = buffer_pos + size
      \/ buffer_pos + size > BufferSize /\ Log!Flushed /\ buffer_pos' = size
  <2>1. CASE Fits(size)
    BY <2>1 DEF BioWrite, Fits
  <2>2. CASE ~Fits(size)
    <3>1. BioFlush /\ buffer_pos' = size
      BY <2>2 DEF BioWrite
    <3>2. buffer_pos \in Nat /\ size \in Nat /\ BufferSize \in Nat
      BY Sizes DEF IInv, TypeOK
    <3>3. buffer_pos + size > BufferSize
      BY <2>2, <3>2 DEF Fits
    <3> QED  BY <3>1, <3>3, FlushIsFlushed DEF IInv
  <2> QED  BY <2>1, <2>2
<1>5. r.size = size /\ r.pos = next_offset' + buffer_pos' - r.size
  OBVIOUS
<1> HIDE DEF r
<1> QED  BY <1>1, <1>2, <1>3, <1>4, <1>5 DEF Log!Append, Log!MayRefill

LEMMA ReadReads ==
  ASSUME IInv, ~IOErrors, NEW r \in records, NEW part \in Parts(r), BioRead(part[1], part[2])
  PROVE  Log!Read
<1>1. open /\ UNCHANGED <<header, open, next_offset, buffer_pos, records>>
  BY DEF BioRead, file_vars
<1>2. CASE UNCHANGED read_vars
  BY <1>1, <1>2 DEF read_vars, Window, Log!Read, Log!MayRefill
<1>3. CASE BioReadMiss(part[1], part[2])
  <2>1. part[1] \in Nat
    BY PartsTyped DEF IInv, TypeOK
  <2>2. next_offset \in Nat /\ file_size \in Nat /\ next_offset <= file_size
    BY Sizes DEF IInv, TypeOK, PersistedInv
  <2>3. part[1] \in 0..(next_offset - 1)
    BY <1>3, <2>1, <2>2 DEF BioReadMiss, InBuffer
  <2>4. /\ read_buffer_enable' = TRUE /\ read_buffer_pos' = RoundDown(part[1], SectorSize)
        /\ fill_limit' = Smaller(file_size, next_offset)
    BY <1>3 DEF BioReadMiss, Delivered
  <2>5. fill_limit' = next_offset
    BY <2>2, <2>4 DEF Smaller
  <2>6. Window' = [enable |-> TRUE, pos |-> RoundDown(part[1], SectorSize), limit |-> next_offset]
    BY <1>1, <2>4, <2>5 DEF Window
  <2>7. Log!MayRefill
    <3>1. Window' = [enable |-> TRUE, pos |-> Log!RoundDown(part[1], SectorSize), limit |-> next_offset]
      BY <2>6 DEF RoundDown, Log!RoundDown
    <3> QED  BY <2>3, <3>1 DEF Log!MayRefill
  <2> QED  BY <1>1, <2>7 DEF Log!Read
<1> QED  BY <1>2, <1>3 DEF BioRead

\* Where I/O does not fail, the layer implements a log of records: whatever is buffered, padded,
\* flushed, reopened and killed, a record is where bio_write said, records follow one another,
\* and the read buffer shows what the file held when it was filled (utils.c:40-118).
THEOREM BufferedIOImplementsLog ==
  ASSUME ~IOErrors
  PROVE  Spec => ImplementsLog
<1>1. Init => Log!Init
  BY DEF Init, Window, Log!Init, Log!NoWindow
<1>2. ASSUME IInv, Next PROVE Log!Next
  <2>1. ASSUME NEW ro \in BOOLEAN, BioInit(ro) PROVE Log!Open
    BY <2>1 DEF BioInit, file_vars, Window, Log!Open, Log!NoWindow
  <2>2. CASE BioFinalize
    <3>1. open /\ open' = FALSE /\ buffer_pos' = 0 /\ records' = records /\ Window' = Log!NoWindow
      BY <2>2 DEF BioFinalize, Window, Log!NoWindow
    <3>2. read_only => next_offset = header /\ buffer_pos = 0
      BY <1>2 DEF IInv, SessionInv
    <3>3. Log!Flushed
      BY <1>2, <2>2, <3>2, FlushIsFlushed DEF BioFinalize, IInv
    <3>4. header' = next_offset'
      <4>1. CASE read_only
        <5>1. header' = header /\ next_offset' = next_offset
          BY <2>2, <4>1 DEF BioFinalize
        <5> QED  BY <3>2, <4>1, <5>1
      <4>2. CASE ~read_only
        BY <2>2, <4>2 DEF BioFinalize
      <4> QED  BY <4>1, <4>2
    <3>5. open' \in BOOLEAN
      BY <3>1
    <3>6. Window' = IF open' THEN Window ELSE Log!NoWindow
      BY <3>1
    <3> QED  BY <3>1, <3>3, <3>4, <3>5, <3>6, Zenon DEF Log!Finish, Log!Next
  <2>3. ASSUME NEW n \in 0..MaxData, BioWrite(HeaderSize + n) PROVE Log!Append
    <3>1. HeaderSize + n \in HeaderSize..(HeaderSize + MaxData)
      BY Sizes
    <3> QED  BY <1>2, <2>3, <3>1, WriteAppends
  <2>4. ASSUME NEW r \in records, NEW part \in Parts(r), BioRead(part[1], part[2]) PROVE Log!Read
    BY <1>2, <2>4, ReadReads
  <2>5. CASE Kill
    <3>1. open /\ open' = FALSE /\ Window' = Log!NoWindow
      BY <2>5 DEF Kill, Window, Log!NoWindow
    <3>2. /\ next_offset' = header /\ buffer_pos' = 0 /\ UNCHANGED header
          /\ records' = {r \in records : r.pos + r.size <= header}
      BY <2>5 DEF Kill, file_vars
    <3> QED  BY <3>1, <3>2, Zenon DEF Log!Kill, Log!Next
  <2> QED  BY <1>2, <2>1, <2>2, <2>3, <2>4, <2>5 DEF Next, Log!Next
<1>3. UNCHANGED vars => UNCHANGED Log!log_vars
  BY DEF vars, file_vars, read_vars, Window, Log!log_vars
<1>4. IInv /\ [Next]_vars => [Log!Next]_(Log!log_vars)
  BY <1>2, <1>3
<1> QED  BY <1>1, <1>4, InductiveInvariant, PTL DEF Spec, ImplementsLog, Log!Spec
=============================================================================

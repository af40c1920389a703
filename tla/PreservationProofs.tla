-------------------------- MODULE PreservationProofs --------------------------
(* That the preservation disk keeps every version of every block, for any size
   of disk, block, sector and buffer: its log is laid out and linked as the
   code takes it to be, its chains are the history of what the guest wrote,
   and it implements VersionHistory.  And that a time travel device shows the
   past as it was, for any number of blocks and records, whenever it is opened
   and whatever the driver of the same image does meanwhile. *)
EXTENDS PreservationHistory, TimeTravel, WellFoundedInduction, TLAPS

LEMMA Sizes ==
  /\ NumBlocks \in Nat \ {0} /\ SectorsPerBlock \in Nat \ {0}
  /\ SectorCells \in Nat \ {0} /\ HeaderCells \in Nat \ {0}
  /\ FirstOffset \in Nat \ {0} /\ BufferCells \in Nat
  /\ MaxSecs \in Nat /\ MaxSecs <= SectorsPerBlock /\ MaxRequests \in Nat /\ MaxTime \in Nat
  /\ Sectors \subseteq Nat
BY DiskAssumption DEF Sectors

-----------------------------------------------------------------------------
(* Natural numbers *)

LEMMA LeastNat ==
  ASSUME NEW S, S \subseteq Nat, S # {}
  PROVE  \E n \in S : \A m \in S : n <= m
<1> DEFINE R == OpToRel(<, Nat)
<1>1. \E x \in S : \A y \in S : ~(<<y, x>> \in R)
  <2> HIDE DEF R
  <2>1. IsWellFoundedOn(R, Nat)
    BY NatLessThanWellFounded DEF R
  <2> QED  BY <2>1, WFMin
<1>2. \A x, y \in Nat : y < x => <<y, x>> \in R
  BY DEF OpToRel
<1> HIDE DEF R
<1>3. PICK x \in S : \A y \in S : ~(<<y, x>> \in R)
  BY <1>1
<1>4. \A y \in S : ~(y < x) /\ x \in Nat /\ y \in Nat
  BY <1>2, <1>3
<1> QED  BY <1>4

\* Induction over the naturals, for a property given by the set of what has it.
LEMMA InductionOnNat ==
  ASSUME NEW S, \A n \in Nat : (\A m \in 0..(n - 1) : m \in S) => n \in S
  PROVE  Nat \subseteq S
<1> SUFFICES ASSUME Nat \ S # {} PROVE FALSE
  OBVIOUS
<1>1. PICK n \in Nat \ S : \A m \in Nat \ S : n <= m
  BY LeastNat
<1> QED  BY <1>1

LEMMA GreatestNat ==
  ASSUME NEW S, NEW n \in Nat, S \subseteq 0..n, S # {}
  PROVE  \E x \in S : \A y \in S : y <= x
<1> DEFINE T == {m \in 0..n : n - m \in S}
<1>1. T \subseteq Nat /\ T # {}
  <2>1. PICK x \in S : TRUE
    OBVIOUS
  <2>2. n - x \in 0..n /\ n - (n - x) = x
    BY <2>1
  <2>3. n - x \in T /\ T \subseteq Nat
    BY <2>2
  <2> HIDE DEF T
  <2> QED  BY <2>3
<1>2. PICK m \in T : \A k \in T : m <= k
  BY <1>1, LeastNat
<1>3. ASSUME NEW y \in S PROVE y <= n - m
  <2>1. y \in 0..n /\ n - y \in 0..n /\ n - (n - y) = y
    OBVIOUS
  <2>2. n - y \in T /\ m \in 0..n
    BY <1>2, <2>1
  <2>3. m <= n - y
    BY <1>2, <2>2
  <2> QED  BY <2>1, <2>2, <2>3
<1> QED  BY <1>2, <1>3

LEMMA DivMod ==
  ASSUME NEW n \in Nat, NEW k \in Nat \ {0}
  PROVE  /\ n \div k \in Nat /\ n % k \in 0..(k - 1)
         /\ n = k * (n \div k) + (n % k)
OBVIOUS

LEMMA Times ==
  ASSUME NEW p \in Nat, NEW q \in Nat, NEW k \in Nat \ {0}
  PROVE  /\ k * p \in Nat /\ k * p = p * k /\ k * (p + 1) = k * p + k
         /\ p <= q => k * p <= k * q
         /\ p < q => k * p + k <= k * q
<1>1. k * p \in Nat /\ k * p = p * k /\ k * (p + 1) = k * p + k
  OBVIOUS
<1>2. ASSUME p <= q PROVE k * p <= k * q
  BY <1>2
<1>3. ASSUME p < q PROVE k * p + k <= k * q
  <2>1. p + 1 <= q /\ p + 1 \in Nat
    BY <1>3
  <2>2. k * (p + 1) <= k * q
    BY <2>1
  <2> QED  BY <1>1, <2>2
<1> QED  BY <1>1, <1>2, <1>3

LEMMA DivUnique ==
  ASSUME NEW q \in Nat, NEW r \in Nat, NEW k \in Nat \ {0}, r < k
  PROVE  (k * q + r) \div k = q /\ (k * q + r) % k = r
<1> DEFINE n == k * q + r
           p == n \div k
           m == n % k
<1>1. n \in Nat
  OBVIOUS
<1>2. p \in Nat /\ m \in 0..(k - 1) /\ k * q + r = k * p + m
  BY <1>1, DivMod
<1> HIDE DEF p, m
<1>3. ~(p < q) /\ ~(q < p)
  BY <1>2, Times
<1>4. p = q /\ m = r
  BY <1>2, <1>3
<1> QED  BY <1>4 DEF p, m

LEMMA Rounded ==
  ASSUME NEW n \in Nat
  PROVE  /\ RoundDown(n, SectorCells) \in Nat
         /\ RoundUp(n, SectorCells) \in Nat /\ n <= RoundUp(n, SectorCells)
<1>1. \A m \in Nat : RoundDown(m, SectorCells) \in Nat /\ m < RoundDown(m, SectorCells) + SectorCells
  BY Sizes, DivMod DEF RoundDown
<1>2. n + SectorCells - 1 \in Nat
  BY Sizes
<1> QED  BY <1>1, <1>2, Sizes DEF RoundUp

-----------------------------------------------------------------------------
(* The contents of blocks *)

LEMMA ZeroIsContent == ZeroBlock \in Content
BY DEF ZeroBlock, Content, Sectors

\* get_actual_data_size is zero for a block of zeros only, and fits.
LEMMA ActualSizes ==
  ASSUME NEW data \in Content
  PROVE  /\ ActualSize(data) \in 0..BlockCells
         /\ ActualSize(data) = 0 <=> data = ZeroBlock
<1>1. BlockCells \in Nat
  BY Sizes DEF BlockCells
<1>2. CASE data = ZeroBlock
  BY <1>1, <1>2 DEF ActualSize
<1>3. CASE data # ZeroBlock
  <2> DEFINE used == {s \in 0..(SectorsPerBlock - 1) : data[s] # 0}
             last == LastUsed(data)
             k    == SectorsPerBlock - 1
  <2>1. DOMAIN data = 0..k /\ used # {}
    BY <1>3 DEF Content, ZeroBlock
  <2>2. PICK s \in used : \A t \in used : t <= s
    <3>1. k \in Nat /\ used \subseteq 0..k
      BY Sizes
    <3> HIDE DEF k, used
    <3> QED  BY <2>1, <3>1, GreatestNat
  <2>3. s \in DOMAIN data /\ data[s] # 0 /\ \A t \in DOMAIN data : t > s => data[t] = 0
    BY <2>1, <2>2, Sizes
  <2>4. last \in DOMAIN data /\ data[last] # 0
    BY <2>3 DEF LastUsed
  <2> HIDE DEF last
  <2>5. last \in 0..k /\ data[last] \in Values
    BY <2>1, <2>4 DEF Content, Sectors
  <2>6. Extent[data[last]] \in 1..SectorCells
    BY <2>5, DiskAssumption
  <2>7. last * SectorCells \in Nat /\ last * SectorCells + SectorCells <= BlockCells
    BY <2>5, Sizes, Times DEF BlockCells
  <2>8. ActualSize(data) = last * SectorCells + Extent[data[last]]
    BY <1>3 DEF ActualSize, last
  <2> QED  BY <1>1, <1>3, <2>6, <2>7, <2>8, Sizes
<1> QED  BY <1>2, <1>3

LEMMA RecordSizes ==
  ASSUME NEW data \in Content
  PROVE  RecordCells(data) \in Nat /\ 1 <= RecordCells(data) /\ RecordCells(data) <= BufferCells
<1>1. BlockCells \in Nat /\ HeaderCells + BlockCells <= BufferCells
  BY Sizes, DiskAssumption DEF BlockCells
<1> QED  BY <1>1, ActualSizes, Sizes DEF RecordCells
-----------------------------------------------------------------------------
(* The inductive invariant of the log *)

\* A request in progress.  Of pd_read, how many blocks it has read says where it
\* is; of pd_write, how many sectors remain.
First == req.sec \div SectorsPerBlock
Reading ==
  /\ Len(req.buf) <= 2
  /\ pc = "done" => Len(req.buf) # 0
  /\ Len(req.buf) = 0 => req.sector = req.sec
  /\ Len(req.buf) # 0 => req.sector = SectorsPerBlock * (First + Len(req.buf))
Payloads == {<<>>} \cup UNION {[0..(n - 1) -> Sectors] : n \in 1..MaxSecs}
Requests ==
  [op : {"none", "read", "write"}, sec : Nat, secs : 0..MaxSecs, data : Payloads, ts : 0..MaxTime,
   sector : Nat, remain_sectors : 0..MaxSecs, buf : Seq(Content), stale : BOOLEAN]
RequestInv ==
  /\ req \in Requests
  /\ req.op # "none" => req.secs \in 1..MaxSecs /\ req.sec + req.secs <= NumSectors
  /\ pc \in {"read", "write"} => req.op = pc /\ req.sector < req.sec + req.secs
  /\ pc \notin {"read", "write", "done"} => req = NoRequest
  /\ req.op = "read" => Reading
  /\ pc = "done" /\ req.op = "read" => req.sector >= req.sec + req.secs
  /\ pc = "write" => /\ req.data \in [0..(req.secs - 1) -> Sectors]
                     /\ req.remain_sectors = (req.sec + req.secs) - req.sector
                     /\ req.remain_sectors <= req.secs

\* While pd_finalize is on its way, and when nothing is open, nothing is in the
\* append buffer; no record lies across the end that the header on disk gives.
DiskInv ==
  /\ FirstOffset <= disk_next
  /\ pc \in {"closed", "header", "index"} => buffer_pos = 0
  /\ pc \in {"closed", "index"} => next_offset = disk_next
  /\ \A o \in DOMAIN log : o < disk_next => o + RecordCells(log[o].data) <= disk_next

IInv == LogSound /\ RequestInv /\ DiskInv

ReadBuffers == [enable : BOOLEAN, pos : Nat, limit : Nat]
Pcs == {"closed", "idle", "read", "write", "done", "header", "index"}

\* What the steps on the log and the index change, and what the others do.
LogPart ==
  /\ disk_next \in Nat /\ disk_index \in [Blocks -> Nat]
  /\ DOMAIN log \subseteq Nat /\ \A o \in DOMAIN log : log[o] \in Record
  /\ index_table \in [Blocks -> Nat]
  /\ next_offset \in Nat /\ buffer_pos \in 0..BufferCells
  /\ ChainsSound /\ RecordsDisjoint /\ DiskInv
ServePart ==
  /\ pc \in Pcs /\ rb \in ReadBuffers
  /\ clock \in 0..MaxTime /\ requests \in 0..MaxRequests
  /\ RequestInv

LEMMA Parts == IInv => LogPart /\ ServePart
BY DEF IInv, LogSound, TypeOK, LogPart, ServePart, Pcs, ReadBuffers

LEMMA PartsSuffice == LogPart' /\ ServePart' => IInv'
BY DEF IInv, LogSound, TypeOK, LogPart, ServePart, Pcs, ReadBuffers, StackBufferSuffices,
  RequestInv, Reading, Requests

LEMMA NoRequestTyped == NoRequest \in Requests
BY Sizes DEF NoRequest, Requests, Payloads

LEMMA InitIInv == Init => IInv
<1> SUFFICES ASSUME Init PROVE IInv
  OBVIOUS
<1>1. RequestInv
  BY NoRequestTyped DEF Init, RequestInv, Reading, NoRequest
<1>2. LogSound
  BY Sizes DEF Init, LogSound, TypeOK, ChainsSound, RecordsDisjoint,
    StackBufferSuffices, IndexSound, LinksSound, NoRequest, NoIndex, EmptyReadBuffer, End
<1>3. DiskInv
  BY Sizes DEF Init, DiskInv
<1> QED  BY <1>1, <1>2, <1>3 DEF IInv

-----------------------------------------------------------------------------
(* Blocks and sectors *)

LEMMA BlockOfSector ==
  ASSUME NEW s \in Nat
  PROVE  LET b == s \div SectorsPerBlock IN
         /\ b \in Nat /\ (s < NumSectors => b \in Blocks)
         /\ s % SectorsPerBlock \in 0..(SectorsPerBlock - 1)
         /\ SectorsPerBlock * b \in Nat /\ s = SectorsPerBlock * b + (s % SectorsPerBlock)
         /\ NextSector(b) = SectorsPerBlock * (b + 1)
         /\ NextSector(b) = s + (SectorsPerBlock - (s % SectorsPerBlock))
<1> DEFINE b == s \div SectorsPerBlock
           m == s % SectorsPerBlock
<1>1. b \in Nat /\ m \in 0..(SectorsPerBlock - 1) /\ s = SectorsPerBlock * b + m
  BY Sizes, DivMod
<1> HIDE DEF b, m
<1>2. /\ SectorsPerBlock * b \in Nat /\ NextSector(b) = SectorsPerBlock * (b + 1)
      /\ SectorsPerBlock * (b + 1) = SectorsPerBlock * b + SectorsPerBlock
  BY <1>1, Sizes, Times DEF NextSector
<1>3. ASSUME s < NumSectors PROVE b \in Blocks
  <2>1. ~(NumBlocks <= b)
    <3>1. NumSectors = SectorsPerBlock * NumBlocks
      BY Sizes DEF NumSectors
    <3>2. NumBlocks <= b => SectorsPerBlock * NumBlocks <= SectorsPerBlock * b
      BY <1>1, Sizes, Times
    <3> QED  BY <1>1, <1>2, <1>3, <3>1, <3>2, Sizes
  <2> QED  BY <1>1, <2>1, Sizes DEF Blocks
<1> QED  BY <1>1, <1>2, <1>3, Sizes DEF b, m

\* What bio_read leaves behind is a read buffer.
LEMMA FetchedTyped ==
  ASSUME IInv, NEW r \in ReadBuffers, NEW pos \in Nat, NEW n \in Nat
  PROVE  Fetched(r, pos, n) \in ReadBuffers
<1>1. next_offset \in Nat
  BY DEF IInv, LogSound, TypeOK
<1> QED  BY <1>1, Rounded DEF Fetched, ReadBuffers

\* read_latest_block gives the newest version unless it met a stale hit.
Newest(b) == IF index_table[b] = 0 THEN ZeroBlock ELSE log[index_table[b]].data

LEMMA LatestBlock ==
  ASSUME IInv, pc # "closed", NEW b \in Blocks, NEW r \in ReadLatestBlock(b)
  PROVE  /\ r.rb \in ReadBuffers /\ r.data \in Content /\ r.stale \in BOOLEAN
         /\ Newest(b) \in Content
         /\ ~r.stale => r.data = Newest(b)
         /\ index_table[b] = 0 => r.data = ZeroBlock
<1> DEFINE offset == index_table[b]
           r1     == Fetched(rb, offset, HeaderCells)
           data   == log[offset].data
           size   == ActualSize(data)
           r2     == Fetched(r1, offset + HeaderCells, size)
<1>1. rb \in ReadBuffers /\ offset \in Nat /\ HeaderCells \in Nat /\ BlockCells \in Nat
  BY Sizes DEF IInv, LogSound, TypeOK, ReadBuffers, BlockCells
<1>2. CASE offset = 0
  <2>1. r = [rb |-> rb, data |-> ZeroBlock, stale |-> FALSE]
    BY <1>2 DEF ReadLatestBlock
  <2>2. Newest(b) = ZeroBlock
    BY <1>2 DEF Newest
  <2> QED  BY <1>1, <2>1, <2>2, ZeroIsContent
<1>3. CASE offset # 0
  <2>1. offset \in DOMAIN log /\ data \in Content
    BY <1>3 DEF IInv, LogSound, TypeOK, ChainsSound, IndexSound, Record
  <2>2. size \in Nat /\ (size = 0 <=> data = ZeroBlock) /\ Newest(b) = data
    BY <1>1, <1>3, <2>1, ActualSizes DEF Newest
  <2>3. r1 \in ReadBuffers
    BY <1>1, FetchedTyped
  <2> HIDE DEF r1, data, size
  <2>4. \A n \in Nat : Fetched(r1, offset + HeaderCells, n) \in ReadBuffers
    <3>1. offset + HeaderCells \in Nat
      BY <1>1
    <3> QED  BY <2>3, <3>1, FetchedTyped
  <2>5. r2 \in ReadBuffers
    BY <2>2, <2>4
  <2> HIDE DEF r2
  <2>6. \/ r \in [rb : {r1} \cup {Fetched(r1, offset + HeaderCells, n) : n \in 1..BlockCells},
                   data : Content, stale : {TRUE}]
        \/ r \in [rb : {r2}, data : Content, stale : {TRUE}]
        \/ r = [rb |-> r1, data |-> data, stale |-> FALSE]
        \/ r = [rb |-> r2, data |-> data, stale |-> FALSE]
    BY <1>3 DEF ReadLatestBlock, r1, r2, data, size
  <2>7. ASSUME NEW rs \in SUBSET ReadBuffers, r \in [rb : rs, data : Content, stale : {TRUE}]
        PROVE  r.rb \in ReadBuffers /\ r.data \in Content /\ r.stale = TRUE
    BY <2>7
  <2>8. {r1} \cup {Fetched(r1, offset + HeaderCells, n) : n \in 1..BlockCells} \in SUBSET ReadBuffers
    BY <1>1, <2>3, <2>4
  <2>9. {r2} \in SUBSET ReadBuffers
    BY <2>5
  <2>10. ASSUME NEW x \in {r1, r2}, r = [rb |-> x, data |-> data, stale |-> FALSE]
         PROVE  r.rb \in ReadBuffers /\ r.data = data /\ r.stale = FALSE
    BY <2>3, <2>5, <2>10
  <2>11. r.rb \in ReadBuffers /\ r.data \in Content /\ r.stale \in BOOLEAN /\ (~r.stale => r.data = data)
    BY <2>1, <2>6, <2>7, <2>8, <2>9, <2>10
  <2> QED  BY <1>3, <2>1, <2>2, <2>11
<1> QED  BY <1>2, <1>3
-----------------------------------------------------------------------------
(* Appending a record *)

\* Where bio_write puts a record of size cells: behind everything else.
LEMMA AppendedAt ==
  ASSUME IInv, NEW b \in Blocks, NEW rec \in Record, BioWrite(b, rec)
  PROVE  LET at == index_table'[b]  size == RecordCells(rec.data) IN
         /\ at \in Nat /\ size \in Nat /\ 1 <= size
         /\ End \in Nat /\ End <= at /\ FirstOffset <= at /\ at # 0
         /\ next_offset' \in Nat /\ buffer_pos' \in 0..BufferCells
         /\ next_offset' <= at /\ End' = at + size /\ End' \in Nat
         /\ next_offset' = next_offset \/ End <= next_offset'
         /\ next_offset <= next_offset'
         /\ index_table' = [index_table EXCEPT ![b] = at]
         /\ DOMAIN log' = DOMAIN log \cup {at}
         /\ log'[at] = rec /\ at \notin DOMAIN log /\ \A o \in DOMAIN log : log'[o] = log[o]
<1> DEFINE at    == index_table'[b]
           size  == RecordCells(rec.data)
           full  == Full(size)
           base  == IF full THEN next_offset + RoundUp(buffer_pos, SectorCells) ELSE next_offset
           start == IF full THEN 0 ELSE buffer_pos
<1>1. next_offset \in Nat /\ buffer_pos \in Nat /\ buffer_pos <= BufferCells
  BY Sizes DEF IInv, LogSound, TypeOK
<1>2. size \in Nat /\ 1 <= size /\ size <= BufferCells
  BY RecordSizes DEF Record
<1>3. /\ next_offset' = base /\ buffer_pos' = start + size
      /\ log' = [o \in DOMAIN log \cup {base + start} |-> IF o = base + start THEN rec ELSE log[o]]
      /\ index_table' = [index_table EXCEPT ![b] = base + start]
  BY DEF BioWrite
<1>4. at = base + start
  BY <1>3 DEF IInv, LogSound, TypeOK
<1>5. RoundUp(buffer_pos, SectorCells) \in Nat /\ buffer_pos <= RoundUp(buffer_pos, SectorCells)
  BY <1>1, Rounded
<1>6. base \in Nat /\ start \in Nat /\ next_offset + buffer_pos <= base + start
      /\ next_offset <= base /\ start + size <= BufferCells
      /\ (base = next_offset \/ next_offset + buffer_pos <= base)
  BY <1>1, <1>2, <1>5, Sizes DEF Full
<1> HIDE DEF base, start, at, size
<1>7. End = next_offset + buffer_pos /\ End' = base + start + size
  BY <1>3, <1>1, <1>2, <1>6 DEF End
<1>9. base + start \notin DOMAIN log
  BY <1>1, <1>6, <1>7 DEF IInv, LogSound, TypeOK, ChainsSound
<1>8. FirstOffset <= next_offset
  BY <1>1, Sizes DEF IInv, LogSound, TypeOK, ChainsSound, DiskInv
<1>10. DOMAIN log' = DOMAIN log \cup {at} /\ log'[at] = rec /\ \A o \in DOMAIN log : log'[o] = log[o]
  BY <1>3, <1>4, <1>9
<1>11. at \in Nat /\ End \in Nat /\ End <= at /\ FirstOffset <= at /\ at # 0
  BY <1>1, <1>4, <1>6, <1>7, <1>8, Sizes
<1>12. /\ next_offset' \in Nat /\ buffer_pos' \in 0..BufferCells
       /\ next_offset' <= at /\ End' = at + size /\ End' \in Nat
       /\ next_offset' = next_offset \/ End <= next_offset'
       /\ next_offset <= next_offset'
  BY <1>1, <1>2, <1>3, <1>4, <1>6, <1>7, Sizes
<1>13. index_table' = [index_table EXCEPT ![b] = at] /\ at \notin DOMAIN log
  BY <1>3, <1>4, <1>9
<1> QED  BY <1>2, <1>10, <1>11, <1>12, <1>13 DEF at, size

LEMMA AppendSound ==
  ASSUME IInv, pc = "write", pc' \in {"write", "done"}, UNCHANGED disk_vars,
         NEW b \in Blocks, NEW rec \in Record, BioWrite(b, rec),
         rec.block = b, rec.next = index_table[b]
  PROVE  LogPart'
<1> DEFINE at   == index_table'[b]
           size == RecordCells(rec.data)
<1>1. /\ at \in Nat /\ size \in Nat /\ 1 <= size
      /\ End \in Nat /\ End <= at /\ FirstOffset <= at /\ at # 0
      /\ next_offset' \in Nat /\ buffer_pos' \in 0..BufferCells
      /\ next_offset' <= at /\ End' = at + size /\ End' \in Nat
      /\ next_offset' = next_offset \/ End <= next_offset'
      /\ next_offset <= next_offset'
      /\ index_table' = [index_table EXCEPT ![b] = at]
      /\ DOMAIN log' = DOMAIN log \cup {at}
      /\ log'[at] = rec /\ at \notin DOMAIN log /\ \A o \in DOMAIN log : log'[o] = log[o]
  BY AppendedAt
<1> HIDE DEF at, size
<1>2. /\ index_table \in [Blocks -> Nat] /\ next_offset \in Nat /\ DOMAIN log \subseteq Nat
      /\ \A o \in DOMAIN log : log[o] \in Record
      /\ disk_next \in Nat /\ disk_next' = disk_next /\ disk_index' = disk_index
      /\ disk_next <= next_offset
  BY DEF IInv, LogSound, TypeOK, ChainsSound, disk_vars
<1>3. \A o \in DOMAIN log : FirstOffset <= o /\ o < End /\ o \in Nat
  BY <1>2 DEF IInv, LogSound, ChainsSound
<1>4. index_table' \in [Blocks -> Nat]
  BY <1>1, <1>2
<1>5. DOMAIN log' \subseteq Nat /\ \A o \in DOMAIN log' : log'[o] \in Record
  BY <1>1, <1>2
<1>6. LinksSound'
  <2>1. index_table[b] # 0 => /\ index_table[b] \in DOMAIN log /\ index_table[b] < End
                              /\ log[index_table[b]].block = b
    BY DEF IInv, LogSound, ChainsSound, IndexSound
  <2>2. ASSUME NEW o \in DOMAIN log', log'[o].next # 0
        PROVE  /\ log'[o].next \in DOMAIN log' /\ log'[o].next < o
               /\ log'[log'[o].next].block = log'[o].block
    <3>1. CASE o = at
      BY <1>1, <1>2, <2>1, <2>2, <3>1
    <3>2. CASE o \in DOMAIN log
      BY <1>1, <2>2, <3>2 DEF IInv, LogSound, ChainsSound, LinksSound
    <3> QED  BY <1>1, <3>1, <3>2
  <2> QED  BY <2>2 DEF LinksSound
<1>7. \A o \in DOMAIN log' : FirstOffset <= o /\ o < End'
  BY <1>1, <1>3, Sizes
<1>8. IndexSound(index_table, End)'
  <2>1. ASSUME NEW c \in Blocks, index_table'[c] # 0
        PROVE  /\ index_table'[c] \in DOMAIN log' /\ index_table'[c] < End'
               /\ log'[index_table'[c]].block = c
    <3>1. CASE c = b
      BY <1>1, <1>2, <3>1 DEF at
    <3>2. CASE c # b
      <4>1. index_table'[c] = index_table[c]
        BY <1>1, <1>2, <3>2
      <4>2. /\ index_table[c] \in DOMAIN log /\ index_table[c] < End
            /\ log[index_table[c]].block = c
        BY <2>1, <4>1 DEF IInv, LogSound, ChainsSound, IndexSound
      <4> QED  BY <1>1, <1>3, <4>1, <4>2
    <3> QED  BY <3>1, <3>2
  <2> QED  BY <2>1 DEF IndexSound
<1>9. IndexSound(disk_index, disk_next)'
  BY <1>1, <1>2 DEF IInv, LogSound, ChainsSound, IndexSound
<1>10. disk_next' <= next_offset'
  BY <1>1, <1>2
<1>11. RecordsDisjoint'
  <2>1. \A o \in DOMAIN log :
          /\ RecordCells(log[o].data) \in Nat
          /\ o + RecordCells(log[o].data) <= End
          /\ o >= next_offset \/ o + RecordCells(log[o].data) <= next_offset
          /\ \A p \in DOMAIN log : p > o => p >= o + RecordCells(log[o].data)
    BY <1>2, RecordSizes DEF IInv, LogSound, RecordsDisjoint, Record
  <2>2. ASSUME NEW o \in DOMAIN log'
        PROVE  /\ o + RecordCells(log'[o].data) <= End'
               /\ o >= next_offset' \/ o + RecordCells(log'[o].data) <= next_offset'
               /\ \A p \in DOMAIN log' : p > o => p >= o + RecordCells(log'[o].data)
    <3>1. CASE o = at
      BY <1>1, <1>3, <3>1 DEF size
    <3>2. CASE o \in DOMAIN log
      <4> DEFINE n == RecordCells(log[o].data)
      <4>1. n \in Nat /\ o \in Nat /\ o + n <= End /\ (o >= next_offset \/ o + n <= next_offset)
            /\ \A p \in DOMAIN log : p > o => p >= o + n
        BY <1>3, <2>1, <3>2
      <4>2. RecordCells(log'[o].data) = n
        BY <1>1, <3>2
      <4> HIDE DEF n
      <4> QED  BY <1>1, <1>2, <4>1, <4>2
    <3> QED  BY <1>1, <3>1, <3>2
  <2> QED  BY <2>2 DEF RecordsDisjoint
<1>12. DiskInv'
  BY <1>1, <1>2, <1>3 DEF IInv, DiskInv
<1>13. ChainsSound'
  BY <1>6, <1>7, <1>8, <1>9, <1>10 DEF ChainsSound
<1>14. disk_next' \in Nat /\ disk_index' \in [Blocks -> Nat]
  BY <1>2 DEF IInv, LogSound, TypeOK
<1> QED  BY <1>1, <1>4, <1>5, <1>11, <1>12, <1>13, <1>14 DEF LogPart

-----------------------------------------------------------------------------
(* Every action preserves the invariant *)

Serving == {"idle", "read", "write", "done"}

LEMMA LogStays ==
  ASSUME IInv, UNCHANGED <<disk_vars, bio_vars, index_table>>, pc \in Serving, pc' \in Serving
  PROVE  LogPart'
BY Parts DEF LogPart, ChainsSound, LinksSound, IndexSound, RecordsDisjoint, DiskInv, End, Serving,
  disk_vars, bio_vars

LEMMA OpenKeeps == ASSUME IInv, Open PROVE IInv'
<1>1. LogPart /\ ServePart /\ next_offset = disk_next /\ buffer_pos = 0
  BY Parts DEF Open, LogPart, DiskInv
<1>2. LogPart'
  <2>1. /\ pc' = "idle" /\ index_table' = disk_index /\ next_offset' = disk_next /\ buffer_pos' = 0
        /\ disk_next' = disk_next /\ disk_index' = disk_index /\ log' = log
    BY DEF Open, LogEnd, disk_vars
  <2>2. End = disk_next /\ End' = disk_next
    BY <1>1, <2>1 DEF End, LogPart
  <2> QED  BY <1>1, <2>1, <2>2, Sizes DEF LogPart, ChainsSound, LinksSound, IndexSound, RecordsDisjoint, DiskInv
<1>3. ServePart'
  BY <1>1 DEF Open, ServePart, RequestInv, Reading, First, Pcs, ReadBuffers, EmptyReadBuffer, NoRequest
<1> QED  BY <1>2, <1>3, PartsSuffice

LEMMA QueueReadKeeps ==
  ASSUME IInv, NEW sec \in 0..(NumSectors - 1), NEW secs \in 1..MaxSecs, QueueRead(sec, secs)
  PROVE  IInv'
<1>1. LogPart'
  BY LogStays DEF QueueRead, Serving
<1>2. ServePart'
  <2>1. /\ pc' = "read" /\ rb' = rb /\ clock' = clock /\ requests' = requests
        /\ req' = [NoRequest EXCEPT !.op = "read", !.sec = sec, !.secs = secs, !.sector = sec]
        /\ sec + secs <= NumSectors
    BY DEF QueueRead
  <2>2. sec \in Nat /\ secs \in 0..MaxSecs /\ secs \in 1..MaxSecs /\ sec < sec + secs
    BY Sizes
  <2>3. /\ req' \in Requests /\ req'.op = "read" /\ req'.sec = sec /\ req'.secs = secs
        /\ req'.sector = sec /\ req'.buf = <<>>
    BY <2>1, <2>2, NoRequestTyped DEF NoRequest, Requests
  <2> QED  BY <2>1, <2>2, <2>3, Parts DEF ServePart, RequestInv, Reading, Pcs
<1> QED  BY <1>1, <1>2, PartsSuffice

LEMMA QueueWriteKeeps ==
  ASSUME IInv, NEW sec \in 0..(NumSectors - 1), NEW secs \in 1..MaxSecs,
         NEW data \in [0..(secs - 1) -> Sectors], QueueWrite(sec, secs, data)
  PROVE  IInv'
<1>1. LogPart'
  BY LogStays DEF QueueWrite, Serving
<1>2. ServePart'
  <2>1. /\ pc' = "write" /\ rb' = rb /\ clock' = clock /\ requests' = requests + 1
        /\ req' = [NoRequest EXCEPT !.op = "write", !.sec = sec, !.secs = secs, !.data = data,
                     !.ts = clock, !.sector = sec, !.remain_sectors = secs]
        /\ sec + secs <= NumSectors /\ requests < MaxRequests
    BY DEF QueueWrite
  <2>2. sec \in Nat /\ secs \in 0..MaxSecs /\ sec < sec + secs /\ data \in Payloads
        /\ secs = (sec + secs) - sec
    BY Sizes DEF Payloads
  <2>3. clock \in 0..MaxTime /\ requests \in 0..MaxRequests /\ rb \in ReadBuffers
    BY Parts DEF ServePart
  <2>4. /\ req' \in Requests /\ req'.op = "write" /\ req'.sec = sec /\ req'.secs = secs
        /\ req'.sector = sec /\ req'.data = data /\ req'.remain_sectors = secs
    BY <2>1, <2>2, <2>3, NoRequestTyped DEF NoRequest, Requests
  <2>5. requests + 1 \in 0..MaxRequests
    BY <2>1, <2>3, Sizes
  <2> QED  BY <2>1, <2>2, <2>3, <2>4, <2>5 DEF ServePart, RequestInv, Pcs
<1> QED  BY <1>1, <1>2, PartsSuffice

\* The block that a step of pd_read or pd_write is about.
Block == req.sector \div SectorsPerBlock

LEMMA AtBlock ==
  ASSUME IInv, pc \in {"read", "write"}
  PROVE  /\ Block \in Blocks /\ req.sector \in Nat /\ req.sec \in Nat /\ req.secs \in 1..MaxSecs
         /\ req.sec + req.secs <= NumSectors /\ req.sector < req.sec + req.secs
         /\ NextSector(Block) \in Nat /\ req.sector < NextSector(Block)
<1>1. /\ req.sector \in Nat /\ req.sec \in Nat /\ req.secs \in 1..MaxSecs
      /\ req.sec + req.secs <= NumSectors /\ req.sector < req.sec + req.secs
  BY DEF IInv, RequestInv, Requests
<1>2. NumSectors \in Nat
  BY Sizes DEF NumSectors
<1>3. req.sector < NumSectors
  BY <1>1, <1>2, Sizes
<1>4. /\ Block \in Blocks /\ req.sector % SectorsPerBlock \in 0..(SectorsPerBlock - 1)
      /\ NextSector(Block) = req.sector + (SectorsPerBlock - (req.sector % SectorsPerBlock))
  BY <1>1, <1>3, BlockOfSector DEF Block
<1> QED  BY <1>1, <1>4, Sizes

\* pd_read goes from block to block, and at most two of them: a request is no
\* longer than a block.
LEMMA ReadProgress ==
  ASSUME IInv, pc = "read"
  PROVE  /\ req.buf \in Seq(Content) /\ Len(req.buf) \in 0..1 /\ First \in Nat
         /\ Block = First + Len(req.buf)
         /\ NextSector(Block) = SectorsPerBlock * (First + (Len(req.buf) + 1))
<1>1. /\ req.buf \in Seq(Content) /\ Reading /\ req.op = "read"
      /\ Len(req.buf) \in 0..2
  <2>1. req.buf \in Seq(Content) /\ req.op = "read"
    BY DEF IInv, RequestInv, Requests
  <2>2. Reading
    BY <2>1 DEF IInv, RequestInv
  <2>3. Len(req.buf) <= 2
    BY <2>2 DEF Reading
  <2>4. Len(req.buf) \in Nat
    BY <2>1
  <2>5. \A n \in Nat : n <= 2 => n \in 0..2
    OBVIOUS
  <2>6. Len(req.buf) \in 0..2
    BY <2>3, <2>4, <2>5
  <2> QED  BY <2>1, <2>2, <2>6
<1> DEFINE n == Len(req.buf)
<1>2. /\ First \in Nat /\ req.sec % SectorsPerBlock \in 0..(SectorsPerBlock - 1)
      /\ SectorsPerBlock * First \in Nat
      /\ req.sec = SectorsPerBlock * First + (req.sec % SectorsPerBlock)
  BY AtBlock, BlockOfSector DEF First
<1>3. n # 2
  <2>1. SUFFICES ASSUME n = 2 PROVE FALSE
    OBVIOUS
  <2>2. req.sector = SectorsPerBlock * (First + 2)
    BY <1>1, <2>1 DEF Reading
  <2>3. SectorsPerBlock * (First + 2) = SectorsPerBlock * First + SectorsPerBlock + SectorsPerBlock
    BY <1>2, Sizes
  <2> QED  BY <1>2, <2>2, <2>3, AtBlock, Sizes
<1>4. n \in 0..1
  BY <1>1, <1>3
<1>5. Block = First + n
  <2>1. CASE n = 0
    BY <1>1, <1>2, <2>1 DEF Reading, Block, First
  <2>2. CASE n # 0
    <3>1. req.sector = SectorsPerBlock * (First + n) + 0
      BY <1>1, <1>2, <1>4, <2>2, Sizes DEF Reading
    <3>2. First + n \in Nat
      BY <1>2, <1>4
    <3>3. (SectorsPerBlock * (First + n) + 0) \div SectorsPerBlock = First + n
      BY <3>2, DivUnique, Sizes
    <3> QED  BY <3>1, <3>3 DEF Block
  <2> QED  BY <2>1, <2>2
<1>6. NextSector(Block) = SectorsPerBlock * (Block + 1)
  BY AtBlock, BlockOfSector DEF Block
<1>7. Block + 1 = First + (n + 1)
  BY <1>2, <1>4, <1>5
<1> QED  BY <1>1, <1>2, <1>4, <1>5, <1>6, <1>7

LEMMA ReadBlockKeeps == ASSUME IInv, ReadBlock PROVE IInv'
<1>1. PICK r \in ReadLatestBlock(Block) :
        /\ rb' = r.rb
        /\ req' = [req EXCEPT !.buf = Append(@, r.data), !.sector = NextSector(Block),
                              !.stale = @ \/ r.stale]
        /\ pc' = Continue(NextSector(Block), "read")
  BY DEF ReadBlock, Block
<1>2. pc = "read" /\ clock' = clock /\ requests' = requests
  BY DEF ReadBlock
<1>3. pc' = IF NextSector(Block) < req.sec + req.secs THEN "read" ELSE "done"
  BY <1>1 DEF Continue
<1>4. LogPart'
  <2>1. UNCHANGED <<disk_vars, bio_vars, index_table>>
    BY DEF ReadBlock
  <2> QED  BY <1>2, <1>3, <2>1, LogStays DEF Serving
<1>5. r.rb \in ReadBuffers /\ r.data \in Content /\ r.stale \in BOOLEAN
  BY <1>2, AtBlock, LatestBlock
<1>6. ServePart'
  <2> DEFINE n == Len(req.buf)
  <2>1. /\ req.buf \in Seq(Content) /\ n \in 0..1 /\ First \in Nat /\ Reading /\ req.op = "read"
        /\ NextSector(Block) = SectorsPerBlock * (First + (n + 1))
        /\ req \in Requests
    BY <1>2, ReadProgress DEF IInv, RequestInv
  <2>2. /\ req' \in Requests /\ req'.op = "read" /\ req'.sec = req.sec /\ req'.secs = req.secs
        /\ req'.sector = NextSector(Block) /\ req'.buf = Append(req.buf, r.data)
    <3> DEFINE stale == req.stale \/ r.stale
    <3>1. stale \in BOOLEAN /\ NextSector(Block) \in Nat /\ Append(req.buf, r.data) \in Seq(Content)
      BY <1>2, <1>5, <2>1, AtBlock
    <3>2. req' = [req EXCEPT !.buf = Append(@, r.data), !.sector = NextSector(Block), !.stale = stale]
      BY <1>1
    <3> HIDE DEF stale
    <3> QED  BY <2>1, <3>1, <3>2 DEF Requests
  <2>3. Len(req'.buf) = n + 1
    BY <1>5, <2>1, <2>2
  <2>4. First' = First
    BY <2>2 DEF First
  <2>5. Reading'
    BY <2>1, <2>2, <2>3, <2>4 DEF Reading
  <2>6. NextSector(Block) \in Nat /\ req.sec + req.secs \in Nat
    BY <1>2, AtBlock, Sizes
  <2>7. RequestInv'
    BY <1>2, <1>3, <2>2, <2>5, <2>6, AtBlock DEF RequestInv
  <2> QED  BY <1>1, <1>2, <1>3, <1>5, <2>7, Parts DEF ServePart, Pcs
<1> QED  BY <1>4, <1>6, PartsSuffice

\* How much of a block one iteration of pd_write replaces.
FirstOf == req.sector % SectorsPerBlock
Covered == Smaller(SectorsPerBlock - FirstOf, req.remain_sectors)
Remain == req.remain_sectors - Covered
DataFrom == req.secs - Remain - Covered

\* pd_write does not look outside of the request, and either finishes its block
\* or the request.
LEMMA WriteProgress ==
  ASSUME IInv, pc = "write"
  PROVE  /\ FirstOf \in 0..(SectorsPerBlock - 1)
         /\ Covered \in 1..SectorsPerBlock /\ FirstOf + Covered <= SectorsPerBlock
         /\ Remain \in 0..req.remain_sectors /\ DataFrom \in Nat
         /\ DataFrom + Covered <= req.secs
         /\ \A old \in Content : Updated(old, FirstOf, Covered, DataFrom) \in Content
         /\ NextSector(Block) < req.sec + req.secs =>
              Remain = (req.sec + req.secs) - NextSector(Block)
<1>1. /\ FirstOf \in 0..(SectorsPerBlock - 1)
      /\ NextSector(Block) = req.sector + (SectorsPerBlock - FirstOf)
  BY AtBlock, BlockOfSector DEF FirstOf, Block
<1>2. /\ req.remain_sectors = (req.sec + req.secs) - req.sector /\ req.remain_sectors <= req.secs
      /\ req.data \in [0..(req.secs - 1) -> Sectors]
  BY DEF IInv, RequestInv
<1>3. req.remain_sectors \in Nat /\ 1 <= req.remain_sectors /\ req.secs \in Nat
  BY <1>2, AtBlock, Sizes
<1>4. /\ Covered \in Nat /\ 1 <= Covered /\ Covered <= SectorsPerBlock - FirstOf
      /\ Covered <= req.remain_sectors
      /\ Covered = SectorsPerBlock - FirstOf \/ Covered = req.remain_sectors
  BY <1>1, <1>3, Sizes DEF Covered, Smaller
<1>5. Remain \in 0..req.remain_sectors /\ DataFrom \in Nat /\ DataFrom + Covered <= req.secs
  BY <1>2, <1>3, <1>4 DEF Remain, DataFrom
<1>6. ASSUME NEW old \in Content PROVE Updated(old, FirstOf, Covered, DataFrom) \in Content
  <2>1. ASSUME NEW s \in 0..(SectorsPerBlock - 1), s \in FirstOf..(FirstOf + Covered - 1)
        PROVE  req.data[DataFrom + (s - FirstOf)] \in Sectors
    <3>1. DataFrom + (s - FirstOf) \in 0..(req.secs - 1)
      BY <1>1, <1>3, <1>4, <1>5, <2>1
    <3> QED  BY <1>2, <3>1
  <2> QED  BY <1>6, <2>1 DEF Updated, Content
<1>7. ASSUME NextSector(Block) < req.sec + req.secs
      PROVE  Remain = (req.sec + req.secs) - NextSector(Block)
  <2>1. req.sector \in Nat /\ req.sec \in Nat
    BY AtBlock
  <2>2. Covered = SectorsPerBlock - FirstOf
    BY <1>1, <1>2, <1>3, <1>4, <1>7, <2>1, Sizes
  <2> QED  BY <1>1, <1>2, <1>3, <2>1, <2>2, Sizes DEF Remain
<1> QED  BY <1>1, <1>3, <1>4, <1>5, <1>6, <1>7, Sizes

\* What one iteration of pd_write does.
LEMMA WriteStep ==
  ASSUME WriteBlock
  PROVE  \E r \in ReadLatestBlock(Block) :
           LET data == Updated(r.data, FirstOf, Covered, DataFrom) IN
           /\ rb' = r.rb
           /\ \/ Ignored(Block, data) /\ UNCHANGED <<bio_vars, index_table>>
              \/ ~Ignored(Block, data) /\ BioWrite(Block, NewRecord(Block, data))
           /\ hist' = [hist EXCEPT ![Block] = Append(@,
                [ts |-> req.ts, data |-> Updated(Current(hist, Block), FirstOf, Covered, DataFrom),
                 ok |-> Covered = SectorsPerBlock \/ (~r.stale /\ CurrentOk(hist, Block)),
                 request |-> requests])]
           /\ req' = [req EXCEPT !.sector = NextSector(Block), !.remain_sectors = Remain]
           /\ pc' = Continue(NextSector(Block), "write")
BY DEF WriteBlock, Block, FirstOf, Covered, Remain, DataFrom

LEMMA NewRecordTyped ==
  ASSUME IInv, pc = "write", NEW data \in Content
  PROVE  /\ NewRecord(Block, data) \in Record /\ NewRecord(Block, data).block = Block
         /\ NewRecord(Block, data).next = index_table[Block]
<1>1. Block \in Blocks /\ req.ts \in 0..MaxTime /\ index_table[Block] \in Nat
  BY AtBlock DEF IInv, RequestInv, Requests, LogSound, TypeOK
<1> QED  BY <1>1 DEF NewRecord, Record

LEMMA WriteBlockKeeps == ASSUME IInv, WriteBlock PROVE IInv'
<1>1. pc = "write" /\ clock' = clock /\ requests' = requests /\ UNCHANGED disk_vars
  BY DEF WriteBlock
<1>2. PICK r \in ReadLatestBlock(Block) :
        LET data == Updated(r.data, FirstOf, Covered, DataFrom) IN
        /\ rb' = r.rb
        /\ \/ UNCHANGED <<bio_vars, index_table>>
           \/ BioWrite(Block, NewRecord(Block, data))
        /\ req' = [req EXCEPT !.sector = NextSector(Block), !.remain_sectors = Remain]
        /\ pc' = Continue(NextSector(Block), "write")
  BY WriteStep
<1>3. pc' = IF NextSector(Block) < req.sec + req.secs THEN "write" ELSE "done"
  BY <1>2 DEF Continue
<1>4. r.rb \in ReadBuffers /\ r.data \in Content
  BY <1>1, AtBlock, LatestBlock
<1> DEFINE data == Updated(r.data, FirstOf, Covered, DataFrom)
<1>5. data \in Content
  BY <1>1, <1>4, WriteProgress
<1> HIDE DEF data
<1>6. LogPart'
  <2>1. CASE UNCHANGED <<bio_vars, index_table>>
    BY <1>1, <1>3, <2>1, LogStays DEF Serving
  <2>2. CASE BioWrite(Block, NewRecord(Block, data))
    BY <1>1, <1>3, <1>5, <2>2, AtBlock, NewRecordTyped, AppendSound
  <2> QED  BY <1>2, <2>1, <2>2 DEF data
<1>7. ServePart'
  <2>1. req \in Requests /\ req.op = "write" /\ req.data \in [0..(req.secs - 1) -> Sectors]
        /\ req.remain_sectors <= req.secs /\ req.remain_sectors \in 0..MaxSecs
    BY <1>1 DEF IInv, RequestInv, Requests
  <2>2. Remain \in 0..req.remain_sectors /\ Remain \in 0..MaxSecs
    BY <1>1, <2>1, WriteProgress, Sizes
  <2>3. /\ req' \in Requests /\ req'.op = "write" /\ req'.sec = req.sec /\ req'.secs = req.secs
        /\ req'.sector = NextSector(Block) /\ req'.data = req.data /\ req'.remain_sectors = Remain
    BY <1>1, <1>2, <2>1, <2>2, AtBlock DEF Requests
  <2>4. RequestInv'
    BY <1>1, <1>3, <2>1, <2>2, <2>3, AtBlock, WriteProgress, Sizes DEF RequestInv
  <2> QED  BY <1>1, <1>2, <1>3, <1>4, <2>4, Parts DEF ServePart, Pcs
<1> QED  BY <1>6, <1>7, PartsSuffice

LEMMA CompleteKeeps == ASSUME IInv, Complete PROVE IInv'
<1>1. LogPart'
  BY LogStays DEF Complete, Serving
<1>2. ServePart'
  BY Parts, NoRequestTyped DEF Complete, ServePart, RequestInv, Reading, Pcs, NoRequest
<1> QED  BY <1>1, <1>2, PartsSuffice

LEMMA BioFinalizeKeeps == ASSUME IInv, BioFinalize PROVE IInv'
<1>1. LogPart /\ ServePart /\ pc = "idle" /\ pc' = "header"
  BY Parts DEF BioFinalize
<1>2. LogPart'
  <2> DEFINE n == RoundUp(buffer_pos, SectorCells)
  <2>1. /\ next_offset' = next_offset + n /\ buffer_pos' = 0 /\ log' = log
        /\ disk_next' = disk_next /\ disk_index' = disk_index /\ index_table' = index_table
    BY DEF BioFinalize, disk_vars
  <2>2. n \in Nat /\ buffer_pos <= n /\ buffer_pos \in Nat /\ next_offset \in Nat
    BY <1>1, Rounded, Sizes DEF LogPart
  <2> HIDE DEF n
  <2>3. End = next_offset + buffer_pos /\ End' = next_offset + n /\ End \in Nat /\ End <= End'
        /\ next_offset' \in Nat
    BY <2>1, <2>2 DEF End
  <2>4. ChainsSound'
    <3>1. LinksSound'
      BY <1>1, <2>1 DEF LogPart, ChainsSound, LinksSound
    <3>2. \A o \in DOMAIN log' : FirstOffset <= o /\ o < End'
      BY <1>1, <2>1, <2>3 DEF LogPart, ChainsSound
    <3>3. IndexSound(index_table, End)'
      BY <1>1, <2>1, <2>3 DEF LogPart, ChainsSound, IndexSound
    <3>4. IndexSound(disk_index, disk_next)' /\ disk_next' <= next_offset'
      BY <1>1, <2>1, <2>2 DEF LogPart, ChainsSound, IndexSound
    <3> QED  BY <3>1, <3>2, <3>3, <3>4 DEF ChainsSound
  <2>5. RecordsDisjoint'
    <3>1. ASSUME NEW o \in DOMAIN log
          PROVE  /\ o + RecordCells(log[o].data) \in Nat /\ o + RecordCells(log[o].data) <= End
                 /\ \A p \in DOMAIN log : p > o => p >= o + RecordCells(log[o].data)
      BY <1>1, RecordSizes DEF LogPart, RecordsDisjoint, Record
    <3>2. ASSUME NEW o \in DOMAIN log
          PROVE  o + RecordCells(log[o].data) <= next_offset'
      BY <3>1, <2>1, <2>3
    <3> QED  BY <2>1, <2>3, <3>1, <3>2 DEF RecordsDisjoint
  <2>6. DiskInv'
    BY <1>1, <2>1 DEF LogPart, DiskInv
  <2> QED  BY <1>1, <2>1, <2>3, <2>4, <2>5, <2>6, Sizes DEF LogPart
<1>3. ServePart'
  BY <1>1 DEF BioFinalize, ServePart, RequestInv, Pcs, NoRequest
<1> QED  BY <1>2, <1>3, PartsSuffice

LEMMA WriteHeaderKeeps == ASSUME IInv, WriteHeader PROVE IInv'
<1>1. LogPart /\ ServePart /\ pc = "header" /\ pc' = "index"
  BY Parts DEF WriteHeader
<1>2. LogPart'
  <2>1. /\ next_offset' = next_offset /\ buffer_pos' = 0 /\ buffer_pos = 0 /\ log' = log
        /\ disk_next' = next_offset /\ disk_index' = disk_index /\ index_table' = index_table
        /\ End = next_offset /\ End' = next_offset
        /\ next_offset \in Nat /\ disk_next \in Nat /\ disk_next <= next_offset
    BY <1>1 DEF WriteHeader, bio_vars, End, LogPart, DiskInv, ChainsSound
  <2>2. ChainsSound'
    BY <1>1, <2>1 DEF LogPart, ChainsSound, LinksSound, IndexSound
  <2>3. RecordsDisjoint' /\ DiskInv'
    BY <1>1, <2>1, Sizes DEF LogPart, RecordsDisjoint, DiskInv
  <2> QED  BY <1>1, <2>1, <2>2, <2>3 DEF LogPart
<1>3. ServePart'
  BY <1>1 DEF WriteHeader, ServePart, RequestInv, Pcs, NoRequest
<1> QED  BY <1>2, <1>3, PartsSuffice

LEMMA WriteIndexKeeps ==
  ASSUME IInv, NEW done \in 0..NumBlocks, WriteIndex(done) PROVE IInv'
<1>1. LogPart /\ ServePart /\ pc = "index" /\ pc' = "closed"
  BY Parts DEF WriteIndex, Closed
<1>2. LogPart'
  <2>1. /\ next_offset' = next_offset /\ buffer_pos' = 0 /\ buffer_pos = 0 /\ log' = log
        /\ disk_next' = disk_next /\ index_table' = NoIndex /\ disk_next = next_offset
        /\ disk_index' = [b \in Blocks |-> IF b < done THEN index_table[b] ELSE disk_index[b]]
        /\ End = next_offset /\ End' = next_offset /\ next_offset \in Nat
    BY <1>1 DEF WriteIndex, Closed, End, LogPart, DiskInv, ChainsSound
  <2>2. NoIndex \in [Blocks -> Nat] /\ disk_index' \in [Blocks -> Nat]
    BY <1>1, <2>1 DEF LogPart, NoIndex
  <2>3. IndexSound(disk_index, disk_next)'
    BY <1>1, <2>1 DEF LogPart, ChainsSound, IndexSound
  <2>4. ChainsSound'
    BY <1>1, <2>1, <2>3 DEF LogPart, ChainsSound, LinksSound
  <2>5. RecordsDisjoint' /\ DiskInv'
    BY <1>1, <2>1 DEF LogPart, RecordsDisjoint, DiskInv
  <2> QED  BY <1>1, <2>1, <2>2, <2>4, <2>5, Sizes DEF LogPart
<1>3. ServePart'
  BY <1>1, NoRequestTyped DEF WriteIndex, Closed, ServePart, RequestInv, Reading, Pcs, NoRequest,
    ReadBuffers, EmptyReadBuffer
<1> QED  BY <1>2, <1>3, PartsSuffice

\* Where the process dies, what the next session finds is as sound as before.
LEMMA KillKeeps == ASSUME IInv, Kill PROVE IInv'
<1>1. LogPart /\ ServePart /\ pc' = "closed"
  BY Parts DEF Kill, Closed
<1>2. LogPart'
  <2>1. /\ next_offset' = disk_next /\ buffer_pos' = 0 /\ index_table' = NoIndex
        /\ log' = [o \in {p \in DOMAIN log : p < disk_next} |-> log[o]]
        /\ disk_next' = disk_next /\ disk_index' = disk_index
        /\ disk_next \in Nat /\ End' = disk_next
    BY <1>1 DEF Kill, Closed, End, disk_vars, LogPart
  <2>2. NoIndex \in [Blocks -> Nat]
    BY DEF NoIndex
  <2>3. /\ DOMAIN log' = {p \in DOMAIN log : p < disk_next}
        /\ \A o \in DOMAIN log' : o \in DOMAIN log /\ o < disk_next /\ o \in Nat /\ log'[o] = log[o]
    BY <1>1, <2>1 DEF LogPart
  <2>4. LinksSound'
    BY <1>1, <2>1, <2>3 DEF LogPart, ChainsSound, LinksSound, Record
  <2>5. IndexSound(disk_index, disk_next)'
    BY <1>1, <2>1, <2>3 DEF LogPart, ChainsSound, IndexSound
  <2>6. ChainsSound'
    BY <1>1, <2>1, <2>3, <2>4, <2>5 DEF LogPart, ChainsSound
  <2>7. RecordsDisjoint' /\ DiskInv'
    BY <1>1, <2>1, <2>3 DEF LogPart, RecordsDisjoint, DiskInv
  <2> QED  BY <1>1, <2>1, <2>2, <2>3, <2>6, <2>7, Sizes DEF LogPart
<1>3. ServePart'
  BY <1>1, NoRequestTyped DEF Kill, Closed, ServePart, RequestInv, Reading, Pcs, NoRequest,
    ReadBuffers, EmptyReadBuffer
<1> QED  BY <1>2, <1>3, PartsSuffice

LEMMA TickKeeps == ASSUME IInv, Tick PROVE IInv'
<1>1. LogPart /\ ServePart
  BY Parts
<1>2. UNCHANGED <<disk_vars, bio_vars, index_table, pc, rb, req, requests>> /\ clock' \in 0..MaxTime
  BY DEF Tick
<1>3. LogPart'
  BY <1>1, <1>2 DEF LogPart, ChainsSound, LinksSound, IndexSound, RecordsDisjoint, DiskInv, End,
    disk_vars, bio_vars
<1>4. ServePart'
  BY <1>1, <1>2 DEF ServePart, RequestInv, Reading, First
<1> QED  BY <1>3, <1>4, PartsSuffice

LEMMA StutterKeeps == ASSUME IInv, UNCHANGED vars PROVE IInv'
<1>1. LogPart /\ ServePart
  BY Parts
<1>2. UNCHANGED <<disk_vars, bio_vars, index_table, pc, rb, req, requests, clock>>
  BY DEF vars
<1>3. LogPart'
  BY <1>1, <1>2 DEF LogPart, ChainsSound, LinksSound, IndexSound, RecordsDisjoint, DiskInv, End,
    disk_vars, bio_vars
<1>4. ServePart'
  BY <1>1, <1>2 DEF ServePart, RequestInv, Reading, First
<1> QED  BY <1>3, <1>4, PartsSuffice

LEMMA NextKeeps == IInv /\ [Next]_vars => IInv'
<1> SUFFICES ASSUME IInv, [Next]_vars PROVE IInv'
  OBVIOUS
<1>1. CASE Next
  <2>1. CASE Finalize
    BY <2>1, WriteHeaderKeeps, WriteIndexKeeps, Sizes DEF Finalize, CloseIndex
  <2>2. CASE KillInIndex
    BY <2>2, WriteIndexKeeps, Sizes DEF KillInIndex
  <2>3. CASE Serve
    BY <2>3, ReadBlockKeeps, WriteBlockKeeps, CompleteKeeps DEF Serve
  <2>4. CASE \E sec \in 0..(NumSectors - 1), secs \in 1..MaxSecs :
               \/ QueueRead(sec, secs)
               \/ \E data \in [0..(secs - 1) -> Sectors] : QueueWrite(sec, secs, data)
    BY <2>4, QueueReadKeeps, QueueWriteKeeps
  <2> QED  BY <1>1, <2>1, <2>2, <2>3, <2>4, OpenKeeps, BioFinalizeKeeps, KillKeeps, TickKeeps DEF Next
<1> QED  BY <1>1, StutterKeeps

\* What every other result about the preservation disk rests on.
THEOREM InvariantHolds == Spec => []IInv
<1> QED  BY InitIInv, NextKeeps, PTL DEF Spec

\* In every state of the driver the log is laid out and linked as
\* preservation.c takes it to be: chains stay in their block and point back,
\* records do not overlap, and the buffer on pd_read's stack suffices.
THEOREM LogStaysSound == Spec => []LogSound
<1>1. IInv => LogSound
  BY DEF IInv
<1> QED  BY <1>1, InvariantHolds, PTL

\* No step touches what lies below the header's next_offset, or changes a record.
Kept ==
  /\ disk_next' >= disk_next
  /\ \A o \in DOMAIN log : o < disk_next => o \in DOMAIN log' /\ log'[o] = log[o]
  /\ \A o \in DOMAIN log \cap DOMAIN log' : log'[o] = log[o]

LEMMA PastKept == IInv /\ [Next]_vars => Kept
<1> SUFFICES ASSUME IInv, [Next]_vars PROVE Kept
  OBVIOUS
<1>1. disk_next \in Nat /\ next_offset \in Nat /\ disk_next <= next_offset
  BY DEF IInv, LogSound, TypeOK, ChainsSound
<1>2. CASE UNCHANGED <<disk_next, log>>
  BY <1>1, <1>2 DEF Kept
<1>3. CASE WriteBlock
  <2>1. pc = "write" /\ disk_next' = disk_next
    BY <1>3 DEF WriteBlock, disk_vars
  <2>2. PICK r \in ReadLatestBlock(Block) :
          LET data == Updated(r.data, FirstOf, Covered, DataFrom) IN
          UNCHANGED bio_vars \/ BioWrite(Block, NewRecord(Block, data))
    BY <1>3, WriteStep
  <2>3. r.data \in Content
    BY <2>1, AtBlock, LatestBlock
  <2> DEFINE data == Updated(r.data, FirstOf, Covered, DataFrom)
  <2>4. data \in Content
    BY <2>1, <2>3, WriteProgress
  <2> HIDE DEF data
  <2>5. CASE BioWrite(Block, NewRecord(Block, data))
    <3>1. NewRecord(Block, data) \in Record
      BY <2>1, <2>4, NewRecordTyped
    <3>2. \A o \in DOMAIN log : o \in DOMAIN log' /\ log'[o] = log[o]
      BY <2>1, <2>5, <3>1, AtBlock, AppendedAt
    <3> QED  BY <1>1, <2>1, <3>2 DEF Kept
  <2> QED  BY <1>2, <2>1, <2>2, <2>5 DEF data, bio_vars
<1>4. CASE Kill
  BY <1>1, <1>4 DEF Kill, Kept, disk_vars
<1>5. CASE WriteHeader
  BY <1>1, <1>5 DEF WriteHeader, Kept, bio_vars
<1>6. ASSUME NEW done, WriteIndex(done) PROVE Kept
  BY <1>1, <1>6 DEF WriteIndex, Kept
<1> QED
  BY <1>2, <1>3, <1>4, <1>5, <1>6 DEF vars, Next, Serve, Finalize, CloseIndex, KillInIndex, Open, QueueRead,
    QueueWrite, ReadBlock, Complete, BioFinalize, Tick, disk_vars, bio_vars

\* What the header on disk covers is never touched, and it never moves back.
THEOREM PastStaysPreserved == Spec => PastPreserved
<1>1. ASSUME IInv, [Next]_vars PROVE [Kept]_vars
  BY <1>1, PastKept
<1> QED  BY <1>1, InvariantHolds, PTL DEF Spec, PastPreserved, Kept

-----------------------------------------------------------------------------
(* The versions on a chain *)

\* A log whose records point back, to other records or to none.
PointsBack(l) ==
  /\ DOMAIN l \subseteq Nat \ {0}
  /\ \A o \in DOMAIN l : l[o].next \in {0} \cup DOMAIN l /\ l[o].next < o

VersionOf(rec) == [ts |-> rec.ts, data |-> rec.data]
ChainOf(f, l, o) == IF o = 0 THEN <<>> ELSE Append(f[l[o].next], VersionOf(l[o]))
IsChains(f, l) == f = [o \in {0} \cup DOMAIN l |-> ChainOf(f, l, o)]

\* Following the links of such a log is well defined.
LEMMA ChainsExist ==
  ASSUME NEW l, PointsBack(l), NEW end \in Nat, \A o \in DOMAIN l : o < end
  PROVE  \E f : IsChains(f, l)
<1> DEFINE D     == {0} \cup DOMAIN l
           Upto(n) == {o \in D : o <= n}
           Good(f, n) == f = [o \in Upto(n) |-> ChainOf(f, l, o)]
           S     == {n \in Nat : \E f : Good(f, n)}
<1>1. D \subseteq Nat /\ \A o \in D \ {0} : l[o].next \in D /\ l[o].next < o
  BY DEF PointsBack
<1>2. ASSUME NEW n \in Nat, \A m \in 0..(n - 1) : m \in S PROVE n \in S
  <2>1. CASE n = 0
    <3> DEFINE f == [o \in {0} |-> <<>>]
    <3>1. Upto(0) = {0}
      BY <1>1
    <3>2. Good(f, 0)
      BY <3>1 DEF ChainOf
    <3> HIDE DEF Good
    <3> QED  BY <2>1, <3>2
  <2>2. CASE n # 0
    <3>1. n - 1 \in 0..(n - 1) /\ n - 1 \in Nat
      BY <2>2
    <3>2. PICK g : Good(g, n - 1)
      BY <1>2, <3>1
    <3> DEFINE f == [o \in Upto(n) |-> ChainOf(g, l, o)]
    <3>3. ASSUME NEW o \in Upto(n) PROVE ChainOf(g, l, o) = ChainOf(f, l, o)
      <4>1. CASE o = 0
        BY <4>1 DEF ChainOf
      <4>2. CASE o # 0
        <5> DEFINE p == l[o].next
        <5>1. p \in D /\ p < o /\ p \in Nat /\ o \in Nat /\ o <= n
          BY <1>1, <4>2
        <5>2. p \in Upto(n - 1) /\ p \in Upto(n)
          BY <5>1
        <5>3. g[p] = ChainOf(g, l, p) /\ f[p] = ChainOf(g, l, p)
          BY <3>2, <5>2
        <5> QED  BY <4>2, <5>3 DEF ChainOf
      <4> QED  BY <4>1, <4>2
    <3>4. Good(f, n)
      BY <3>3
    <3> HIDE DEF Good, f
    <3> QED  BY <3>4
  <2> QED  BY <2>1, <2>2
<1>3. end \in S
  <2> HIDE DEF S
  <2> QED  BY <1>2, InductionOnNat
<1>4. PICK f : Good(f, end)
  BY <1>3
<1>5. Upto(end) = D
  BY <1>1
<1> QED  BY <1>4, <1>5 DEF IsChains

\* Two logs that agree on the records they share agree on their chains.
LEMMA ChainsAgree ==
  ASSUME NEW l, NEW k, NEW f, NEW g, PointsBack(l), PointsBack(k), IsChains(f, l), IsChains(g, k),
         \A o \in DOMAIN l \cap DOMAIN k : l[o] = k[o]
  PROVE  \A o \in {0} \cup (DOMAIN l \cap DOMAIN k) : f[o] = g[o]
<1> DEFINE C == {0} \cup (DOMAIN l \cap DOMAIN k)
           S == {n \in Nat : n \in C => f[n] = g[n]}
<1>1. ASSUME NEW n \in Nat, \A m \in 0..(n - 1) : m \in S, n \in C PROVE f[n] = g[n]
  <2>1. f[n] = ChainOf(f, l, n) /\ g[n] = ChainOf(g, k, n)
    BY <1>1 DEF IsChains
  <2>2. CASE n = 0
    BY <2>1, <2>2 DEF ChainOf
  <2>3. CASE n # 0
    <3> DEFINE p == l[n].next
    <3>1. l[n] = k[n] /\ p \in C /\ p < n /\ p \in Nat
      BY <1>1, <2>3 DEF PointsBack
    <3>2. p \in 0..(n - 1)
      BY <3>1
    <3>3. f[p] = g[p]
      BY <1>1, <3>1, <3>2
    <3> QED  BY <2>1, <2>3, <3>1, <3>3 DEF ChainOf
  <2> QED  BY <2>2, <2>3
<1>2. Nat \subseteq S
  <2>1. \A n \in Nat : (\A m \in 0..(n - 1) : m \in S) => n \in S
    BY <1>1
  <2> HIDE DEF S
  <2> QED  BY <2>1, InductionOnNat
<1>3. C \subseteq Nat
  BY DEF PointsBack
<1> QED  BY <1>2, <1>3

Version == [ts : 0..MaxTime, data : Content]

LEMMA LogPointsBack ==
  LogSound => PointsBack(log) /\ End \in Nat /\ \A o \in DOMAIN log : o < End
BY Sizes DEF LogSound, TypeOK, ChainsSound, LinksSound, PointsBack, Record, End

LEMMA VersionsAreChains == LogSound => PointsBack(log) /\ IsChains(Versions, log)
<1> SUFFICES ASSUME LogSound PROVE PointsBack(log) /\ IsChains(Versions, log)
  OBVIOUS
<1>1. \E f : IsChains(f, log)
  BY LogPointsBack, ChainsExist
<1> QED  BY <1>1, LogPointsBack DEF Versions, IsChains, ChainOf, VersionOf

LEMMA VersionsUnfold ==
  LogSound => /\ Versions[0] = <<>>
              /\ \A o \in DOMAIN log : Versions[o] = Append(Versions[log[o].next], VersionOf(log[o]))
BY VersionsAreChains DEF IsChains, ChainOf, PointsBack

\* The versions on chains that a step keeps are those they were.
LEMMA VersionsKept ==
  ASSUME LogSound, LogSound', \A o \in DOMAIN log \cap DOMAIN log' : log'[o] = log[o]
  PROVE  \A o \in {0} \cup (DOMAIN log \cap DOMAIN log') : Versions'[o] = Versions[o]
<1>1. PointsBack(log) /\ IsChains(Versions, log)
  BY VersionsAreChains
<1>2. (LogSound => PointsBack(log) /\ IsChains(Versions, log))'
  BY VersionsAreChains, PTL
<1> QED  BY <1>1, <1>2, ChainsAgree

LEMMA VersionsTyped ==
  LogSound => \A o \in {0} \cup DOMAIN log :
    Versions[o] \in Seq(Version) /\ (o # 0 => Versions[o] # <<>>)
<1> SUFFICES ASSUME LogSound
             PROVE  \A o \in {0} \cup DOMAIN log :
                      Versions[o] \in Seq(Version) /\ (o # 0 => Versions[o] # <<>>)
  OBVIOUS
<1> DEFINE C == {0} \cup DOMAIN log
           S == {n \in Nat : n \in C => Versions[n] \in Seq(Version)}
<1>1. ASSUME NEW n \in Nat, \A m \in 0..(n - 1) : m \in S, n \in C
      PROVE  Versions[n] \in Seq(Version) /\ (n # 0 => Versions[n] # <<>>)
  <2>1. CASE n = 0
    <3>1. Versions[n] = <<>>
      BY <2>1, VersionsUnfold
    <3>2. <<>> \in Seq(Version)
      OBVIOUS
    <3> QED  BY <2>1, <3>1, <3>2
  <2>2. CASE n # 0
    <3> DEFINE p == log[n].next
    <3>1. p \in C /\ p < n /\ p \in Nat /\ n \in DOMAIN log
      BY <1>1, <2>2, LogPointsBack DEF PointsBack
    <3>2. p \in 0..(n - 1)
      BY <3>1
    <3>3. Versions[p] \in Seq(Version)
      BY <1>1, <3>1, <3>2
    <3>4. VersionOf(log[n]) \in Version
      BY <3>1 DEF LogSound, TypeOK, Record, VersionOf, Version
    <3>5. Versions[n] = Append(Versions[p], VersionOf(log[n]))
      BY <3>1, VersionsUnfold
    <3> HIDE DEF p
    <3> QED  BY <3>3, <3>4, <3>5
  <2> QED  BY <2>1, <2>2
<1>2. Nat \subseteq S
  <2>1. \A n \in Nat : (\A m \in 0..(n - 1) : m \in S) => n \in S
    BY <1>1
  <2> HIDE DEF S
  <2> QED  BY <2>1, InductionOnNat
<1>3. C \subseteq Nat
  BY LogPointsBack DEF PointsBack
<1>4. \A m \in Nat : \A k \in 0..(m - 1) : k \in S
  BY <1>2
<1> HIDE DEF S
<1> QED  BY <1>1, <1>3, <1>4

-----------------------------------------------------------------------------
(* Recorded histories *)

Entry == [ts : 0..MaxTime, data : Content, ok : BOOLEAN, request : Nat]

LEMMA RecordedFacts ==
  ASSUME NEW h \in Seq(Entry)
  PROVE  LET f == FirstRecorded(h) IN
         /\ f \in 1..(Len(h) + 1) /\ \A j \in 1..(f - 1) : h[j].data = ZeroBlock
         /\ f <= Len(h) => h[f].data # ZeroBlock
         /\ Len(Recorded(h)) = Len(h) + 1 - f /\ DOMAIN Recorded(h) = 1..(Len(h) + 1 - f)
         /\ \A i \in 1..(Len(h) + 1 - f) : Recorded(h)[i] = h[f - 1 + i]
<1> DEFINE f == FirstRecorded(h)
           used == {i \in DOMAIN h : h[i].data # ZeroBlock}
<1>1. Len(h) \in Nat /\ DOMAIN h = 1..Len(h)
  OBVIOUS
<1>2. /\ f \in 1..(Len(h) + 1) /\ \A j \in 1..(f - 1) : h[j].data = ZeroBlock
      /\ f <= Len(h) => h[f].data # ZeroBlock
  <2>1. CASE used = {}
    <3>1. f = Len(h) + 1
      BY <2>1 DEF FirstRecorded
    <3>2. \A j \in 1..Len(h) : h[j].data = ZeroBlock
      BY <1>1, <2>1
    <3> HIDE DEF f
    <3> QED  BY <1>1, <3>1, <3>2
  <2>2. CASE used # {}
    <3>1. PICK i \in used : \A j \in used : i <= j
      <4>1. used \subseteq Nat
        BY <1>1
      <4> HIDE DEF used
      <4> QED  BY <2>2, <4>1, LeastNat
    <3>2. i \in DOMAIN h /\ h[i].data # ZeroBlock /\ \A j \in 1..(i - 1) : h[j].data = ZeroBlock
      BY <1>1, <3>1
    <3>3. f \in DOMAIN h /\ h[f].data # ZeroBlock /\ \A j \in 1..(f - 1) : h[j].data = ZeroBlock
      BY <3>2 DEF FirstRecorded
    <3> HIDE DEF f
    <3> QED  BY <1>1, <3>3
  <2> QED  BY <2>1, <2>2
<1> HIDE DEF f
<1>3. Recorded(h) = SubSeq(h, f, Len(h))
  BY DEF Recorded, f
<1>4. /\ Len(Recorded(h)) = Len(h) + 1 - f /\ DOMAIN Recorded(h) = 1..(Len(h) + 1 - f)
      /\ \A i \in 1..(Len(h) + 1 - f) : Recorded(h)[i] = h[f - 1 + i]
  <2>1. f \in Nat /\ 1 <= f /\ f <= Len(h) + 1
    BY <1>1, <1>2
  <2> QED  BY <1>1, <1>3, <2>1
<1> QED  BY <1>2, <1>4 DEF f

LEMMA FirstUnique ==
  ASSUME NEW h \in Seq(Entry), NEW k \in 1..(Len(h) + 1),
         \A j \in 1..(k - 1) : h[j].data = ZeroBlock, k <= Len(h) => h[k].data # ZeroBlock
  PROVE  FirstRecorded(h) = k
<1> DEFINE f == FirstRecorded(h)
<1>1. /\ f \in 1..(Len(h) + 1) /\ \A j \in 1..(f - 1) : h[j].data = ZeroBlock
      /\ f <= Len(h) => h[f].data # ZeroBlock
  BY RecordedFacts
<1> HIDE DEF f
<1>2. ~(f < k) /\ ~(k < f)
  BY <1>1
<1>3. f = k
  BY <1>1, <1>2
<1> QED  BY <1>3 DEF f

\* One more version on the chain, and one more write in the history.
LEMMA RecordMore ==
  ASSUME NEW h \in Seq(Entry), NEW x \in Entry, NEW vs \in Seq(Version), NEW v \in Version,
         Match(vs, Recorded(h)), vs # <<>> \/ x.data # ZeroBlock,
         v.ts = x.ts, x.ok => v.data = x.data
  PROVE  Match(Append(vs, v), Recorded(Append(h, x)))
<1> DEFINE n  == Len(h)
           f  == FirstRecorded(h)
           h2 == Append(h, x)
<1>1. /\ f \in 1..(n + 1) /\ \A j \in 1..(f - 1) : h[j].data = ZeroBlock
      /\ f <= n => h[f].data # ZeroBlock
      /\ Len(Recorded(h)) = n + 1 - f /\ DOMAIN Recorded(h) = 1..(n + 1 - f)
      /\ \A i \in 1..(n + 1 - f) : Recorded(h)[i] = h[f - 1 + i]
  BY RecordedFacts
<1>2. /\ n \in Nat /\ h2 \in Seq(Entry) /\ Len(h2) = n + 1
      /\ h2[n + 1] = x /\ \A j \in 1..n : h2[j] = h[j]
  OBVIOUS
<1> HIDE DEF n, f, h2
<1>3. Len(vs) = n + 1 - f /\ \A i \in 1..(n + 1 - f) :
        vs[i].ts = h[f - 1 + i].ts /\ (h[f - 1 + i].ok => vs[i].data = h[f - 1 + i].data)
  BY <1>1 DEF Match
<1>4. FirstRecorded(h2) = f
  <2>1. f \in 1..(Len(h2) + 1) /\ \A j \in 1..(f - 1) : h2[j].data = ZeroBlock
    BY <1>1, <1>2
  <2>2. ASSUME f <= Len(h2) PROVE h2[f].data # ZeroBlock
    <3>1. CASE f <= n
      BY <1>1, <1>2, <3>1
    <3>2. CASE f = n + 1
      <4>1. vs = <<>>
        BY <1>2, <1>3, <3>2
      <4> QED  BY <1>2, <3>2, <4>1
    <3> QED  BY <1>1, <1>2, <3>1, <3>2
  <2> QED  BY <1>2, <2>1, <2>2, FirstUnique
<1>5. /\ Len(Recorded(h2)) = n + 2 - f /\ DOMAIN Recorded(h2) = 1..(n + 2 - f)
      /\ \A i \in 1..(n + 2 - f) : Recorded(h2)[i] = h2[f - 1 + i]
  <2>1. /\ Len(Recorded(h2)) = Len(h2) + 1 - f /\ DOMAIN Recorded(h2) = 1..(Len(h2) + 1 - f)
        /\ \A i \in 1..(Len(h2) + 1 - f) : Recorded(h2)[i] = h2[f - 1 + i]
    BY <1>2, <1>4, RecordedFacts
  <2>2. Len(h2) + 1 - f = n + 2 - f
    BY <1>1, <1>2
  <2> QED  BY <2>1, <2>2
<1>6. Len(Append(vs, v)) = n + 2 - f /\ Append(vs, v)[n + 2 - f] = v
  <2>1. Len(Append(vs, v)) = Len(vs) + 1 /\ Append(vs, v)[Len(vs) + 1] = v
    OBVIOUS
  <2>2. Len(vs) + 1 = n + 2 - f
    BY <1>1, <1>2, <1>3
  <2> QED  BY <2>1, <2>2
<1>7. ASSUME NEW i \in 1..(n + 2 - f)
      PROVE  /\ Append(vs, v)[i].ts = h2[f - 1 + i].ts
             /\ h2[f - 1 + i].ok => Append(vs, v)[i].data = h2[f - 1 + i].data
  <2>1. CASE i = n + 2 - f
    <3>1. Append(vs, v)[i] = v /\ f - 1 + i = n + 1
      BY <1>1, <1>2, <1>6, <2>1
    <3> QED  BY <1>2, <3>1
  <2>2. CASE i # n + 2 - f
    <3>1. i \in 1..(n + 1 - f) /\ f - 1 + i \in 1..n
      BY <1>1, <1>2, <2>2
    <3>2. Append(vs, v)[i] = vs[i] /\ h2[f - 1 + i] = h[f - 1 + i]
      BY <1>2, <1>3, <3>1
    <3> QED  BY <1>3, <3>1, <3>2
  <2> QED  BY <2>1, <2>2
<1>8. Match(Append(vs, v), Recorded(h2))
  BY <1>5, <1>6, <1>7 DEF Match
<1> QED  BY <1>8 DEF h2

\* While nothing is recorded, a block is zero.
LEMMA NothingRecorded ==
  ASSUME NEW h \in Seq(Entry), Match(<<>>, Recorded(h))
  PROVE  FirstRecorded(h) = Len(h) + 1 /\ \A j \in 1..Len(h) : h[j].data = ZeroBlock
<1>1. Len(Recorded(h)) = 0
  BY DEF Match
<1> DEFINE n == Len(h)
           f == FirstRecorded(h)
<1>2. /\ f \in 1..(n + 1) /\ \A j \in 1..(f - 1) : h[j].data = ZeroBlock
      /\ Len(Recorded(h)) = n + 1 - f /\ n \in Nat
  BY RecordedFacts
<1> HIDE DEF n, f
<1>3. f = n + 1 /\ \A j \in 1..n : h[j].data = ZeroBlock
  BY <1>1, <1>2
<1> QED  BY <1>3 DEF n, f

\* Leaving out a zero block that replaces nothing loses nothing.
LEMMA RecordNothing ==
  ASSUME NEW h \in Seq(Entry), NEW x \in Entry, x.data = ZeroBlock, Match(<<>>, Recorded(h))
  PROVE  Match(<<>>, Recorded(Append(h, x)))
<1> DEFINE n  == Len(h)
           h2 == Append(h, x)
<1>1. n \in Nat /\ h2 \in Seq(Entry) /\ Len(h2) = n + 1 /\ \A j \in 1..(n + 1) : h2[j].data = ZeroBlock
  BY NothingRecorded
<1> HIDE DEF n, h2
<1>2. FirstRecorded(h2) = n + 2
  <2>1. n + 2 \in 1..(Len(h2) + 1) /\ \A j \in 1..(n + 2 - 1) : h2[j].data = ZeroBlock
        /\ ~(n + 2 <= Len(h2))
    BY <1>1
  <2> QED  BY <1>1, <2>1, FirstUnique
<1>3. Len(Recorded(h2)) = 0 /\ DOMAIN Recorded(h2) = {}
  <2>1. /\ Len(Recorded(h2)) = Len(h2) + 1 - (n + 2)
        /\ DOMAIN Recorded(h2) = 1..(Len(h2) + 1 - (n + 2))
    BY <1>1, <1>2, RecordedFacts
  <2>2. Len(h2) + 1 - (n + 2) = 0
    BY <1>1
  <2> QED  BY <2>1, <2>2
<1> QED  BY <1>3 DEF Match, h2

\* The newest version is the last write, unless that was built on a stale read.
LEMMA LastRecorded ==
  ASSUME NEW h \in Seq(Entry), NEW vs \in Seq(Version), vs # <<>>, Match(vs, Recorded(h))
  PROVE  h # <<>> /\ (h[Len(h)].ok => vs[Len(vs)].data = h[Len(h)].data)
<1> DEFINE n == Len(h)
           f == FirstRecorded(h)
<1>1. /\ f \in 1..(n + 1) /\ n \in Nat
      /\ Len(Recorded(h)) = n + 1 - f /\ DOMAIN Recorded(h) = 1..(n + 1 - f)
      /\ \A i \in 1..(n + 1 - f) : Recorded(h)[i] = h[f - 1 + i]
  BY RecordedFacts
<1> HIDE DEF n, f
<1>2. Len(vs) = n + 1 - f /\ Len(vs) \in Nat /\ Len(vs) # 0
  BY <1>1 DEF Match
<1>3. Len(vs) \in 1..(n + 1 - f) /\ f - 1 + Len(vs) = n /\ n # 0
  BY <1>1, <1>2
<1>4. Recorded(h)[Len(vs)] = h[n]
  BY <1>1, <1>3
<1>5. h[n].ok => vs[Len(vs)].data = h[n].data
  BY <1>1, <1>3, <1>4 DEF Match
<1> QED  BY <1>3, <1>5 DEF n

-----------------------------------------------------------------------------
(* The chains are the history *)

Histories == [Blocks -> Seq(Entry)]
HistInv ==
  /\ hist \in Histories /\ disk_hist \in Histories
  /\ pc = "closed" => hist = disk_hist
  /\ HistoryRecorded

LEMMA InitHistory == Init => HistInv
<1> SUFFICES ASSUME Init PROVE HistInv
  OBVIOUS
<1>1. IInv
  BY InitIInv
<1>2. Versions[0] = <<>>
  BY <1>1, VersionsUnfold DEF IInv
<1>3. <<>> \in Seq(Entry)
  OBVIOUS
<1>4. Match(<<>>, Recorded(<<>>))
  <2>1. FirstRecorded(<<>>) = 1
    BY DEF FirstRecorded
  <2>2. Recorded(<<>>) = <<>>
    BY <2>1, <1>3, RecordedFacts DEF Recorded
  <2> QED  BY <2>2 DEF Match
<1> QED  BY <1>2, <1>3, <1>4 DEF Init, HistInv, Histories, HistoryRecorded, NoIndex

\* The entries of both tables are 0 or records.
LEMMA Entries ==
  ASSUME IInv, NEW b \in Blocks
  PROVE  /\ disk_index[b] \in {0} \cup DOMAIN log
         /\ disk_index[b] # 0 => disk_index[b] < disk_next
         /\ pc # "closed" => index_table[b] \in {0} \cup DOMAIN log
BY DEF IInv, LogSound, ChainsSound, IndexSound

\* Steps that neither write a block nor touch tables or history.
LEMMA HistoryStays ==
  ASSUME IInv, IInv', HistInv, UNCHANGED <<log, disk_index, hist, disk_hist>>,
         pc' # "closed" \/ hist = disk_hist,
         pc' # "closed" => (index_table' = index_table /\ pc # "closed") \/ (index_table' = disk_index /\ pc = "closed")
  PROVE  HistInv'
<1>1. \A o \in {0} \cup DOMAIN log : Versions'[o] = Versions[o]
  BY VersionsKept DEF IInv
<1>2. ASSUME NEW b \in Blocks
      PROVE  /\ pc' # "closed" => Match(Versions'[index_table'[b]], Recorded(hist'[b]))
             /\ Match(Versions'[disk_index'[b]], Recorded(disk_hist'[b]))
  BY <1>1, Entries DEF HistInv, HistoryRecorded
<1> QED  BY <1>2 DEF HistInv, HistoryRecorded

LEMMA KillHistory == ASSUME IInv, IInv', HistInv, Kill PROVE HistInv'
<1>1. /\ pc' = "closed" /\ hist' = disk_hist /\ disk_hist' = disk_hist /\ disk_index' = disk_index
      /\ log' = [o \in {p \in DOMAIN log : p < disk_next} |-> log[o]]
  BY DEF Kill, Closed, disk_vars
<1>2. \A o \in {0} \cup (DOMAIN log \cap DOMAIN log') : Versions'[o] = Versions[o]
  BY <1>1, VersionsKept DEF IInv
<1>3. ASSUME NEW b \in Blocks PROVE Match(Versions'[disk_index'[b]], Recorded(disk_hist'[b]))
  BY <1>1, <1>2, Entries DEF HistInv, HistoryRecorded
<1> QED  BY <1>1, <1>3 DEF HistInv, HistoryRecorded

LEMMA WriteIndexHistory ==
  ASSUME IInv, IInv', HistInv, NEW done \in 0..NumBlocks, WriteIndex(done) PROVE HistInv'
<1>1. /\ pc = "index" /\ pc' = "closed" /\ hist' = disk_hist' /\ log' = log
      /\ disk_index' = [b \in Blocks |-> IF b < done THEN index_table[b] ELSE disk_index[b]]
      /\ disk_hist' = [b \in Blocks |-> IF b < done THEN hist[b] ELSE disk_hist[b]]
  BY DEF WriteIndex, Closed
<1>2. \A o \in {0} \cup DOMAIN log : Versions'[o] = Versions[o]
  BY <1>1, VersionsKept DEF IInv
<1>3. ASSUME NEW b \in Blocks PROVE Match(Versions'[disk_index'[b]], Recorded(disk_hist'[b]))
  BY <1>1, <1>2, Entries DEF HistInv, HistoryRecorded
<1>4. disk_hist' \in Histories
  BY <1>1 DEF HistInv, Histories
<1> QED  BY <1>1, <1>3, <1>4 DEF HistInv, HistoryRecorded

\* What pd_write adds to the history of its block.
NewEntry(r) ==
  [ts |-> req.ts, data |-> Updated(Current(hist, Block), FirstOf, Covered, DataFrom),
   ok |-> Covered = SectorsPerBlock \/ (~r.stale /\ CurrentOk(hist, Block)),
   request |-> requests]

LEMMA CurrentTyped ==
  ASSUME HistInv, NEW b \in Blocks PROVE Current(hist, b) \in Content
<1>1. hist[b] \in Seq(Entry)
  BY DEF HistInv, Histories
<1>2. CASE hist[b] # <<>>
  <2>1. Len(hist[b]) \in 1..Len(hist[b])
    BY <1>1, <1>2
  <2>2. hist[b][Len(hist[b])] \in Entry
    BY <1>1, <2>1
  <2> QED  BY <1>2, <2>2 DEF Current, Entry
<1> QED  BY <1>2, ZeroIsContent DEF Current

\* The newest version of a block is what was last written to it.
LEMMA NewestIsCurrent ==
  ASSUME IInv, HistInv, pc # "closed", NEW b \in Blocks
  PROVE  /\ index_table[b] = 0 => Current(hist, b) = ZeroBlock
         /\ CurrentOk(hist, b) => Newest(b) = Current(hist, b)
<1> DEFINE h  == hist[b]
           o  == index_table[b]
           vs == Versions[o]
<1>1. h \in Seq(Entry) /\ o \in {0} \cup DOMAIN log
  BY Entries DEF HistInv, Histories
<1>2. vs \in Seq(Version) /\ Match(vs, Recorded(h)) /\ (o # 0 => vs # <<>>)
  BY <1>1, VersionsTyped DEF IInv, HistInv, HistoryRecorded
<1>3. CASE o = 0
  <2>1. vs = <<>>
    BY <1>3, VersionsUnfold DEF IInv
  <2>2. \A j \in 1..Len(h) : h[j].data = ZeroBlock
    BY <1>1, <1>2, <2>1, NothingRecorded
  <2>3. Current(hist, b) = ZeroBlock
    BY <1>1, <2>2 DEF Current
  <2> QED  BY <1>3, <2>3 DEF Newest
<1>4. CASE o # 0
  <2>1. SUFFICES ASSUME CurrentOk(hist, b) PROVE Newest(b) = Current(hist, b)
    BY <1>4
  <2>2. h # <<>> /\ (h[Len(h)].ok => vs[Len(vs)].data = h[Len(h)].data)
    BY <1>1, <1>2, <1>4, LastRecorded
  <2>3. Current(hist, b) = h[Len(h)].data /\ h[Len(h)].ok
    BY <2>1, <2>2 DEF Current, CurrentOk
  <2>4. o \in DOMAIN log /\ vs = Append(Versions[log[o].next], VersionOf(log[o]))
    BY <1>1, <1>4, VersionsUnfold DEF IInv
  <2>5. Versions[log[o].next] \in Seq(Version) /\ VersionOf(log[o]) \in Version
    <3>1. log[o].next \in {0} \cup DOMAIN log
      BY <2>4, LogPointsBack DEF IInv, PointsBack
    <3>2. log[o] \in Record
      BY <2>4 DEF IInv, LogSound, TypeOK
    <3> QED  BY <3>1, <3>2, VersionsTyped DEF IInv, Record, VersionOf, Version
  <2>6. vs[Len(vs)] = VersionOf(log[o])
    BY <2>4, <2>5
  <2> QED  BY <1>4, <2>2, <2>3, <2>6 DEF VersionOf, Newest
<1> QED  BY <1>3, <1>4

\* What pd_write appends to the log has the time of the entry, and its data
\* unless a stale read is involved.
LEMMA EntryMatches ==
  ASSUME IInv, HistInv, pc = "write", NEW r \in ReadLatestBlock(Block)
  PROVE  LET data == Updated(r.data, FirstOf, Covered, DataFrom)
             x    == NewEntry(r)
         IN  /\ x \in Entry /\ x.ts = req.ts /\ data \in Content
             /\ x.ok => data = x.data
             /\ index_table[Block] = 0 => data = x.data
<1> DEFINE b    == Block
           old  == Current(hist, Block)
           data == Updated(r.data, FirstOf, Covered, DataFrom)
           x    == NewEntry(r)
<1>1. /\ b \in Blocks /\ old \in Content
      /\ req.ts \in 0..MaxTime /\ requests \in Nat
  BY AtBlock, CurrentTyped, Entries, Parts, Sizes DEF HistInv, Histories, ServePart, RequestInv, Requests
<1>2. /\ r.data \in Content /\ r.stale \in BOOLEAN /\ (~r.stale => r.data = Newest(Block))
      /\ (index_table[Block] = 0 => r.data = ZeroBlock)
  BY AtBlock, LatestBlock
<1>3. /\ data \in Content /\ Updated(old, FirstOf, Covered, DataFrom) \in Content
      /\ FirstOf \in 0..(SectorsPerBlock - 1) /\ Covered \in 1..SectorsPerBlock
      /\ FirstOf + Covered <= SectorsPerBlock
  BY <1>1, <1>2, WriteProgress
<1>4. x \in Entry /\ x.ts = req.ts /\ x.data = Updated(old, FirstOf, Covered, DataFrom)
      /\ (x.ok <=> (Covered = SectorsPerBlock \/ (~r.stale /\ CurrentOk(hist, Block))))
  <2> DEFINE ok == Covered = SectorsPerBlock \/ (~r.stale /\ CurrentOk(hist, Block))
  <2>1. ok \in BOOLEAN
    OBVIOUS
  <2>2. x = [ts |-> req.ts, data |-> Updated(old, FirstOf, Covered, DataFrom), ok |-> ok,
             request |-> requests]
    BY DEF NewEntry
  <2> HIDE DEF ok, x
  <2>3. x \in Entry /\ x.ts = req.ts /\ x.data = Updated(old, FirstOf, Covered, DataFrom) /\ x.ok = ok
    BY <1>1, <1>3, <2>1, <2>2 DEF Entry
  <2> QED  BY <2>3 DEF ok
<1>5. /\ index_table[Block] = 0 => old = ZeroBlock
      /\ CurrentOk(hist, Block) => Newest(Block) = old
  BY <1>1, NewestIsCurrent
<1>6. index_table[Block] = 0 => data = x.data
  BY <1>2, <1>4, <1>5
<1>7. ASSUME Covered = SectorsPerBlock PROVE data = x.data
  <2>1. FirstOf = 0 /\ \A s \in 0..(SectorsPerBlock - 1) : s \in FirstOf..(FirstOf + Covered - 1)
    BY <1>3, <1>7, Sizes
  <2> QED  BY <1>4, <2>1 DEF Updated
<1>8. ASSUME ~r.stale, CurrentOk(hist, Block) PROVE data = x.data
  BY <1>2, <1>4, <1>5, <1>8
<1> QED  BY <1>3, <1>4, <1>6, <1>7, <1>8

\* What pd_write does to the chains: a version more on that of its block, or
\* nothing where zeros would be the first version.
LEMMA WriteChains ==
  ASSUME IInv, IInv', WriteBlock
  PROVE  \E r \in ReadLatestBlock(Block) :
           LET data == Updated(r.data, FirstOf, Covered, DataFrom)
               old  == Versions[index_table[Block]]
               new  == Versions'[index_table'[Block]]
           IN  /\ data \in Content
               /\ hist' = [hist EXCEPT ![Block] = Append(@, NewEntry(r))]
               /\ \A b \in Blocks : Versions'[disk_index[b]] = Versions[disk_index[b]]
               /\ \A b \in Blocks \ {Block} : Versions'[index_table'[b]] = Versions[index_table[b]]
               /\ \/ data = ZeroBlock /\ index_table[Block] = 0 /\ old = <<>> /\ new = <<>>
                  \/ /\ old # <<>> \/ (data # ZeroBlock /\ index_table[Block] = 0)
                     /\ new = Append(old, [ts |-> req.ts, data |-> data])
<1>1. pc = "write" /\ Block \in Blocks
  BY AtBlock DEF WriteBlock
<1>2. PICK r \in ReadLatestBlock(Block) :
        LET data == Updated(r.data, FirstOf, Covered, DataFrom) IN
        /\ \/ Ignored(Block, data) /\ UNCHANGED <<bio_vars, index_table>>
           \/ ~Ignored(Block, data) /\ BioWrite(Block, NewRecord(Block, data))
        /\ hist' = [hist EXCEPT ![Block] = Append(@, NewEntry(r))]
  BY WriteStep DEF NewEntry
<1> DEFINE data == Updated(r.data, FirstOf, Covered, DataFrom)
           at   == index_table[Block]
           old  == Versions[at]
           new  == Versions'[index_table'[Block]]
<1>3. data \in Content
  BY <1>1, LatestBlock, WriteProgress
<1>4. \/ Ignored(Block, data) /\ UNCHANGED <<bio_vars, index_table>>
      \/ ~Ignored(Block, data) /\ BioWrite(Block, NewRecord(Block, data))
  BY <1>2
<1>5. hist' = [hist EXCEPT ![Block] = Append(@, NewEntry(r))]
  BY <1>2
<1> HIDE DEF data
<1>6. ActualSize(data) = 0 <=> data = ZeroBlock
  BY <1>3, ActualSizes
<1>7. /\ index_table \in [Blocks -> Nat]
      /\ \A b \in Blocks : disk_index[b] \in {0} \cup DOMAIN log /\ index_table[b] \in {0} \cup DOMAIN log
  BY <1>1, Entries DEF IInv, LogSound, TypeOK
<1>8. (at = 0 => old = <<>>) /\ (at # 0 => old # <<>>)
  BY <1>1, <1>7, VersionsTyped, VersionsUnfold DEF IInv
<1>9. CASE Ignored(Block, data) /\ UNCHANGED <<bio_vars, index_table>>
  <2>1. data = ZeroBlock /\ at = 0 /\ log' = log /\ index_table' = index_table
    BY <1>6, <1>9 DEF Ignored, bio_vars
  <2>2. \A o \in {0} \cup DOMAIN log : Versions'[o] = Versions[o]
    BY <2>1, VersionsKept DEF IInv
  <2>3. new = <<>>
    BY <1>1, <1>7, <1>8, <2>1, <2>2
  <2> QED  BY <1>3, <1>5, <1>7, <1>8, <2>1, <2>2, <2>3 DEF data
<1>10. CASE ~Ignored(Block, data) /\ BioWrite(Block, NewRecord(Block, data))
  <2> DEFINE rec == NewRecord(Block, data)
             to  == index_table'[Block]
  <2>1. rec \in Record /\ rec.ts = req.ts /\ rec.data = data /\ rec.next = at
    BY <1>1, <1>3, NewRecordTyped DEF NewRecord
  <2>2. /\ index_table' = [index_table EXCEPT ![Block] = to] /\ to # 0
        /\ DOMAIN log' = DOMAIN log \cup {to}
        /\ log'[to] = rec /\ \A o \in DOMAIN log : log'[o] = log[o]
    BY <1>1, <1>10, <2>1, AppendedAt
  <2> HIDE DEF rec, to
  <2>3. \A o \in {0} \cup DOMAIN log : Versions'[o] = Versions[o]
    BY <2>2, VersionsKept DEF IInv
  <2>4. Versions'[to] = Append(Versions'[log'[to].next], VersionOf(log'[to]))
    <3>1. (LogSound => \A o \in DOMAIN log : Versions[o] = Append(Versions[log[o].next], VersionOf(log[o])))'
      BY VersionsUnfold, PTL
    <3> QED  BY <2>2, <3>1 DEF IInv
  <2>5. Versions'[to] = Append(old, [ts |-> req.ts, data |-> data])
    BY <1>1, <1>7, <2>1, <2>2, <2>3, <2>4 DEF VersionOf
  <2>6. new = Append(old, [ts |-> req.ts, data |-> data])
    BY <2>5 DEF to
  <2>7. \A b \in Blocks \ {Block} : Versions'[index_table'[b]] = Versions[index_table[b]]
    BY <1>7, <2>2, <2>3
  <2>8. old # <<>> \/ (data # ZeroBlock /\ at = 0)
    BY <1>6, <1>8, <1>10 DEF Ignored
  <2> QED  BY <1>3, <1>5, <1>7, <2>3, <2>6, <2>7, <2>8 DEF data
<1> QED  BY <1>4, <1>9, <1>10

LEMMA WriteBlockHistory == ASSUME IInv, IInv', HistInv, WriteBlock PROVE HistInv'
<1>1. /\ pc = "write" /\ pc' # "closed" /\ Block \in Blocks
      /\ disk_index' = disk_index /\ disk_hist' = disk_hist
  BY AtBlock, WriteStep DEF WriteBlock, Continue, disk_vars
<1>2. PICK r \in ReadLatestBlock(Block) :
        LET data == Updated(r.data, FirstOf, Covered, DataFrom)
            old  == Versions[index_table[Block]]
            new  == Versions'[index_table'[Block]]
        IN  /\ data \in Content
            /\ hist' = [hist EXCEPT ![Block] = Append(@, NewEntry(r))]
            /\ \A b \in Blocks : Versions'[disk_index[b]] = Versions[disk_index[b]]
            /\ \A b \in Blocks \ {Block} : Versions'[index_table'[b]] = Versions[index_table[b]]
            /\ \/ data = ZeroBlock /\ index_table[Block] = 0 /\ old = <<>> /\ new = <<>>
               \/ /\ old # <<>> \/ (data # ZeroBlock /\ index_table[Block] = 0)
                  /\ new = Append(old, [ts |-> req.ts, data |-> data])
  BY WriteChains
<1> DEFINE data == Updated(r.data, FirstOf, Covered, DataFrom)
           x    == NewEntry(r)
           old  == Versions[index_table[Block]]
           new  == Versions'[index_table'[Block]]
           h    == hist[Block]
           v    == [ts |-> req.ts, data |-> data]
<1>3. /\ x \in Entry /\ x.ts = req.ts /\ data \in Content
      /\ x.ok => data = x.data
      /\ index_table[Block] = 0 => data = x.data
  BY <1>1, EntryMatches
<1>4. hist' = [hist EXCEPT ![Block] = Append(@, x)] /\ hist \in Histories /\ h \in Seq(Entry)
  BY <1>1, <1>2 DEF HistInv, Histories
<1>5. old \in Seq(Version) /\ Match(old, Recorded(h))
  BY <1>1, Entries, VersionsTyped DEF IInv, HistInv, HistoryRecorded
<1>6. v \in Version /\ v.ts = x.ts /\ v.data = data
  BY <1>1, <1>3 DEF IInv, RequestInv, Requests, Version
<1>7. \/ data = ZeroBlock /\ index_table[Block] = 0 /\ old = <<>> /\ new = <<>>
      \/ (old # <<>> \/ (data # ZeroBlock /\ index_table[Block] = 0)) /\ new = Append(old, v)
  BY <1>2
<1> HIDE DEF data, x, old, new, h, v
<1>8. Match(new, Recorded(Append(h, x)))
  <2>1. CASE data = ZeroBlock /\ index_table[Block] = 0 /\ old = <<>> /\ new = <<>>
    BY <1>3, <1>4, <1>5, <2>1, RecordNothing
  <2>2. CASE (old # <<>> \/ (data # ZeroBlock /\ index_table[Block] = 0)) /\ new = Append(old, v)
    <3>1. old # <<>> \/ x.data # ZeroBlock
      BY <1>3, <2>2
    <3>2. Match(Append(old, v), Recorded(Append(h, x)))
      BY <1>3, <1>4, <1>5, <1>6, <3>1, RecordMore
    <3> QED  BY <2>2, <3>2
  <2> QED  BY <1>7, <2>1, <2>2
<1>9. hist' \in Histories
  BY <1>1, <1>3, <1>4 DEF Histories, h
<1>10. ASSUME NEW b \in Blocks
       PROVE  /\ Match(Versions'[index_table'[b]], Recorded(hist'[b]))
              /\ Match(Versions'[disk_index'[b]], Recorded(disk_hist'[b]))
  <2>1. Match(Versions'[disk_index'[b]], Recorded(disk_hist'[b]))
    BY <1>1, <1>2 DEF HistInv, HistoryRecorded
  <2>2. CASE b = Block
    <3>1. hist'[b] = Append(h, x)
      BY <1>1, <1>4, <2>2 DEF Histories, h
    <3> QED  BY <1>8, <2>1, <2>2, <3>1 DEF new
  <2>3. CASE b # Block
    <3>1. hist'[b] = hist[b] /\ Versions'[index_table'[b]] = Versions[index_table[b]]
      BY <1>2, <1>4, <2>3 DEF Histories
    <3> QED  BY <1>1, <2>1, <3>1 DEF HistInv, HistoryRecorded
  <2> QED  BY <2>2, <2>3
<1> QED  BY <1>1, <1>9, <1>10 DEF HistInv, HistoryRecorded

LEMMA NextHistory == IInv /\ IInv' /\ HistInv /\ [Next]_vars => HistInv'
<1> SUFFICES ASSUME IInv, IInv', HistInv, [Next]_vars PROVE HistInv'
  OBVIOUS
<1>1. CASE Open
  BY <1>1, HistoryStays DEF Open, disk_vars
<1>2. CASE WriteBlock
  BY <1>2, WriteBlockHistory
<1>3. CASE Kill
  BY <1>3, KillHistory
<1>4. ASSUME NEW done \in 0..NumBlocks, WriteIndex(done) PROVE HistInv'
  BY <1>4, WriteIndexHistory
<1>5. ASSUME UNCHANGED <<log, disk_index, hist, disk_hist, index_table>>,
             pc' # "closed" <=> pc # "closed"
      PROVE  HistInv'
  BY <1>5, HistoryStays DEF HistInv
<1>6. CASE \/ ReadBlock \/ Complete \/ BioFinalize \/ WriteHeader \/ Tick \/ UNCHANGED vars
           \/ \E sec \in 0..(NumSectors - 1), secs \in 1..MaxSecs :
                \/ QueueRead(sec, secs)
                \/ \E data \in [0..(secs - 1) -> Sectors] : QueueWrite(sec, secs, data)
  BY <1>5, <1>6 DEF ReadBlock, Complete, BioFinalize, WriteHeader, Tick, QueueRead, QueueWrite, Continue,
    vars, disk_vars, bio_vars
<1> QED  BY <1>1, <1>2, <1>3, <1>4, <1>6, Sizes DEF Next, Serve, Finalize, CloseIndex, KillInIndex

\* No version is lost, duplicated or reordered: the chains are what the guest
\* wrote, in memory and on disk, whenever the driver is closed or killed.
THEOREM HistoryStaysRecorded == Spec => []HistoryRecorded
<1>1. Init => HistInv
  BY InitHistory
<1>2. HistInv => HistoryRecorded
  BY DEF HistInv
<1> QED  BY <1>1, <1>2, NextHistory, InvariantHolds, PTL DEF Spec

-----------------------------------------------------------------------------
(* The preservation disk implements VersionHistory *)

Durable == [b \in Blocks |-> Versions[disk_index[b]]]
Session == [b \in Blocks |-> Versions[IF pc = "closed" THEN disk_index[b] ELSE index_table[b]]]

LEMMA InitRefines == Init => History!Init
<1> SUFFICES ASSUME Init PROVE History!Init
  OBVIOUS
<1>1. Versions[0] = <<>>
  BY InitIInv, VersionsUnfold DEF IInv
<1> QED  BY <1>1 DEF Init, NoIndex, History!Init

\* A step that changes neither the log nor an index, but for opening the disk.
LEMMA NothingHappens ==
  ASSUME IInv, IInv', UNCHANGED <<log, disk_index>>,
         \/ index_table' = index_table /\ (pc' = "closed" <=> pc = "closed")
         \/ index_table' = disk_index /\ pc = "closed"
  PROVE  UNCHANGED <<Durable, Session>>
<1>1. \A o \in {0} \cup DOMAIN log : Versions'[o] = Versions[o]
  BY VersionsKept DEF IInv
<1>2. \A b \in Blocks : Versions'[disk_index'[b]] = Versions[disk_index[b]]
  BY <1>1, Entries
<1>3. \A b \in Blocks :
        Versions'[IF pc' = "closed" THEN disk_index'[b] ELSE index_table'[b]]
          = Versions[IF pc = "closed" THEN disk_index[b] ELSE index_table[b]]
  BY <1>1, Entries
<1> QED  BY <1>2, <1>3 DEF Durable, Session

\* The end of a session that made the entries of the blocks in saved durable.
LEMMA Ends ==
  ASSUME NEW saved \in SUBSET Blocks, pc # "closed", pc' = "closed",
         \A b \in Blocks : Versions'[disk_index'[b]]
                            = IF b \in saved THEN Versions[index_table[b]] ELSE Versions[disk_index[b]]
  PROVE  History!EndSession(saved)
BY DEF History!EndSession

LEMMA WriteRefines ==
  ASSUME IInv, IInv', WriteBlock
  PROVE  (\E b \in Blocks : History!AppendVersion(b)) \/ UNCHANGED <<Durable, Session>>
<1>1. /\ pc = "write" /\ pc' # "closed" /\ Block \in Blocks /\ disk_index' = disk_index
      /\ req.ts \in 0..MaxTime
  BY AtBlock, WriteStep DEF WriteBlock, Continue, disk_vars, IInv, RequestInv, Requests
<1>2. PICK data \in Content :
        /\ \A b \in Blocks : Versions'[disk_index[b]] = Versions[disk_index[b]]
        /\ \A b \in Blocks \ {Block} : Versions'[index_table'[b]] = Versions[index_table[b]]
        /\ \/ Versions'[index_table'[Block]] = Versions[index_table[Block]]
           \/ Versions'[index_table'[Block]] = Append(Versions[index_table[Block]], [ts |-> req.ts, data |-> data])
  BY WriteChains
<1>3. UNCHANGED Durable
  BY <1>1, <1>2 DEF Durable
<1>4. /\ Session = [b \in Blocks |-> Versions[index_table[b]]]
      /\ Session' = [b \in Blocks |-> Versions'[index_table'[b]]]
  BY <1>1 DEF Session
<1>5. CASE Versions'[index_table'[Block]] = Versions[index_table[Block]]
  BY <1>2, <1>3, <1>4, <1>5
<1>6. CASE Versions'[index_table'[Block]] = Append(Versions[index_table[Block]], [ts |-> req.ts, data |-> data])
  <2> DEFINE v == [ts |-> req.ts, data |-> data]
  <2>1. v \in [ts : 0..MaxTime, data : Content]
    BY <1>1
  <2>2. Session' = [Session EXCEPT ![Block] = Append(@, v)]
    BY <1>1, <1>2, <1>4, <1>6
  <2> HIDE DEF v
  <2>3. PICK b \in Blocks : b = Block
    BY <1>1
  <2>4. History!AppendVersion(b)
    <3>1. /\ \E w \in [ts : 0..MaxTime, data : Content] : Session' = [Session EXCEPT ![b] = Append(@, w)]
          /\ UNCHANGED Durable
      BY <1>3, <2>1, <2>2, <2>3
    <3> QED  BY ONLY <3>1 DEF History!AppendVersion, Durable, Session
  <2> QED  BY <2>4
<1> QED  BY <1>2, <1>5, <1>6

LEMMA StepRefines ==
  IInv /\ IInv' /\ [Next]_vars => [History!Next]_<<Durable, Session>>
<1> SUFFICES ASSUME IInv, IInv', [Next]_vars PROVE History!Next \/ UNCHANGED <<Durable, Session>>
  OBVIOUS
<1>1. CASE Open
  BY <1>1, NothingHappens DEF Open, disk_vars
<1>2. CASE WriteBlock
  BY <1>2, WriteRefines DEF History!Next
<1>3. CASE Kill
  <2>1. /\ pc # "closed" /\ pc' = "closed" /\ disk_index' = disk_index
        /\ log' = [o \in {p \in DOMAIN log : p < disk_next} |-> log[o]]
    BY <1>3 DEF Kill, Closed, disk_vars
  <2>2. \A o \in {0} \cup (DOMAIN log \cap DOMAIN log') : Versions'[o] = Versions[o]
    BY <2>1, VersionsKept DEF IInv
  <2>3. \A b \in Blocks : Versions'[disk_index'[b]] = Versions[disk_index[b]]
    BY <2>1, <2>2, Entries
  <2>4. History!EndSession({})
    BY <2>1, <2>3, Ends
  <2> QED  BY <2>4 DEF History!Next
<1>4. ASSUME NEW done \in 0..NumBlocks, WriteIndex(done) PROVE History!Next
  <2> DEFINE saved == {b \in Blocks : b < done}
  <2>1. /\ pc = "index" /\ pc' = "closed" /\ log' = log
        /\ disk_index' = [b \in Blocks |-> IF b < done THEN index_table[b] ELSE disk_index[b]]
    BY <1>4 DEF WriteIndex, Closed
  <2>2. \A o \in {0} \cup DOMAIN log : Versions'[o] = Versions[o]
    BY <2>1, VersionsKept DEF IInv
  <2>3. \A b \in Blocks : Versions'[disk_index'[b]]
                           = IF b \in saved THEN Versions[index_table[b]] ELSE Versions[disk_index[b]]
    BY <2>1, <2>2, Entries
  <2>4. saved \in SUBSET Blocks
    OBVIOUS
  <2> HIDE DEF saved
  <2>5. History!EndSession(saved)
    BY <2>1, <2>3, <2>4, Ends
  <2> QED  BY <2>4, <2>5 DEF History!Next
<1>5. ASSUME UNCHANGED <<log, disk_index, index_table>>, pc' = "closed" <=> pc = "closed"
      PROVE  UNCHANGED <<Durable, Session>>
  BY <1>5, NothingHappens
<1>6. CASE \/ ReadBlock \/ Complete \/ BioFinalize \/ WriteHeader \/ Tick \/ UNCHANGED vars
           \/ \E sec \in 0..(NumSectors - 1), secs \in 1..MaxSecs :
                \/ QueueRead(sec, secs)
                \/ \E data \in [0..(secs - 1) -> Sectors] : QueueWrite(sec, secs, data)
  BY <1>5, <1>6 DEF ReadBlock, Complete, BioFinalize, WriteHeader, Tick, QueueRead, QueueWrite, Continue,
    vars, disk_vars, bio_vars
<1> QED  BY <1>1, <1>2, <1>3, <1>4, <1>6, Sizes DEF Next, Serve, Finalize, CloseIndex, KillInIndex

\* Through its chains the preservation disk is a VersionHistory: a write adds
\* one version to one block, and closing or dying keeps of each block either
\* the history on disk or the session's.
THEOREM Implements == Spec => ImplementsHistory
<1>1. IInv /\ IInv' /\ [Next]_vars => [History!Next]_(History!history_vars)
  BY StepRefines DEF History!history_vars, Durable, Session
<1> QED  BY <1>1, InitRefines, InvariantHolds, PTL DEF Spec, ImplementsHistory, History!Spec

-----------------------------------------------------------------------------
(* The disk as a client of the record log *)

LEMMA RoundedToSectors ==
  ASSUME NEW n \in Nat
  PROVE  RoundUp(n, SectorCells) \in n..(n + SectorCells - 1) /\ RoundUp(n, SectorCells) % SectorCells = 0
<1> DEFINE m == n + SectorCells - 1
           q == m \div SectorCells
<1>1. m \in Nat /\ RoundUp(n, SectorCells) = m - (m % SectorCells)
  BY Sizes DEF RoundUp, RoundDown
<1>2. q \in Nat /\ m % SectorCells \in 0..(SectorCells - 1) /\ m = SectorCells * q + (m % SectorCells)
  BY <1>1, Sizes, DivMod
<1> HIDE DEF q
<1>3. SectorCells * q \in Nat /\ (SectorCells * q) % SectorCells = 0
  BY <1>2, Sizes
<1>4. RoundUp(n, SectorCells) = SectorCells * q
  BY <1>1, <1>2, <1>3
<1>5. RoundUp(n, SectorCells) <= m
  BY <1>1, <1>2, Sizes
<1> QED  BY <1>3, <1>4, <1>5, Rounded

\* A read buffer is what it was or shows the log from some sector on.
Refilled(r) ==
  \/ r = rb
  \/ \E at \in 0..(next_offset - 1) :
       r = [enable |-> TRUE, pos |-> RoundDown(at, SectorCells), limit |-> next_offset]

LEMMA FetchRefills ==
  ASSUME IInv, NEW r, Refilled(r), NEW pos \in Nat, NEW n
  PROVE  Refilled(Fetched(r, pos, n))
<1>1. CASE pos >= next_offset \/ Hit(r, pos, n)
  BY <1>1 DEF Fetched
<1>2. CASE ~(pos >= next_offset \/ Hit(r, pos, n))
  <2>1. next_offset \in Nat
    BY DEF IInv, LogSound, TypeOK
  <2>2. pos \in 0..(next_offset - 1)
    BY <1>2, <2>1
  <2>3. Fetched(r, pos, n) = [enable |-> TRUE, pos |-> RoundDown(pos, SectorCells), limit |-> next_offset]
    BY <1>2 DEF Fetched
  <2> QED  BY <2>2, <2>3 DEF Refilled
<1> QED  BY <1>1, <1>2

LEMMA LatestBlockRefills ==
  ASSUME IInv, NEW b \in Blocks, NEW r \in ReadLatestBlock(b), rb' = r.rb
  PROVE  Log!MayRefill
<1> DEFINE offset == index_table[b]
           r1     == Fetched(rb, offset, HeaderCells)
           data   == log[offset].data
           size   == ActualSize(data)
           r2     == Fetched(r1, offset + HeaderCells, size)
<1>1. offset \in Nat /\ offset + HeaderCells \in Nat
  BY Sizes DEF IInv, LogSound, TypeOK
<1>2. Refilled(rb)
  BY DEF Refilled
<1>3. Refilled(r1)
  BY <1>1, <1>2, FetchRefills
<1> HIDE DEF r1
<1>4. \A n : Refilled(Fetched(r1, offset + HeaderCells, n))
  BY <1>1, <1>3, FetchRefills
<1>5. \/ r = [rb |-> rb, data |-> ZeroBlock, stale |-> FALSE]
      \/ r \in [rb : {r1} \cup {Fetched(r1, offset + HeaderCells, n) : n \in 1..BlockCells},
                data : Content, stale : {TRUE}]
      \/ r \in [rb : {r2}, data : Content, stale : {TRUE}]
      \/ r = [rb |-> r1, data |-> data, stale |-> FALSE]
      \/ r = [rb |-> r2, data |-> data, stale |-> FALSE]
  BY DEF ReadLatestBlock, r1
<1>6. r.rb = rb \/ r.rb = r1 \/ \E n : r.rb = Fetched(r1, offset + HeaderCells, n)
  <2> DEFINE rs == {r1} \cup {Fetched(r1, offset + HeaderCells, n) : n \in 1..BlockCells}
  <2>1. ASSUME NEW bufs, r \in [rb : bufs, data : Content, stale : {TRUE}] PROVE r.rb \in bufs
    BY <2>1
  <2>2. ASSUME NEW x, NEW d, r = [rb |-> x, data |-> d, stale |-> FALSE] PROVE r.rb = x
    BY <2>2
  <2> HIDE DEF rs, r2
  <2>3. r.rb = rb \/ r.rb \in rs \/ r.rb \in {r2} \/ r.rb = r1 \/ r.rb = r2
    BY <1>5, <2>1, <2>2 DEF rs
  <2> QED  BY <2>3 DEF rs, r2
<1>7. Refilled(rb')
  BY <1>2, <1>3, <1>4, <1>6
<1>8. CASE rb' = rb
  BY <1>8 DEF Log!MayRefill
<1>9. CASE rb' # rb
  <2>1. PICK at \in 0..(next_offset - 1) :
          rb' = [enable |-> TRUE, pos |-> RoundDown(at, SectorCells), limit |-> next_offset]
    BY <1>7, <1>9 DEF Refilled
  <2>2. rb' = [enable |-> TRUE, pos |-> Log!RoundDown(at, SectorCells), limit |-> next_offset]
    BY <2>1 DEF RoundDown, Log!RoundDown
  <2> QED  BY <2>2 DEF Log!MayRefill
<1> QED  BY <1>8, <1>9

LEMMA FlushFlushes ==
  ASSUME IInv, \/ next_offset' = next_offset + RoundUp(buffer_pos, SectorCells)
               \/ buffer_pos = 0 /\ next_offset' = next_offset
  PROVE  Log!Flushed
<1>1. buffer_pos \in Nat /\ next_offset \in Nat
  BY Sizes DEF IInv, LogSound, TypeOK
<1>2. CASE next_offset' = next_offset + RoundUp(buffer_pos, SectorCells)
  BY <1>1, <1>2, RoundedToSectors DEF Log!Flushed
<1>3. CASE buffer_pos = 0 /\ next_offset' = next_offset
  <2>1. 0 \in buffer_pos..(buffer_pos + SectorCells - 1) /\ 0 % SectorCells = 0 /\ next_offset' = next_offset + 0
    BY <1>1, <1>3, Sizes
  <2> QED  BY <2>1 DEF Log!Flushed
<1> QED  BY <1>2, <1>3

LEMMA AppendAppends ==
  ASSUME IInv, NEW b \in Blocks, NEW rec \in Record, BioWrite(b, rec),
         pc # "closed", pc' # "closed", disk_next' = disk_next, Log!MayRefill
  PROVE  Log!Append
<1> DEFINE at   == index_table'[b]
           size == RecordCells(rec.data)
           r    == [pos |-> at, size |-> size, id |-> rec]
<1>1. /\ DOMAIN log' = DOMAIN log \cup {at}
      /\ log'[at] = rec /\ at \notin DOMAIN log /\ \A o \in DOMAIN log : log'[o] = log[o]
      /\ at \in Nat /\ End' = at + size
      /\ next_offset' \in Nat /\ buffer_pos' \in 0..BufferCells
  BY AppendedAt
<1>2. size \in Nat /\ size \in 1..BufferCells
  BY RecordSizes, Sizes DEF Record
<1>3. buffer_pos \in Nat /\ next_offset \in Nat /\ BufferCells \in Nat
  BY Sizes DEF IInv, LogSound, TypeOK
<1>4. \/ buffer_pos + size <= BufferCells /\ next_offset' = next_offset /\ buffer_pos' = buffer_pos + size
      \/ buffer_pos + size > BufferCells /\ Log!Flushed /\ buffer_pos' = size
  <2>1. CASE Full(size)
    <3>1. next_offset' = next_offset + RoundUp(buffer_pos, SectorCells) /\ buffer_pos' = 0 + size
      BY <2>1 DEF BioWrite
    <3>2. buffer_pos' = size /\ buffer_pos + size > BufferCells
      BY <1>2, <2>1, <3>1 DEF Full
    <3> QED  BY <3>1, <3>2, FlushFlushes
  <2>2. CASE ~Full(size)
    <3>1. next_offset' = next_offset /\ buffer_pos' = buffer_pos + size
      BY <2>2 DEF BioWrite
    <3>2. buffer_pos + size <= BufferCells
      BY <1>2, <1>3, <2>2 DEF Full
    <3> QED  BY <3>1, <3>2
  <2> QED  BY <2>1, <2>2
<1> HIDE DEF at, size
<1>5. LogRecords' = LogRecords \cup {r} /\ r \in LogRecords'
  <2>1. \A o \in DOMAIN log : LogRecord(o)' = LogRecord(o)
    BY <1>1 DEF LogRecord
  <2>2. [pos |-> at, size |-> RecordCells(log'[at].data), id |-> log'[at]] = r
    BY <1>1 DEF size
  <2>3. LogRecords' = {[pos |-> o, size |-> RecordCells(log'[o].data), id |-> log'[o]] : o \in DOMAIN log \cup {at}}
    BY <1>1 DEF LogRecords, LogRecord
  <2>4. LogRecords = {[pos |-> o, size |-> RecordCells(log'[o].data), id |-> log'[o]] : o \in DOMAIN log}
    BY <1>1 DEF LogRecords, LogRecord
  <2> QED  BY <2>2, <2>3, <2>4
<1>6. r.size = size /\ r.pos = next_offset' + buffer_pos' - r.size
  <2>1. next_offset' + buffer_pos' = at + size
    BY <1>1 DEF End
  <2>2. at \in Nat /\ size \in Nat /\ next_offset' \in Nat /\ buffer_pos' \in Nat
    BY <1>1, <1>2, <1>3
  <2>3. PICK x, y, z, n \in Nat : x = next_offset' /\ y = buffer_pos' /\ z = at /\ n = size
    BY <2>2
  <2>4. x + y = z + n
    BY <2>1, <2>3
  <2>5. z = x + y - n
    BY <2>4
  <2> QED  BY <2>3, <2>5
<1>7. \/ buffer_pos + r.size <= BufferCells /\ next_offset' = next_offset /\ buffer_pos' = buffer_pos + r.size
      \/ buffer_pos + r.size > BufferCells /\ Log!Flushed /\ buffer_pos' = r.size
  BY <1>4, <1>6
<1>8. r.size \in 1..BufferCells
  BY <1>2, <1>6
<1>9. (pc # "closed") /\ disk_next' = disk_next /\ (pc # "closed")' = (pc # "closed")
  OBVIOUS
<1> HIDE DEF r
<1> QED  BY <1>5, <1>6, <1>7, <1>8, <1>9 DEF Log!Append

LEMMA DyingForgets ==
  ASSUME IInv, Kill
  PROVE  LogRecords' = {r \in LogRecords : r.pos + r.size <= disk_next}
<1>1. /\ DOMAIN log' = {p \in DOMAIN log : p < disk_next}
      /\ \A o \in DOMAIN log' : log'[o] = log[o]
  BY DEF Kill
<1>2. ASSUME NEW o \in DOMAIN log
      PROVE  o < disk_next <=> LogRecord(o).pos + LogRecord(o).size <= disk_next
  <2>1. o \in Nat /\ disk_next \in Nat /\ log[o].data \in Content
    BY DEF IInv, LogSound, TypeOK, Record
  <2>2. RecordCells(log[o].data) \in Nat /\ 1 <= RecordCells(log[o].data)
    BY <2>1, RecordSizes
  <2>3. o < disk_next => o + RecordCells(log[o].data) <= disk_next
    BY DEF IInv, DiskInv
  <2>4. LogRecord(o).pos = o /\ LogRecord(o).size = RecordCells(log[o].data)
    BY DEF LogRecord
  <2> QED  BY <2>1, <2>2, <2>3, <2>4
<1>3. LogRecords' = {LogRecord(o) : o \in DOMAIN log'}
  BY <1>1 DEF LogRecords, LogRecord
<1> QED  BY <1>1, <1>2, <1>3 DEF LogRecords

LEMMA BlockRefinesLog ==
  ASSUME IInv, ReadBlock \/ WriteBlock
  PROVE  Log!Read \/ Log!Append
<1>1. pc \in {"read", "write"} /\ pc # "closed" /\ pc' # "closed" /\ disk_next' = disk_next /\ Block \in Blocks
  BY AtBlock DEF ReadBlock, WriteBlock, Continue, disk_vars
<1>2. CASE UNCHANGED bio_vars
  <2>1. PICK r \in ReadLatestBlock(Block) : rb' = r.rb
    <3>1. CASE ReadBlock
      BY <3>1 DEF ReadBlock, Block
    <3>2. CASE WriteBlock
      BY <3>2, WriteStep
    <3> QED  BY <3>1, <3>2
  <2>2. Log!MayRefill
    BY <1>1, <2>1, LatestBlockRefills
  <2>3. /\ next_offset' = next_offset /\ buffer_pos' = buffer_pos /\ LogRecords' = LogRecords
    BY <1>2 DEF bio_vars, LogRecords, LogRecord
  <2>4. (pc # "closed") /\ (pc # "closed")' = (pc # "closed")
    BY <1>1
  <2> QED  BY <1>1, <2>2, <2>3, <2>4 DEF Log!Read
<1>3. CASE ~UNCHANGED bio_vars
  <2>1. WriteBlock /\ pc = "write"
    BY <1>3 DEF ReadBlock, WriteBlock
  <2>2. PICK r \in ReadLatestBlock(Block) :
          LET data == Updated(r.data, FirstOf, Covered, DataFrom) IN
          /\ rb' = r.rb
          /\ BioWrite(Block, NewRecord(Block, data))
    BY <1>3, <2>1, WriteStep
  <2> DEFINE data == Updated(r.data, FirstOf, Covered, DataFrom)
  <2>3. Log!MayRefill
    BY <1>1, <2>2, LatestBlockRefills
  <2>4. r.data \in Content
    BY <1>1, LatestBlock
  <2>5. data \in Content
    BY <2>1, <2>4, WriteProgress
  <2> HIDE DEF data
  <2>6. NewRecord(Block, data) \in Record
    BY <2>1, <2>5, NewRecordTyped
  <2>7. BioWrite(Block, NewRecord(Block, data))
    BY <2>2 DEF data
  <2> QED  BY <1>1, <2>3, <2>6, <2>7, AppendAppends
<1> QED  BY <1>2, <1>3

LEMMA EndingRefinesLog ==
  ASSUME IInv, BioFinalize \/ WriteHeader \/ (\E done \in 0..NumBlocks : WriteIndex(done))
  PROVE  Log!Finish
<1>1. pc # "closed" /\ buffer_pos' = 0 /\ LogRecords' = LogRecords
  BY DEF BioFinalize, WriteHeader, WriteIndex, Closed, bio_vars, LogRecords, LogRecord, IInv, DiskInv
<1>2. Log!Flushed
  BY FlushFlushes DEF BioFinalize, WriteHeader, WriteIndex, bio_vars, IInv, DiskInv
<1>3. \/ disk_next' = disk_next /\ (pc # "closed")' = (pc # "closed")
      \/ disk_next' = next_offset' /\ (pc # "closed")' \in BOOLEAN
  BY DEF BioFinalize, WriteHeader, WriteIndex, Closed, bio_vars, disk_vars, IInv, DiskInv
<1>4. rb' = IF (pc # "closed")' THEN rb ELSE EmptyReadBuffer
  BY DEF BioFinalize, WriteHeader, WriteIndex, Closed
<1> QED  BY <1>1, <1>2, <1>3, <1>4 DEF Log!Finish, Log!NoWindow, EmptyReadBuffer

LEMMA NextRefinesLog == IInv /\ [Next]_vars => [Log!Next]_(Log!log_vars)
<1> SUFFICES ASSUME IInv, [Next]_vars PROVE [Log!Next]_(Log!log_vars)
  OBVIOUS
<1>1. ASSUME UNCHANGED <<disk_next, next_offset, buffer_pos, log, rb>>, (pc # "closed")' = (pc # "closed")
      PROVE  UNCHANGED Log!log_vars
  BY <1>1 DEF Log!log_vars, LogRecords, LogRecord
<1>2. CASE UNCHANGED vars
  BY <1>1, <1>2 DEF vars, disk_vars, bio_vars
<1>3. CASE \/ \E sec \in 0..(NumSectors - 1), secs \in 1..MaxSecs :
                \/ QueueRead(sec, secs)
                \/ \E data \in [0..(secs - 1) -> Sectors] : QueueWrite(sec, secs, data)
           \/ Complete
           \/ Tick
  <2>1. UNCHANGED <<disk_vars, bio_vars, rb>> /\ (pc # "closed")' = (pc # "closed")
    BY <1>3 DEF QueueRead, QueueWrite, Complete, Tick
  <2> QED  BY <1>1, <2>1 DEF disk_vars, bio_vars
<1>4. CASE Open
  <2>1. (pc # "closed") = FALSE /\ (pc # "closed")' = TRUE
    BY <1>4 DEF Open
  <2>2. next_offset' = disk_next /\ buffer_pos' = 0 /\ rb' = EmptyReadBuffer
        /\ disk_next' = disk_next /\ LogRecords' = LogRecords
    BY <1>4 DEF Open, LogEnd, disk_vars, LogRecords, LogRecord
  <2> QED  BY <2>1, <2>2 DEF Log!Open, Log!Next, Log!NoWindow, EmptyReadBuffer
<1>5. CASE ReadBlock \/ WriteBlock
  BY <1>5, BlockRefinesLog DEF Log!Next
<1>6. CASE BioFinalize \/ WriteHeader \/ (\E done \in 0..NumBlocks : WriteIndex(done))
  BY <1>6, EndingRefinesLog DEF Log!Next
<1>7. CASE Kill
  <2>1. (pc # "closed") = TRUE /\ (pc # "closed")' = FALSE
    BY <1>7 DEF Kill, Closed
  <2>2. next_offset' = disk_next /\ buffer_pos' = 0 /\ rb' = EmptyReadBuffer /\ disk_next' = disk_next
    BY <1>7 DEF Kill, Closed, disk_vars
  <2>3. LogRecords' = {r \in LogRecords : r.pos + r.size <= disk_next}
    BY <1>7, DyingForgets
  <2> QED  BY <2>1, <2>2, <2>3 DEF Log!Kill, Log!Next, Log!NoWindow, EmptyReadBuffer
<1>8. CASE Next
  <2>1. Finalize \/ KillInIndex => WriteHeader \/ (\E done \in 0..NumBlocks : WriteIndex(done))
    BY Sizes DEF Finalize, CloseIndex, KillInIndex
  <2> QED  BY <1>3, <1>4, <1>5, <1>6, <1>7, <1>8, <2>1 DEF Next, Serve
<1> QED  BY <1>2, <1>8

\* Of the layer below, the disk needs no more than a log of records, which BufferedIO proves
\* utils.c to be: all that pd_read, pd_write, pd_finalize and a dying process do to the log is
\* what RecordLog allows (preservation.c:152-180, 310-381, 445-519).
THEOREM PreservationImplementsLog == Spec => ImplementsLog
<1>1. Init => Log!Init
  <2>1. ASSUME Init PROVE (pc # "closed") = FALSE /\ LogRecords = {}
    BY <2>1 DEF Init, LogRecords
  <2> QED  BY <2>1 DEF Init, Log!Init, Log!NoWindow, EmptyReadBuffer
<1> QED  BY <1>1, NextRefinesLog, InvariantHolds, PTL DEF Spec, ImplementsLog, Log!Spec

-----------------------------------------------------------------------------
(* What the guest reads *)

\* The blocks read so far are what was written to them.
ReadInv ==
  pc \in {"read", "done"} /\ req.op = "read" /\ ~req.stale =>
    \A k \in 0..(Len(req.buf) - 1) :
      CurrentOk(hist, First + k) => req.buf[k + 1] = Current(hist, First + k)

LEMMA ReadBlockReads == ASSUME IInv, HistInv, ReadInv, ReadBlock PROVE ReadInv'
<1>1. PICK r \in ReadLatestBlock(Block) :
        req' = [req EXCEPT !.buf = Append(@, r.data), !.sector = NextSector(Block), !.stale = @ \/ r.stale]
  BY DEF ReadBlock, Block
<1>2. pc = "read" /\ hist' = hist /\ Block \in Blocks
  BY AtBlock DEF ReadBlock
<1> DEFINE n == Len(req.buf)
<1>3. /\ req.buf \in Seq(Content) /\ n \in 0..1 /\ First \in Nat /\ Block = First + n
      /\ req \in Requests /\ req.op = "read"
  BY <1>2, ReadProgress DEF IInv, RequestInv
<1>4. /\ r.data \in Content /\ r.stale \in BOOLEAN /\ (~r.stale => r.data = Newest(Block))
      /\ CurrentOk(hist, Block) => Newest(Block) = Current(hist, Block)
  BY <1>2, LatestBlock, NewestIsCurrent
<1>5. /\ req'.buf = Append(req.buf, r.data) /\ req'.sec = req.sec
      /\ ~req'.stale => ~req.stale /\ ~r.stale
  BY <1>1, <1>3 DEF Requests
<1>6. First' = First
  BY <1>5 DEF First
<1>7. Len(req'.buf) = n + 1 /\ req'.buf[n + 1] = r.data /\ \A k \in 0..(n - 1) : req'.buf[k + 1] = req.buf[k + 1]
  BY <1>3, <1>4, <1>5
<1>8. ASSUME ~req'.stale, NEW k \in 0..(Len(req'.buf) - 1), CurrentOk(hist, First + k)
      PROVE  req'.buf[k + 1] = Current(hist, First + k)
  <2>1. ~req.stale /\ ~r.stale
    BY <1>5, <1>8
  <2>2. CASE k = n
    BY <1>3, <1>4, <1>7, <1>8, <2>1, <2>2
  <2>3. CASE k # n
    <3>1. k \in 0..(n - 1)
      BY <1>3, <1>7, <2>3
    <3> QED  BY <1>2, <1>3, <1>7, <1>8, <2>1, <3>1 DEF ReadInv
  <2> QED  BY <2>2, <2>3
<1> QED  BY <1>2, <1>6, <1>8 DEF ReadInv

LEMMA NextReads == IInv /\ HistInv /\ ReadInv /\ [Next]_vars => ReadInv'
<1> SUFFICES ASSUME IInv, HistInv, ReadInv, [Next]_vars PROVE ReadInv'
  OBVIOUS
<1>1. CASE ReadBlock
  BY <1>1, ReadBlockReads
<1>2. CASE WriteBlock
  <2>1. req.op = "write" /\ req \in Requests
    BY <1>2 DEF WriteBlock, IInv, RequestInv
  <2>2. req'.op = "write"
    BY <1>2, <2>1, WriteStep DEF Requests
  <2> QED  BY <2>2 DEF ReadInv
<1>3. ASSUME NEW sec \in 0..(NumSectors - 1), NEW secs \in 1..MaxSecs, QueueRead(sec, secs)
      PROVE  ReadInv'
  <2>1. req'.buf = <<>>
    BY <1>3 DEF QueueRead, NoRequest
  <2> QED  BY <2>1 DEF ReadInv
<1>4. ASSUME NEW sec \in 0..(NumSectors - 1), NEW secs \in 1..MaxSecs,
             NEW data \in [0..(secs - 1) -> Sectors], QueueWrite(sec, secs, data)
      PROVE  ReadInv'
  BY <1>4 DEF QueueWrite, ReadInv
<1>5. CASE Tick \/ UNCHANGED vars
  <2>1. pc' = pc /\ req' = req /\ hist' = hist
    BY <1>5 DEF Tick, vars
  <2> QED  BY <2>1 DEF ReadInv, First
<1>6. CASE pc' \notin {"read", "done"}
  BY <1>6 DEF ReadInv
<1> QED
  BY <1>1, <1>2, <1>3, <1>4, <1>5, <1>6 DEF Next, Serve, Finalize, CloseIndex, KillInIndex, Open, Complete,
    BioFinalize, WriteHeader, WriteIndex, Kill, Closed

\* Where the i-th sector of a request lies in the blocks that were read.
LEMMA SectorInBuffer ==
  ASSUME IInv, pc = "done", req.op = "read", NEW i \in 0..(req.secs - 1)
  PROVE  LET s == (req.sec % SectorsPerBlock) + i IN
         /\ s \div SectorsPerBlock \in 0..(Len(req.buf) - 1)
         /\ (req.sec + i) \div SectorsPerBlock = First + (s \div SectorsPerBlock)
         /\ (req.sec + i) % SectorsPerBlock = s % SectorsPerBlock
<1> DEFINE m == req.sec % SectorsPerBlock
           s == m + i
           q == s \div SectorsPerBlock
           t == s % SectorsPerBlock
           n == Len(req.buf)
           K == SectorsPerBlock
<1>1. /\ Reading /\ req.buf \in Seq(Content) /\ req.secs \in 1..MaxSecs /\ req.sec \in Nat
      /\ req.sector >= req.sec + req.secs
  BY DEF IInv, RequestInv, Requests
<1>2. req.sector = K * (First + n) /\ n \in Nat
  BY <1>1 DEF Reading
<1>3. K \in Nat \ {0} /\ m \in 0..(K - 1) /\ First \in Nat /\ req.sec = K * First + m
  BY <1>1, Sizes, DivMod DEF First
<1>4. i \in Nat /\ i < req.secs /\ req.secs \in Nat
  BY <1>1, Sizes
<1>5. q \in Nat /\ t \in 0..(K - 1) /\ s = K * q + t
  <2> HIDE DEF s, K
  <2>1. s \in Nat
    BY <1>3, <1>4 DEF s
  <2> QED  BY <1>3, <2>1, DivMod DEF q, t, K
<1> HIDE DEF m, q, t, n, K
<1>6. K * (First + n) = K * First + K * n /\ K * (First + q) = K * First + K * q
  BY <1>2, <1>3, <1>5
<1>7. K * q < K * n
  BY <1>1, <1>2, <1>3, <1>4, <1>5, <1>6, Times
<1>8. q < n
  BY <1>2, <1>3, <1>5, <1>7, Times
<1>9. req.sec + i = K * (First + q) + t
  BY <1>1, <1>3, <1>4, <1>5, <1>6, Times
<1>10. (req.sec + i) \div K = First + q /\ (req.sec + i) % K = t
  <2>1. First + q \in Nat /\ t \in Nat /\ t < K /\ K \in Nat \ {0}
    BY <1>3, <1>5
  <2>2. /\ (K * (First + q) + t) \div K = First + q
        /\ (K * (First + q) + t) % K = t
    BY <2>1, DivUnique
  <2> QED  BY <1>9, <2>2
<1> QED  BY <1>2, <1>5, <1>8, <1>10 DEF m, q, t, n, K

LEMMA ReadDone == IInv /\ ReadInv => ReadReturnsWritten
<1> SUFFICES ASSUME IInv, ReadInv, pc = "done", req.op = "read", ~req.stale, NEW i \in 0..(req.secs - 1)
             PROVE  ReadRight(i)
  BY DEF ReadReturnsWritten
<1> DEFINE s == (req.sec % SectorsPerBlock) + i
           q == s \div SectorsPerBlock
<1>1. /\ q \in 0..(Len(req.buf) - 1)
      /\ (req.sec + i) \div SectorsPerBlock = First + q
      /\ (req.sec + i) % SectorsPerBlock = s % SectorsPerBlock
  BY SectorInBuffer
<1>2. req.buf \in Seq(Content)
  BY DEF IInv, RequestInv, Requests
<1>3. SectorRead(i) = req.buf[q + 1][s % SectorsPerBlock]
  BY <1>1, <1>2 DEF SectorRead
<1>4. CurrentOk(hist, First + q) => req.buf[q + 1] = Current(hist, First + q)
  BY <1>1 DEF ReadInv
<1> QED  BY <1>1, <1>3, <1>4 DEF ReadRight

\* A read that met no stale hit returns what was last written, wherever that
\* is and however the request lies across blocks.
THEOREM ReadsReturnWritten == Spec => []ReadReturnsWritten
<1>1. Init => HistInv /\ ReadInv
  BY InitHistory DEF Init, ReadInv
<1> QED  BY <1>1, NextHistory, NextReads, ReadDone, InvariantHolds, PTL DEF Spec

-----------------------------------------------------------------------------
(* Time travel: walking back to a time *)

WalkStep(f, l, t, o) == IF o = 0 \/ l[o].ts < t THEN o ELSE f[l[o].next]
IsWalk(f, l, t) == f = [o \in {0} \cup DOMAIN l |-> WalkStep(f, l, t, o)]

\* Walking a log whose records point back ends.
LEMMA WalksExist ==
  ASSUME NEW l, NEW t, PointsBack(l), NEW end \in Nat, \A o \in DOMAIN l : o < end
  PROVE  \E f : IsWalk(f, l, t)
<1> DEFINE D      == {0} \cup DOMAIN l
           From(n) == {o \in D : o <= n}
           Good(f, n) == f = [o \in From(n) |-> WalkStep(f, l, t, o)]
           S      == {n \in Nat : \E f : Good(f, n)}
<1>1. D \subseteq Nat /\ \A o \in D \ {0} : l[o].next \in D /\ l[o].next < o
  BY DEF PointsBack
<1>2. ASSUME NEW n \in Nat, \A m \in 0..(n - 1) : m \in S PROVE n \in S
  <2>1. CASE n = 0
    <3> DEFINE f == [o \in {0} |-> 0]
    <3>1. From(0) = {0}
      BY <1>1
    <3>2. Good(f, 0)
      BY <3>1 DEF WalkStep
    <3> HIDE DEF Good
    <3> QED  BY <2>1, <3>2
  <2>2. CASE n # 0
    <3>1. n - 1 \in 0..(n - 1) /\ n - 1 \in Nat
      BY <2>2
    <3>2. PICK g : Good(g, n - 1)
      BY <1>2, <3>1
    <3> DEFINE f == [o \in From(n) |-> WalkStep(g, l, t, o)]
    <3>3. ASSUME NEW o \in From(n) PROVE WalkStep(g, l, t, o) = WalkStep(f, l, t, o)
      <4>1. CASE o = 0
        BY <4>1 DEF WalkStep
      <4>2. CASE o # 0
        <5> DEFINE p == l[o].next
        <5>1. p \in D /\ p < o /\ p \in Nat /\ o \in Nat /\ o <= n
          BY <1>1, <4>2
        <5>2. p \in From(n - 1) /\ p \in From(n)
          BY <5>1
        <5>3. g[p] = WalkStep(g, l, t, p) /\ f[p] = WalkStep(g, l, t, p)
          BY <3>2, <5>2
        <5> QED  BY <4>2, <5>3 DEF WalkStep
      <4> QED  BY <4>1, <4>2
    <3>4. Good(f, n)
      BY <3>3
    <3> HIDE DEF Good, f
    <3> QED  BY <3>4
  <2> QED  BY <2>1, <2>2
<1>3. end \in S
  <2> HIDE DEF S
  <2> QED  BY <1>2, InductionOnNat
<1>4. PICK f : Good(f, end)
  BY <1>3
<1>5. From(end) = D
  BY <1>1
<1> QED  BY <1>4, <1>5 DEF IsWalk

\* Two logs that agree below an end agree on the walks from there.
LEMMA WalksAgree ==
  ASSUME NEW l, NEW k, NEW f, NEW g, NEW t, PointsBack(l), PointsBack(k),
         IsWalk(f, l, t), IsWalk(g, k, t),
         NEW end \in Nat, \A o \in DOMAIN l : o < end => o \in DOMAIN k /\ l[o] = k[o]
  PROVE  \A o \in {0} \cup DOMAIN l : o = 0 \/ o < end => f[o] = g[o]
<1> DEFINE C == {0} \cup {o \in DOMAIN l : o < end}
           S == {n \in Nat : n \in C => f[n] = g[n]}
<1>1. ASSUME NEW n \in Nat, \A m \in 0..(n - 1) : m \in S, n \in C PROVE f[n] = g[n]
  <2>1. f[n] = WalkStep(f, l, t, n) /\ g[n] = WalkStep(g, k, t, n)
    BY <1>1 DEF IsWalk
  <2>2. CASE n = 0
    BY <2>1, <2>2 DEF WalkStep
  <2>3. CASE n # 0
    <3> DEFINE p == l[n].next
    <3>1. l[n] = k[n] /\ p \in C /\ p < n /\ p \in Nat
      BY <1>1, <2>3 DEF PointsBack
    <3>2. p \in 0..(n - 1)
      BY <3>1
    <3>3. f[p] = g[p]
      BY <1>1, <3>1, <3>2
    <3> QED  BY <2>1, <2>3, <3>1, <3>3 DEF WalkStep
  <2> QED  BY <2>2, <2>3
<1>2. Nat \subseteq S
  <2>1. \A n \in Nat : (\A m \in 0..(n - 1) : m \in S) => n \in S
    BY <1>1
  <2> HIDE DEF S
  <2> QED  BY <2>1, InductionOnNat
<1>3. C \subseteq Nat
  BY DEF PointsBack
<1> QED  BY <1>2, <1>3

LEMMA WalkIsWalk == LogSound => PointsBack(log) /\ IsWalk(Walk, log, tt_ts)
<1> SUFFICES ASSUME LogSound PROVE PointsBack(log) /\ IsWalk(Walk, log, tt_ts)
  OBVIOUS
<1>1. \E f : IsWalk(f, log, tt_ts)
  BY LogPointsBack, WalksExist
<1> QED  BY <1>1, LogPointsBack DEF Walk, IsWalk, WalkStep, Older

\* A walk that starts below what the header covers is not disturbed.
LEMMA WalkKept ==
  ASSUME LogSound, LogSound', Kept, tt_ts' = tt_ts
  PROVE  \A o \in {0} \cup DOMAIN log : o = 0 \/ o < disk_next => Walk'[o] = Walk[o]
<1>1. PointsBack(log) /\ IsWalk(Walk, log, tt_ts)
  BY WalkIsWalk
<1>2. (LogSound => PointsBack(log) /\ IsWalk(Walk, log, tt_ts))'
  BY WalkIsWalk, PTL
<1>3. PointsBack(log') /\ IsWalk(Walk', log', tt_ts)
  BY <1>2
<1>4. disk_next \in Nat
  BY DEF LogSound, TypeOK
<1> QED  BY <1>1, <1>3, <1>4, WalksAgree DEF Kept

\* A walk ends at the newest version on the chain that is older than the time.
Earlier(vs) == {i \in DOMAIN vs : vs[i].ts < tt_ts}
EndsWell(o) ==
  LET vs == Versions[o]
      w  == Walk[o]
  IN  /\ w \in {0} \cup DOMAIN log /\ w <= o
      /\ w = 0 => Earlier(vs) = {}
      /\ w # 0 => \E i \in Earlier(vs) : /\ \A j \in Earlier(vs) : j <= i
                                         /\ vs[i].data = log[w].data

LEMMA WalkFinds ==
  ASSUME LogSound, tt_ts \in Nat PROVE \A o \in {0} \cup DOMAIN log : EndsWell(o)
<1> DEFINE C == {0} \cup DOMAIN log
           S == {n \in Nat : n \in C => EndsWell(n)}
<1>1. ASSUME NEW n \in Nat, \A m \in 0..(n - 1) : m \in S, n \in C PROVE EndsWell(n)
  <2>1. Walk[n] = WalkStep(Walk, log, tt_ts, n)
    BY <1>1, WalkIsWalk DEF IsWalk
  <2>2. CASE n = 0
    <3>1. Walk[n] = 0 /\ Versions[n] = <<>>
      BY <2>1, <2>2, VersionsUnfold DEF WalkStep
    <3> QED  BY <2>2, <3>1 DEF EndsWell, Earlier
  <2>3. CASE n # 0
    <3> DEFINE p  == log[n].next
               vs == Versions[p]
               v  == VersionOf(log[n])
    <3>1. p \in C /\ p < n /\ p \in Nat /\ n \in DOMAIN log
      BY <1>1, <2>3, LogPointsBack DEF PointsBack
    <3>2. p \in 0..(n - 1)
      BY <3>1
    <3>3. EndsWell(p)
      BY <1>1, <3>1, <3>2
    <3>4. Versions[n] = Append(vs, v) /\ vs \in Seq(Version)
      BY <3>1, VersionsUnfold, VersionsTyped
    <3>5. v \in Version /\ v.ts = log[n].ts /\ v.data = log[n].data
      BY <3>1 DEF LogSound, TypeOK, Record, VersionOf, Version
    <3>6. /\ Len(vs) \in Nat /\ DOMAIN Versions[n] = 1..(Len(vs) + 1) /\ DOMAIN vs = 1..Len(vs)
          /\ Versions[n][Len(vs) + 1] = v /\ \A i \in 1..Len(vs) : Versions[n][i] = vs[i]
      <4> HIDE DEF vs, v
      <4> QED  BY <3>4, <3>5
    <3>7. CASE log[n].ts < tt_ts
      <4>1. Walk[n] = n
        BY <2>1, <3>7 DEF WalkStep
      <4>2. Len(vs) + 1 \in Earlier(Versions[n]) /\ \A j \in Earlier(Versions[n]) : j <= Len(vs) + 1
        BY <3>5, <3>6, <3>7 DEF Earlier
      <4> QED  BY <2>3, <3>1, <3>5, <3>6, <4>1, <4>2 DEF EndsWell
    <3>8. CASE ~(log[n].ts < tt_ts)
      <4>1. Walk[n] = Walk[p]
        BY <2>1, <2>3, <3>8 DEF WalkStep
      <4>2. Earlier(Versions[n]) = Earlier(vs)
        <5>1. ASSUME NEW i \in 1..(Len(vs) + 1)
              PROVE  Versions[n][i].ts < tt_ts <=> i \in 1..Len(vs) /\ vs[i].ts < tt_ts
          <6> HIDE DEF vs, v
          <6>1. CASE i = Len(vs) + 1
            BY <3>5, <3>6, <3>8, <6>1
          <6>2. CASE i \in 1..Len(vs)
            BY <3>6, <6>2
          <6> QED  BY <3>6, <6>1, <6>2
        <5>2. /\ Earlier(Versions[n]) = {i \in 1..(Len(vs) + 1) : Versions[n][i].ts < tt_ts}
              /\ Earlier(vs) = {i \in 1..Len(vs) : vs[i].ts < tt_ts}
          BY <3>6 DEF Earlier
        <5>3. 1..Len(vs) \subseteq 1..(Len(vs) + 1)
          BY <3>6
        <5> HIDE DEF vs, v
        <5> QED  BY <5>1, <5>2, <5>3
      <4>3. \A i \in Earlier(vs) : Versions[n][i] = vs[i]
        BY <3>6 DEF Earlier
      <4>4. Walk[n] \in C /\ Walk[n] <= n
        BY <3>1, <3>3, <4>1, LogPointsBack DEF EndsWell, PointsBack
      <4> QED  BY <3>3, <4>1, <4>2, <4>3, <4>4 DEF EndsWell
    <3> QED  BY <3>7, <3>8
  <2> QED  BY <2>2, <2>3
<1>2. Nat \subseteq S
  <2>1. \A n \in Nat : (\A m \in 0..(n - 1) : m \in S) => n \in S
    BY <1>1
  <2> HIDE DEF S
  <2> QED  BY <2>1, InductionOnNat
<1>3. C \subseteq Nat
  BY LogPointsBack DEF PointsBack
<1> QED  BY <1>2, <1>3

-----------------------------------------------------------------------------
(* What a device shows of a block *)

\* The entry that StateAt chooses.
LEMMA StateAtIs ==
  ASSUME NEW h \in Seq(Entry), NEW i \in Before(h, tt_ts), \A j \in Before(h, tt_ts) : j <= i
  PROVE  StateAt(h, tt_ts).ok = h[i].ok /\ StateAt(h, tt_ts).data = h[i].data
<1>1. \A j \in Before(h, tt_ts) : j \in Nat
  BY DEF Before
<1>2. i = CHOOSE k \in Before(h, tt_ts) : \A j \in Before(h, tt_ts) : j <= k
  <2> DEFINE c == CHOOSE k \in Before(h, tt_ts) : \A j \in Before(h, tt_ts) : j <= k
  <2>1. c \in Before(h, tt_ts) /\ \A j \in Before(h, tt_ts) : j <= c
    OBVIOUS
  <2> HIDE DEF c
  <2>2. c <= i /\ i <= c /\ c \in Nat /\ i \in Nat
    BY <1>1, <2>1
  <2>3. i = c
    BY <2>2
  <2> QED  BY <2>3 DEF c
<1>3. Before(h, tt_ts) # {}
  OBVIOUS
<1> QED  BY <1>2, <1>3 DEF StateAt

\* What read_current_block makes of the record its walk found.
Shown(found) == IF found = 0 THEN ZeroBlock ELSE log[found].data

\* The newest version on a chain that is older than the time is the state of
\* the block then, if the chain is its history.
LEMMA WalkRight ==
  ASSUME IInv, tt_ts \in Nat, NEW o \in {0} \cup DOMAIN log, NEW h \in Seq(Entry),
         Match(Versions[o], Recorded(h)), StateAt(h, tt_ts).ok
  PROVE  Shown(Walk[o]) = StateAt(h, tt_ts).data
<1> DEFINE vs == Versions[o]
           f  == FirstRecorded(h)
           n  == Len(h)
           w  == Walk[o]
<1>1. EndsWell(o) /\ vs \in Seq(Version)
  BY WalkFinds, VersionsTyped DEF IInv
<1>2. /\ f \in 1..(n + 1) /\ \A j \in 1..(f - 1) : h[j].data = ZeroBlock
      /\ Len(Recorded(h)) = n + 1 - f /\ DOMAIN Recorded(h) = 1..(n + 1 - f)
      /\ \A i \in 1..(n + 1 - f) : Recorded(h)[i] = h[f - 1 + i]
  BY RecordedFacts
<1>3. n \in Nat /\ DOMAIN h = 1..n /\ \A i \in 1..n : h[i] \in Entry
  OBVIOUS
<1> HIDE DEF f, n, vs
<1>4. /\ DOMAIN vs = 1..(n + 1 - f)
      /\ \A i \in 1..(n + 1 - f) : vs[i].ts = h[f - 1 + i].ts
                                 /\ (h[f - 1 + i].ok => vs[i].data = h[f - 1 + i].data)
  <2>1. Match(vs, Recorded(h))
    BY DEF vs
  <2>2. Len(vs) = n + 1 - f /\ DOMAIN vs = 1..(n + 1 - f)
    BY <1>1, <1>2, <2>1 DEF Match
  <2> QED  BY <1>2, <2>1, <2>2 DEF Match
<1>5. \A j \in 1..n : j < f \/ (j - f + 1 \in 1..(n + 1 - f) /\ f - 1 + (j - f + 1) = j)
  BY <1>2, <1>3
<1>6. \A j \in Before(h, tt_ts) : j < f \/ j - f + 1 \in Earlier(vs)
  BY <1>3, <1>4, <1>5 DEF Before, Earlier
<1>7. CASE w = 0
  <2>1. Earlier(vs) = {}
    BY <1>1, <1>7 DEF EndsWell, vs
  <2>2. \A j \in Before(h, tt_ts) : j \in 1..(f - 1)
    BY <1>2, <1>3, <1>6, <2>1 DEF Before
  <2>3. StateAt(h, tt_ts).data = ZeroBlock
    <3>1. CASE Before(h, tt_ts) = {}
      BY <3>1 DEF StateAt
    <3>2. CASE Before(h, tt_ts) # {}
      <4>1. Before(h, tt_ts) \subseteq 0..n
        BY <1>3 DEF Before
      <4>2. PICK i \in Before(h, tt_ts) : \A j \in Before(h, tt_ts) : j <= i
        BY <1>3, <3>2, <4>1, GreatestNat
      <4> QED  BY <1>2, <2>2, <4>2, StateAtIs
    <3> QED  BY <3>1, <3>2
  <2> QED  BY <1>7, <2>3 DEF Shown
<1>8. CASE w # 0
  <2>1. PICK i \in Earlier(vs) : (\A j \in Earlier(vs) : j <= i) /\ vs[i].data = log[w].data
    BY <1>1, <1>8 DEF EndsWell, vs
  <2> DEFINE k == f - 1 + i
  <2>2. i \in 1..(n + 1 - f) /\ vs[i].ts < tt_ts
    BY <1>4, <2>1 DEF Earlier
  <2>3. k \in 1..n /\ k \in Before(h, tt_ts)
    BY <1>2, <1>3, <1>4, <2>2 DEF Before
  <2>4. \A j \in Before(h, tt_ts) : j <= k
    BY <1>2, <1>3, <1>6, <2>1, <2>2 DEF Before
  <2>5. StateAt(h, tt_ts).ok = h[k].ok /\ StateAt(h, tt_ts).data = h[k].data
    BY <2>3, <2>4, StateAtIs
  <2> QED  BY <1>4, <1>8, <2>1, <2>2, <2>5 DEF Shown
<1> QED  BY <1>7, <1>8

-----------------------------------------------------------------------------
(* The inductive invariants *)

\* Every index entry that was read is a record of the log that is not lost any
\* more, and what is cached of a block is the result of a walk.
IndexRead ==
  /\ tt_pc # "none" => tt_next <= disk_next
  /\ tt_pc \in {"none", "header"} => tt_index = NoIndex /\ tt_cached = {}
  /\ tt_hist \in Histories
  /\ \A b \in Blocks :
       /\ tt_index[b] # 0 => tt_index[b] \in DOMAIN log /\ tt_index[b] < disk_next
       /\ b \in tt_cached => ~Faults(tt_index[b])
       /\ b \in tt_cached /\ tt_index[b] # 0 => tt_size[b] = ActualSize(log[tt_index[b]].data)

ViewRight(b) == LET s == StateAt(tt_hist[b], tt_ts) IN s.ok => View(b) = s.data

TTInv ==
  /\ TTTypeOK /\ IndexRead
  /\ tt_pc = "open" => \A b \in Blocks :
       /\ b \in tt_cached => ViewRight(b)
       /\ b \notin tt_cached => Match(Versions[tt_index[b]], Recorded(tt_hist[b]))

\* The versions in a history.
Written(h) == {x \in Entry : \E b \in Blocks : \E i \in DOMAIN h[b] : x = h[b][i]}
InOrder(S) == \A x, y \in S : x.request <= y.request => x.ts <= y.ts

\* Requests are numbered and timed alike.
TimesInv ==
  LET S == Written(hist) \cup Written(disk_hist) IN
  /\ InOrder(S) /\ InOrder(Written(tt_hist))
  /\ \A x \in Written(tt_hist) : x.request \in 1..requests
  /\ \A x \in S : x.ts <= clock /\ x.request \in 1..requests
  /\ pc = "write" => /\ req.ts <= clock /\ requests # 0
                     /\ \A x \in S : x.ts <= req.ts /\ (x.request = requests => x.ts = req.ts)

\* The disk after the first k requests of a history.
Upto(h, k) == {i \in DOMAIN h : h[i].request <= k}
After(h, k) ==
  IF Upto(h, k) = {} THEN ZeroBlock
  ELSE h[CHOOSE i \in Upto(h, k) : \A j \in Upto(h, k) : j <= i].data
Past(h, k) == [b \in Blocks |-> After(h[b], k)]

\* Cut off anywhere between two requests, a history gives a state that existed.
CutsExisted(h) == \A k \in Nat : Past(h, k) \in existed
ExistInv ==
  ~torn =>
    /\ CutsExisted(disk_hist)
    /\ pc \notin {"write", "done"} => CutsExisted(hist)
    /\ \A k \in 0..(requests - 1) : Past(hist, k) \in existed
    /\ tt_pc = "open" /\ tt_whole => CutsExisted(tt_hist)

-----------------------------------------------------------------------------
(* The view is kept *)

Found(b) == IF b \in tt_cached THEN tt_index[b] ELSE Walk[tt_index[b]]

ViewsShown ==
  \A b \in Blocks : /\ Found(b) \in {0} \cup DOMAIN log /\ Found(b) <= tt_index[b]
                   /\ View(b) = Shown(Found(b))

LEMMA ViewIsShown == IInv /\ TTTypeOK /\ IndexRead => ViewsShown
<1> SUFFICES ASSUME IInv, TTTypeOK, IndexRead, NEW b \in Blocks
             PROVE  /\ Found(b) \in {0} \cup DOMAIN log /\ Found(b) <= tt_index[b]
                    /\ View(b) = Shown(Found(b))
  BY DEF ViewsShown
<1>1. tt_index[b] \in {0} \cup DOMAIN log /\ tt_index[b] \in Nat
  BY DEF IndexRead, TTTypeOK
<1>2. tt_ts \in Nat
  BY Sizes DEF TTTypeOK
<1>3. Found(b) \in {0} \cup DOMAIN log /\ Found(b) <= tt_index[b]
  BY <1>1, <1>2, WalkFinds DEF IInv, EndsWell, Found
<1>4. CASE Found(b) = 0
  BY <1>3, <1>4 DEF View, Found, Shown
<1>5. CASE Found(b) # 0
  <2> DEFINE data == log[Found(b)].data
             size == IF b \in tt_cached THEN tt_size[b] ELSE ActualSize(data)
  <2>1. data \in Content
    BY <1>3, <1>5 DEF IInv, LogSound, TypeOK, Record
  <2>2. ActualSize(data) = 0 <=> data = ZeroBlock
    BY <2>1, ActualSizes
  <2>3. size = ActualSize(data)
    BY <1>5 DEF IndexRead, Found
  <2>4. View(b) = IF size = 0 THEN ZeroBlock ELSE data
    BY <1>5, <2>3 DEF View, Found
  <2> QED  BY <1>3, <1>5, <2>2, <2>3, <2>4 DEF Shown
<1> QED  BY <1>4, <1>5

LEMMA ViewsAreRight == IInv /\ TTInv => ViewCorrect
<1> SUFFICES ASSUME IInv, TTInv, tt_pc = "open", NEW b \in Blocks, Readable(b),
                    StateAt(tt_hist[b], tt_ts).ok
             PROVE  View(b) = StateAt(tt_hist[b], tt_ts).data
  BY DEF ViewCorrect, TTInv
<1>1. CASE b \in tt_cached
  BY <1>1 DEF TTInv, ViewRight
<1>2. CASE b \notin tt_cached
  <2>1. tt_index[b] \in {0} \cup DOMAIN log /\ tt_ts \in Nat /\ tt_hist[b] \in Seq(Entry)
    BY Sizes DEF TTInv, IndexRead, TTTypeOK, Histories
  <2>2. Match(Versions[tt_index[b]], Recorded(tt_hist[b]))
    BY <1>2 DEF TTInv
  <2>3. Shown(Walk[tt_index[b]]) = StateAt(tt_hist[b], tt_ts).data
    BY <2>1, <2>2, WalkRight
  <2> QED  BY <1>2, <2>3, ViewIsShown DEF TTInv, ViewsShown, Found
<1> QED  BY <1>1, <1>2

\* The steps of the driver of the image change nothing that an open device uses.
LEMMA DriverKeepsView ==
  ASSUME IInv, IInv', TTInv, Kept, UNCHANGED tt_vars, torn' \in BOOLEAN
  PROVE  /\ TTInv'
         /\ \A b \in Blocks : View(b)' = View(b) /\ Readable(b)' = Readable(b)
<1>1. TTTypeOK'
  BY DEF TTInv, TTTypeOK, tt_vars
<1>2. disk_next \in Nat /\ disk_next' \in Nat /\ disk_next <= disk_next'
  BY DEF IInv, LogSound, TypeOK, Kept
<1>3. \A b \in Blocks : tt_index[b] \in Nat /\ tt_next \in Nat
  BY DEF TTInv, TTTypeOK
<1>4. \A b \in Blocks : Faults(tt_index[b])' = Faults(tt_index[b]) /\ Readable(b)' = Readable(b)
  BY DEF Faults, Readable, tt_vars
<1>5. IndexRead'
  <2>1. ASSUME NEW b \in Blocks
        PROVE  /\ tt_index[b] # 0 => tt_index[b] \in DOMAIN log' /\ tt_index[b] < disk_next'
               /\ b \in tt_cached => ~Faults(tt_index[b])
               /\ b \in tt_cached /\ tt_index[b] # 0 => tt_size[b] = ActualSize(log'[tt_index[b]].data)
    BY <1>2, <1>3 DEF TTInv, IndexRead, Kept
  <2>2. tt_pc # "none" => tt_next <= disk_next'
    <3>1. tt_next \in Nat
      BY DEF TTInv, TTTypeOK
    <3> QED  BY <1>2, <3>1 DEF TTInv, IndexRead
  <2> QED  BY <2>1, <2>2 DEF TTInv, IndexRead, Faults, tt_vars
<1>6. ASSUME NEW b \in Blocks
      PROVE  /\ Versions'[tt_index'[b]] = Versions[tt_index[b]]
             /\ Found(b)' = Found(b) /\ Shown(Found(b))' = Shown(Found(b))
  <2>1. /\ tt_index[b] = 0 \/ tt_index[b] < disk_next
        /\ tt_index[b] \in {0} \cup (DOMAIN log \cap DOMAIN log')
    BY DEF TTInv, IndexRead, Kept
  <2>2. Versions'[tt_index[b]] = Versions[tt_index[b]]
    BY <2>1, VersionsKept DEF IInv, Kept
  <2>3. Walk'[tt_index[b]] = Walk[tt_index[b]]
    <3>1. LogSound /\ LogSound' /\ tt_ts' = tt_ts
      BY DEF IInv, tt_vars
    <3>2. \A o \in {0} \cup DOMAIN log : o = 0 \/ o < disk_next => Walk'[o] = Walk[o]
      BY <3>1, WalkKept
    <3> DEFINE o == tt_index[b]
    <3>3. o \in {0} \cup DOMAIN log /\ (o = 0 \/ o < disk_next)
      BY <2>1
    <3> HIDE DEF o
    <3>4. Walk'[o] = Walk[o]
      BY <3>2, <3>3
    <3> QED  BY <3>4 DEF o
  <2>4. Found(b)' = Found(b)
    BY <2>3 DEF Found, tt_vars
  <2>5. Found(b) \in {0} \cup DOMAIN log /\ Found(b) <= tt_index[b]
    BY ViewIsShown DEF TTInv, ViewsShown
  <2>6. Found(b) # 0 => Found(b) \in DOMAIN log /\ Found(b) < disk_next
    <3>1. Found(b) # 0 => Found(b) \in DOMAIN log /\ Found(b) \in Nat /\ Found(b) # 0
      BY <2>5, LogPointsBack DEF IInv, PointsBack
    <3> QED  BY <1>2, <1>3, <2>1, <2>5, <3>1
  <2>7. Shown(Found(b))' = Shown(Found(b))
    BY <2>4, <2>6 DEF Shown, Kept
  <2> QED  BY <2>2, <2>4, <2>7 DEF tt_vars
<1>7. \A b \in Blocks : View(b)' = View(b)
  <2>1. (IInv /\ TTTypeOK /\ IndexRead => ViewsShown)'
    BY ViewIsShown, PTL
  <2>2. \A b \in Blocks : View(b) = Shown(Found(b))
    BY ViewIsShown DEF TTInv, ViewsShown
  <2> QED  BY <1>1, <1>5, <1>6, <2>1, <2>2 DEF ViewsShown
<1>8. ASSUME tt_pc' = "open", NEW b \in Blocks
      PROVE  /\ b \in tt_cached' => ViewRight(b)'
             /\ b \notin tt_cached' => Match(Versions'[tt_index'[b]], Recorded(tt_hist'[b]))
  <2>1. b \in tt_cached => ViewRight(b)' = ViewRight(b)
    BY <1>7 DEF ViewRight, StateAt, Before, tt_vars
  <2> QED  BY <1>6, <1>8, <2>1 DEF TTInv, tt_vars
<1> QED  BY <1>1, <1>4, <1>5, <1>7, <1>8 DEF TTInv

-----------------------------------------------------------------------------
(* The steps of the device *)

LEMMA InitTT == TTInit => IInv /\ HistInv /\ TTInv
<1> SUFFICES ASSUME TTInit PROVE IInv /\ HistInv /\ TTInv
  OBVIOUS
<1>1. IInv /\ HistInv
  BY InitIInv, InitHistory DEF TTInit
<1>2. [b \in Blocks |-> <<>>] \in Histories
  BY DEF Histories
<1>3. BlockCells \in Nat
  BY Sizes DEF BlockCells
<1>4. TTTypeOK
  <2>1. NoIndex \in [Blocks -> Nat] /\ NoIndex \in [Blocks -> 0..BlockCells]
    BY <1>3 DEF NoIndex
  <2>2. tt_whole \in BOOLEAN /\ torn \in BOOLEAN
    BY DEF TTInit
  <2>3. 0 \in 0..(MaxTime + 1)
    BY Sizes
  <2> QED  BY <2>1, <2>2, <2>3 DEF TTInit, TTTypeOK
<1>5. IndexRead
  BY <1>2 DEF TTInit, IndexRead, NoIndex
<1> QED  BY <1>1, <1>4, <1>5 DEF TTInit, TTInv

LEMMA HeaderKeeps ==
  ASSUME IInv, TTInv, NEW t \in 1..(MaxTime + 1), TTReadHeader(t), UNCHANGED image_vars PROVE TTInv'
<1>1. disk_next \in Nat /\ disk_next' = disk_next /\ MaxTime \in Nat
  BY Sizes DEF IInv, LogSound, TypeOK, image_vars, vars, disk_vars
<1>2. TTTypeOK'
  BY <1>1 DEF TTInv, TTTypeOK, TTReadHeader, image_vars
<1>3. /\ tt_pc' = "header" /\ tt_next' = disk_next /\ tt_index' = NoIndex /\ tt_cached' = {}
      /\ tt_hist' = tt_hist
  BY DEF TTInv, IndexRead, TTReadHeader
<1>4. IndexRead'
  BY <1>1, <1>3 DEF TTInv, IndexRead, NoIndex
<1> QED  BY <1>2, <1>3, <1>4 DEF TTInv

LEMMA CloseKeeps ==
  ASSUME IInv, TTInv, TTClose, UNCHANGED image_vars PROVE TTInv'
<1>1. BlockCells \in Nat /\ [b \in Blocks |-> <<>>] \in Histories
  BY Sizes DEF BlockCells, Histories
<1>2. TTTypeOK'
  BY <1>1, Sizes DEF TTInv, TTTypeOK, TTClose, NoIndex, image_vars
<1>3. tt_pc' = "none" /\ tt_index' = NoIndex /\ tt_cached' = {} /\ tt_hist' = [b \in Blocks |-> <<>>]
  BY DEF TTClose
<1>4. IndexRead'
  BY <1>1, <1>3 DEF IndexRead, NoIndex
<1> QED  BY <1>2, <1>3, <1>4 DEF TTInv

\* Both tables that an open may read, and any mixture of them, start chains that
\* are the history.
LEMMA IndexKeeps ==
  ASSUME IInv, IInv', HistInv, TTInv, NEW done \in 0..NumBlocks, TTReadIndex(done), UNCHANGED image_vars
  PROVE  TTInv'
<1>1. UNCHANGED <<log, disk_next, torn>>
  BY DEF image_vars, vars, disk_vars, bio_vars
<1>2. BlockCells \in Nat
  BY Sizes DEF BlockCells
<1>3. ASSUME NEW b \in Blocks
      PROVE  /\ tt_index'[b] \in Nat /\ tt_hist'[b] \in Seq(Entry)
             /\ tt_index'[b] \in {0} \cup DOMAIN log
             /\ tt_index'[b] # 0 => tt_index'[b] < disk_next
             /\ Match(Versions[tt_index'[b]], Recorded(tt_hist'[b]))
  <2>1. CASE b < done
    <3>1. done > 0 /\ tt_index'[b] = index_table[b] /\ tt_hist'[b] = hist[b]
      BY <2>1 DEF TTReadIndex, Blocks
    <3>2. pc = "index"
      BY <3>1 DEF TTReadIndex
    <3>3. disk_next \in Nat /\ End = disk_next
      BY <3>2 DEF IInv, LogSound, TypeOK, DiskInv, End
    <3> QED  BY <3>1, <3>2, <3>3 DEF IInv, LogSound, TypeOK, ChainsSound, IndexSound, HistInv,
               Histories, HistoryRecorded
  <2>2. CASE ~(b < done)
    <3>1. tt_index'[b] = disk_index[b] /\ tt_hist'[b] = disk_hist[b]
      BY <2>2 DEF TTReadIndex
    <3> QED  BY <3>1 DEF IInv, LogSound, TypeOK, ChainsSound, IndexSound, HistInv,
               Histories, HistoryRecorded
  <2> QED  BY <2>1, <2>2
<1>4. /\ tt_index' = [b \in Blocks |-> tt_index'[b]] /\ tt_hist' = [b \in Blocks |-> tt_hist'[b]]
      /\ tt_pc' = "open" /\ tt_next' = tt_next /\ tt_pc = "header" /\ tt_cached' = {}
      /\ tt_size' = NoIndex /\ tt_whole' \in BOOLEAN /\ tt_ts' = tt_ts
  BY DEF TTReadIndex
<1>5. tt_index' \in [Blocks -> Nat] /\ tt_hist' \in Histories
  BY <1>3, <1>4 DEF Histories
<1>6. TTTypeOK'
  BY <1>1, <1>2, <1>4, <1>5 DEF TTInv, TTTypeOK, NoIndex
<1>7. IndexRead'
  BY <1>1, <1>3, <1>4, <1>5 DEF TTInv, IndexRead
<1>8. \A o \in {0} \cup DOMAIN log : Versions'[o] = Versions[o]
  BY <1>1, VersionsKept DEF IInv
<1> QED  BY <1>3, <1>4, <1>6, <1>7, <1>8 DEF TTInv

\* Caching the end of a walk changes nothing that the device shows.
LEMMA BlockKeeps ==
  ASSUME IInv, IInv', TTInv, NEW b \in Blocks, TTReadBlock(b), UNCHANGED image_vars
  PROVE  /\ TTInv'
         /\ tt_pc' = "open" => \A c \in Blocks :
              Readable(c) => Readable(c)' /\ View(c)' = View(c)
<1>1. UNCHANGED <<log, disk_next, torn>>
  BY DEF image_vars, vars, disk_vars, bio_vars
<1>2. Kept
  <2>1. disk_next \in Nat
    BY DEF IInv, LogSound, TypeOK
  <2> QED  BY <1>1, <2>1 DEF Kept
<1>3. CASE b \in tt_cached
  <2>1. UNCHANGED tt_vars /\ torn' \in BOOLEAN
    BY <1>1, <1>3 DEF TTReadBlock, TTInv, TTTypeOK
  <2> QED  BY <1>2, <2>1, DriverKeepsView
<1>4. CASE b \notin tt_cached /\ Faults(tt_index[b])
  <2>1. /\ tt_pc = "open" /\ tt_pc' = "fault"
        /\ UNCHANGED <<tt_ts, tt_next, tt_index, tt_cached, tt_size, tt_hist, tt_whole>>
    BY <1>4 DEF TTReadBlock
  <2>2. TTTypeOK'
    BY <1>1, <2>1 DEF TTInv, TTTypeOK
  <2>3. IndexRead'
    BY <1>1, <2>1 DEF TTInv, IndexRead, Faults
  <2> QED  BY <2>1, <2>2, <2>3 DEF TTInv
<1>5. CASE b \notin tt_cached /\ ~Faults(tt_index[b])
  <2> DEFINE found == Walk[tt_index[b]]
  <2>1. PICK size \in SizeFound(found) :
          /\ tt_pc = "open" /\ tt_index' = [tt_index EXCEPT ![b] = found]
          /\ tt_cached' = tt_cached \cup {b} /\ tt_size' = [tt_size EXCEPT ![b] = size]
          /\ UNCHANGED <<tt_pc, tt_ts, tt_next, tt_hist, tt_whole>>
    BY <1>5 DEF TTReadBlock
  <2>2. /\ found \in {0} \cup DOMAIN log /\ found <= tt_index[b] /\ found = Found(b)
    BY <1>5, ViewIsShown DEF TTInv, ViewsShown, Found
  <2> HIDE DEF found
  <2>3. /\ tt_index \in [Blocks -> Nat] /\ tt_size \in [Blocks -> 0..BlockCells] /\ tt_next \in Nat
        /\ disk_next \in Nat /\ BlockCells \in Nat
    BY Sizes DEF TTInv, TTTypeOK, IInv, LogSound, TypeOK, BlockCells
  <2>4. found \in Nat /\ (found # 0 => found < disk_next /\ found < tt_next /\ tt_index[b] # 0)
    <3>1. found \in Nat /\ tt_index[b] \in Nat
      BY <2>2, <2>3, LogPointsBack DEF IInv, PointsBack
    <3>2. tt_index[b] # 0 => tt_index[b] < disk_next /\ tt_index[b] < tt_next
      BY <1>5, <2>3, <3>1 DEF TTInv, IndexRead, Faults
    <3> QED  BY <2>2, <2>3, <3>1, <3>2
  <2>5. size \in 0..BlockCells /\ (found # 0 => size = ActualSize(log[found].data))
    <3>1. CASE found = 0
      BY <2>1, <2>3, <3>1 DEF SizeFound, LeftOver
    <3>2. CASE found # 0
      <4>1. log[found].data \in Content
        BY <2>2, <3>2 DEF IInv, LogSound, TypeOK, Record
      <4>2. size = ActualSize(log[found].data)
        BY <2>1, <3>2 DEF SizeFound
      <4> QED  BY <4>1, <4>2, ActualSizes
    <3> QED  BY <3>1, <3>2
  <2>6. TTTypeOK'
    BY <1>1, <2>1, <2>3, <2>4, <2>5 DEF TTInv, TTTypeOK
  <2>7. IndexRead'
    <3>1. ASSUME NEW c \in Blocks
          PROVE  /\ tt_index'[c] # 0 => tt_index'[c] \in DOMAIN log /\ tt_index'[c] < disk_next
                 /\ c \in tt_cached' => tt_index'[c] = 0 \/ ~(tt_index'[c] >= tt_next)
                 /\ c \in tt_cached' /\ tt_index'[c] # 0 => tt_size'[c] = ActualSize(log[tt_index'[c]].data)
      <4>1. CASE c = b
        BY <2>1, <2>2, <2>3, <2>4, <2>5, <4>1
      <4>2. CASE c # b
        BY <2>1, <2>3, <4>2 DEF TTInv, IndexRead, Faults
      <4> QED  BY <4>1, <4>2
    <3> QED  BY <1>1, <2>1, <3>1 DEF TTInv, IndexRead, Faults
  <2>8. \A o \in {0} \cup DOMAIN log : Walk'[o] = Walk[o] /\ Versions'[o] = Versions[o]
    <3>1. Walk' = Walk
      BY <1>1, <2>1 DEF Walk, Older
    <3> QED  BY <1>1, <3>1, VersionsKept DEF IInv
  <2>9. ASSUME NEW c \in Blocks PROVE Found(c)' = Found(c) /\ Shown(Found(c))' = Shown(Found(c))
    <3>1. CASE c = b
      BY <1>1, <2>1, <2>2, <2>3, <3>1 DEF Found, Shown
    <3>2. CASE c # b
      <4>1. tt_index[c] \in {0} \cup DOMAIN log /\ tt_index'[c] = tt_index[c]
            /\ (c \in tt_cached' <=> c \in tt_cached)
        BY <2>1, <2>3, <3>2 DEF TTInv, IndexRead
      <4> QED  BY <1>1, <2>8, <4>1 DEF Found, Shown
    <3> QED  BY <3>1, <3>2
  <2>10. \A c \in Blocks : View(c)' = View(c)
    <3>1. (IInv /\ TTTypeOK /\ IndexRead => ViewsShown)'
      BY ViewIsShown, PTL
    <3>2. \A c \in Blocks : View(c) = Shown(Found(c))
      BY ViewIsShown DEF TTInv, ViewsShown
    <3> QED  BY <2>6, <2>7, <2>9, <3>1, <3>2 DEF ViewsShown
  <2>11. ASSUME NEW c \in Blocks
         PROVE  /\ c \in tt_cached' => ViewRight(c)'
                /\ c \notin tt_cached' => Match(Versions'[tt_index'[c]], Recorded(tt_hist'[c]))
    <3>1. ViewRight(c)' <=> (StateAt(tt_hist[c], tt_ts).ok => View(c) = StateAt(tt_hist[c], tt_ts).data)
      BY <2>1, <2>10 DEF ViewRight, StateAt, Before
    <3>2. Readable(c) => ViewRight(c)
      BY <2>1, ViewsAreRight DEF ViewCorrect, ViewRight
    <3>3. c \in tt_cached' => Readable(c)
      BY <1>5, <2>1 DEF Readable
    <3>4. c \notin tt_cached' => Match(Versions'[tt_index'[c]], Recorded(tt_hist'[c]))
      <4>1. tt_index[c] \in {0} \cup DOMAIN log
        BY DEF TTInv, IndexRead
      <4>2. c \notin tt_cached' => c \notin tt_cached /\ tt_index'[c] = tt_index[c]
        BY <2>1, <2>3
      <4> QED  BY <2>1, <2>8, <4>1, <4>2 DEF TTInv
    <3> QED  BY <3>1, <3>2, <3>3, <3>4 DEF ViewRight
  <2>12. \A c \in Blocks : Readable(c) => Readable(c)'
    <3>1. ASSUME NEW c \in Blocks, Readable(c) PROVE Readable(c)'
      BY <2>1, <2>3, <3>1 DEF Readable, Faults
    <3> QED  BY <3>1
  <2> QED  BY <2>6, <2>7, <2>10, <2>11, <2>12 DEF TTInv
<1> QED  BY <1>3, <1>4, <1>5

-----------------------------------------------------------------------------
(* Safety of the device *)

\* To the invariants of the disk, every step is one of the driver or none.
LEMMA WriterIsNext == Writer => Next
BY DEF Writer, Next, Serve

LEMMA StepOfDisk == [TTNext]_all_vars => [Next]_vars
BY WriterIsNext DEF TTNext, all_vars, image_vars

ViewsStay ==
  tt_pc = "open" /\ tt_pc' = "open" =>
    \A b \in Blocks : Readable(b) => Readable(b)' /\ View(b)' = View(b)

LEMMA NextTT ==
  IInv /\ IInv' /\ HistInv /\ TTInv /\ [TTNext]_all_vars => TTInv' /\ ViewsStay
<1> SUFFICES ASSUME IInv, IInv', HistInv, TTInv, [TTNext]_all_vars PROVE TTInv' /\ ViewsStay
  OBVIOUS
<1>1. CASE Reader /\ UNCHANGED image_vars
  <2>1. ASSUME NEW t \in 1..(MaxTime + 1), TTReadHeader(t) PROVE TTInv' /\ ViewsStay
    BY <1>1, <2>1, HeaderKeeps DEF TTReadHeader, ViewsStay
  <2>2. ASSUME NEW done \in 0..NumBlocks, TTReadIndex(done) PROVE TTInv' /\ ViewsStay
    BY <1>1, <2>2, IndexKeeps DEF TTReadIndex, ViewsStay
  <2>3. ASSUME NEW b \in Blocks, TTReadBlock(b) PROVE TTInv' /\ ViewsStay
    BY <1>1, <2>3, BlockKeeps DEF ViewsStay
  <2>4. ASSUME TTClose PROVE TTInv' /\ ViewsStay
    BY <1>1, <2>4, CloseKeeps DEF TTClose, ViewsStay
  <2> QED  BY <1>1, <2>1, <2>2, <2>3, <2>4 DEF Reader
<1>2. CASE \/ Writer /\ torn' = (torn \/ disk_hist' \notin {disk_hist, hist}) /\ UNCHANGED tt_vars
           \/ UNCHANGED all_vars
  <2>1. UNCHANGED tt_vars /\ torn' \in BOOLEAN
    BY <1>2 DEF all_vars, image_vars, TTInv, TTTypeOK
  <2>2. Kept
    BY StepOfDisk, PastKept
  <2> QED  BY <2>1, <2>2, DriverKeepsView DEF ViewsStay
<1> QED  BY <1>1, <1>2 DEF TTNext

LEMMA DeviceInvariant == TTSpec => [](IInv /\ HistInv /\ TTInv)
<1>1. IInv /\ HistInv /\ TTInv /\ [TTNext]_all_vars => (IInv /\ HistInv /\ TTInv)'
  BY StepOfDisk, NextKeeps, NextHistory, NextTT
<1> QED  BY <1>1, InitTT, PTL DEF TTSpec

\* Whatever the driver appends, flushes, closes or loses meanwhile, a time
\* travel device shows of each block the last version before its time of the
\* history that was on disk when it was opened.
THEOREM ViewStaysCorrect == TTSpec => []ViewCorrect
<1> QED  BY ViewsAreRight, DeviceInvariant, PTL

\* A record that the device cannot read means that the image was closed between
\* its reads of the header and of the index.
THEOREM FaultsOnlyInRace == TTSpec => []FaultOnlyInRace
<1>1. IInv /\ TTInv => FaultOnlyInRace
  <2> SUFFICES ASSUME IInv, TTInv, tt_pc = "open", NEW b \in Blocks, ~Readable(b)
               PROVE  tt_next < disk_next
    BY DEF FaultOnlyInRace
  <2>1. tt_index[b] \in Nat /\ tt_next \in Nat /\ disk_next \in Nat
    BY DEF IInv, LogSound, TypeOK, TTInv, TTTypeOK
  <2>2. tt_index[b] # 0 /\ tt_index[b] >= tt_next
    BY DEF Readable, Faults
  <2>3. tt_index[b] < disk_next
    BY <2>2 DEF TTInv, IndexRead
  <2> QED  BY <2>1, <2>2, <2>3
<1> QED  BY <1>1, DeviceInvariant, PTL

\* What an open device shows of a block does not change, whether the driver or
\* the device's own cache takes a step.
THEOREM ViewStaysStable == TTSpec => ViewStable
<1>1. IInv /\ HistInv /\ TTInv /\ [TTNext]_all_vars /\ (IInv /\ HistInv /\ TTInv)' =>
        [tt_pc = "open" /\ tt_pc' = "open" /\ <<log, tt_vars>>' # <<log, tt_vars>> =>
           \A b \in Blocks : Readable(b) => Readable(b)' /\ View(b)' = View(b)]_all_vars
  BY NextTT DEF ViewsStay
<1> QED  BY <1>1, DeviceInvariant, PTL DEF TTSpec, ViewStable

-----------------------------------------------------------------------------
(* Requests are numbered and timed alike, unless the clock is set back *)

LEMMA WrittenMixed ==
  ASSUME NEW g \in Histories, NEW h \in Histories, NEW m \in Histories,
         \A b \in Blocks : m[b] \in {g[b], h[b]}
  PROVE  Written(m) \subseteq Written(g) \cup Written(h)
BY DEF Written

LEMMA WrittenMore ==
  ASSUME NEW h \in Histories, NEW b \in Blocks, NEW x \in Entry
  PROVE  Written([h EXCEPT ![b] = Append(@, x)]) \subseteq Written(h) \cup {x}
<1> DEFINE m == [h EXCEPT ![b] = Append(@, x)]
<1>1. SUFFICES ASSUME NEW c \in Blocks, NEW i \in DOMAIN m[c]
               PROVE  m[c][i] = x \/ (i \in DOMAIN h[c] /\ m[c][i] = h[c][i])
  <2> HIDE DEF m
  <2> QED  BY <1>1 DEF Written
<1>2. CASE c = b
  <2>1. m[c] = Append(h[b], x) /\ h[b] \in Seq(Entry)
    BY <1>2 DEF Histories
  <2> QED  BY <1>2, <2>1
<1>3. CASE c # b
  BY <1>3 DEF Histories
<1> QED  BY <1>2, <1>3

\* Steps that only drop versions, let time pass, or start a request.
LEMMA TimesStay ==
  ASSUME IInv, IInv', TimesInv,
         Written(hist') \cup Written(disk_hist') \subseteq Written(hist) \cup Written(disk_hist),
         Written(tt_hist') \subseteq Written(hist) \cup Written(disk_hist) \/ tt_hist' = tt_hist,
         clock <= clock', requests <= requests',
         pc' = "write" => \/ pc = "write" /\ req'.ts = req.ts /\ requests' = requests
                          \/ req'.ts = clock /\ requests' = requests + 1
  PROVE  TimesInv'
<1> DEFINE S == Written(hist) \cup Written(disk_hist)
           Q == Written(hist') \cup Written(disk_hist')
<1>1. clock \in Nat /\ clock' \in Nat /\ requests \in Nat /\ requests' \in Nat
  BY Sizes DEF IInv, LogSound, TypeOK
<1>2. \A x \in S : x.ts \in Nat /\ x.request \in Nat
  BY Sizes DEF Written, Entry
<1>3. /\ InOrder(S) /\ InOrder(Written(tt_hist))
      /\ \A x \in Written(tt_hist) : x.request \in 1..requests
      /\ \A x \in S : x.ts <= clock /\ x.request \in 1..requests
      /\ pc = "write" => /\ req.ts <= clock /\ requests # 0
                         /\ \A x \in S : x.ts <= req.ts /\ (x.request = requests => x.ts = req.ts)
  BY DEF TimesInv
<1>4. Q \subseteq S
  OBVIOUS
<1>5. (\A x \in Written(tt_hist') : x \in S) \/ Written(tt_hist') = Written(tt_hist)
  OBVIOUS
<1> HIDE DEF S
<1>6. InOrder(Q)
  BY <1>3, <1>4 DEF InOrder
<1>7. \A x \in Q : x.ts <= clock' /\ x.request \in 1..requests'
  BY <1>1, <1>2, <1>3, <1>4
<1>8. InOrder(Written(tt_hist')) /\ \A x \in Written(tt_hist') : x.request \in 1..requests'
  <2>1. CASE \A x \in Written(tt_hist') : x \in S
    BY <1>1, <1>3, <2>1 DEF InOrder
  <2>2. CASE Written(tt_hist') = Written(tt_hist)
    BY <1>1, <1>3, <2>2
  <2> QED  BY <1>5, <2>1, <2>2
<1>9. ASSUME pc' = "write"
      PROVE  /\ req'.ts <= clock' /\ requests' # 0
             /\ \A x \in Q : x.ts <= req'.ts /\ (x.request = requests' => x.ts = req'.ts)
  <2>1. CASE pc = "write" /\ req'.ts = req.ts /\ requests' = requests
    <3>1. req.ts \in Nat
      BY Sizes DEF IInv, RequestInv, Requests
    <3> QED  BY <1>1, <1>3, <1>4, <2>1, <3>1
  <2>2. CASE req'.ts = clock /\ requests' = requests + 1
    BY <1>1, <1>2, <1>3, <1>4, <2>2
  <2> QED  BY <1>9, <2>1, <2>2
<1> QED  BY <1>6, <1>7, <1>8, <1>9 DEF TimesInv

LEMMA WriteBlockTimes ==
  ASSUME IInv, IInv', HistInv, TimesInv, WriteBlock, UNCHANGED tt_vars PROVE TimesInv'
<1>1. /\ pc = "write" /\ Block \in Blocks /\ hist \in Histories
      /\ UNCHANGED <<disk_hist, clock, requests, tt_hist>>
  BY AtBlock DEF WriteBlock, disk_vars, HistInv, tt_vars
<1>2. PICK r \in ReadLatestBlock(Block) : hist' = [hist EXCEPT ![Block] = Append(@, NewEntry(r))]
  BY WriteChains
<1> DEFINE x == NewEntry(r)
           S == Written(hist) \cup Written(disk_hist)
           Q == Written(hist') \cup Written(disk_hist')
<1>3. x \in Entry /\ x.ts = req.ts /\ x.request = requests
  BY <1>1, EntryMatches DEF NewEntry
<1>4. req'.ts = req.ts
  BY DEF WriteBlock, IInv, RequestInv, Requests
<1> HIDE DEF x
<1>5. Q \subseteq S \cup {x}
  <2>1. Written(hist') \subseteq Written(hist) \cup {x}
    BY <1>1, <1>2, <1>3, WrittenMore DEF x
  <2> QED  BY <1>1, <2>1
<1>6. /\ InOrder(S) /\ InOrder(Written(tt_hist))
      /\ \A y \in Written(tt_hist) : y.request \in 1..requests
      /\ \A y \in S : y.ts <= clock /\ y.request \in 1..requests
      /\ req.ts <= clock /\ requests # 0
      /\ \A y \in S : y.ts <= req.ts /\ (y.request = requests => y.ts = req.ts)
  BY <1>1 DEF TimesInv
<1>7. clock \in Nat /\ requests \in Nat /\ req.ts \in Nat /\ \A y \in S : y.ts \in Nat /\ y.request \in Nat
  BY Sizes DEF IInv, LogSound, TypeOK, Written, Entry
<1> HIDE DEF S, Q
<1>8. \A y \in Q : y \in S \/ y = x
  BY <1>5
<1>9. /\ \A y \in Q : y.ts <= clock /\ y.request \in 1..requests
      /\ \A y \in Q : y.ts <= req.ts /\ (y.request = requests => y.ts = req.ts)
  BY <1>3, <1>6, <1>7, <1>8
<1>10. InOrder(Q)
  <2>1. SUFFICES ASSUME NEW y \in Q, NEW z \in Q, y.request <= z.request PROVE y.ts <= z.ts
    BY DEF InOrder
  <2>2. CASE y \in S /\ z \in S
    BY <1>6, <2>1, <2>2 DEF InOrder
  <2>3. CASE z = x
    BY <1>3, <1>9, <2>3
  <2>4. CASE y = x /\ z \in S
    <3>1. z.request = requests
      BY <1>3, <1>6, <1>7, <2>1, <2>4
    <3> QED  BY <1>3, <1>6, <1>7, <2>4, <3>1
  <2> QED  BY <1>8, <2>2, <2>3, <2>4
<1> QED  BY <1>1, <1>4, <1>6, <1>9, <1>10 DEF TimesInv, Q

LEMMA NextTimes ==
  ASSUME ClockStepsBack = FALSE
  PROVE  IInv /\ IInv' /\ HistInv /\ HistInv' /\ TTInv /\ TTInv' /\ TimesInv /\ [TTNext]_all_vars => TimesInv'
<1> SUFFICES ASSUME IInv, IInv', HistInv, HistInv', TTInv, TTInv', TimesInv, [TTNext]_all_vars PROVE TimesInv'
  OBVIOUS
<1>1. /\ hist \in Histories /\ disk_hist \in Histories /\ hist' \in Histories /\ disk_hist' \in Histories
      /\ tt_hist' \in Histories
  BY DEF HistInv, TTInv, IndexRead
<1>2. clock \in Nat /\ requests \in Nat
  BY Sizes DEF IInv, LogSound, TypeOK
<1>3. CASE Reader /\ UNCHANGED image_vars
  <2>1. UNCHANGED <<hist, disk_hist, clock, requests, pc, req>>
    BY <1>3 DEF image_vars, vars, disk_vars
  <2>2. Written(tt_hist') \subseteq Written(hist) \cup Written(disk_hist) \/ tt_hist' = tt_hist
    <3>1. ASSUME NEW done \in 0..NumBlocks, TTReadIndex(done)
          PROVE  Written(tt_hist') \subseteq Written(hist) \cup Written(disk_hist)
      <4>1. \A b \in Blocks : tt_hist'[b] \in {hist[b], disk_hist[b]}
        BY <3>1 DEF TTReadIndex
      <4> QED  BY <1>1, <4>1, WrittenMixed
    <3>2. ASSUME TTClose PROVE Written(tt_hist') = {}
      BY <3>2 DEF TTClose, Written
    <3>3. ASSUME NEW b \in Blocks, TTReadBlock(b) PROVE tt_hist' = tt_hist
      BY <3>3 DEF TTReadBlock, tt_vars
    <3>4. ASSUME NEW t, TTReadHeader(t) PROVE tt_hist' = tt_hist
      BY <3>4 DEF TTReadHeader
    <3> QED  BY <1>3, <3>1, <3>2, <3>3, <3>4 DEF Reader
  <2> QED  BY <1>2, <2>1, <2>2, TimesStay
<1>4. CASE Writer /\ UNCHANGED tt_vars
  <2>1. tt_hist' = tt_hist
    BY <1>4 DEF tt_vars
  <2>2. CASE WriteBlock
    BY <1>4, <2>2, WriteBlockTimes
  <2>3. CASE Open \/ Complete \/ BioFinalize \/ WriteHeader
    <3>1. UNCHANGED <<hist, disk_hist, clock, requests>> /\ pc' # "write"
      BY <2>3 DEF Open, Complete, BioFinalize, WriteHeader, disk_vars
    <3> QED  BY <1>2, <2>1, <3>1, TimesStay
  <2>4. CASE \E sec \in 0..(NumSectors - 1), secs \in 1..MaxSecs :
               \E data \in [0..(secs - 1) -> Sectors] : QueueWrite(sec, secs, data)
    <3>1. UNCHANGED <<hist, disk_hist, clock>> /\ requests' = requests + 1 /\ req'.ts = clock
      BY <2>4 DEF QueueWrite, disk_vars, NoRequest
    <3> QED  BY <1>2, <2>1, <3>1, TimesStay
  <2>5. CASE Kill
    <3>1. hist' = disk_hist /\ UNCHANGED <<disk_hist, clock, requests>> /\ pc' # "write"
      BY <2>5 DEF Kill, Closed, disk_vars
    <3> QED  BY <1>2, <2>1, <3>1, TimesStay
  <2>6. ASSUME NEW done, WriteIndex(done) PROVE TimesInv'
    <3>1. /\ hist' = disk_hist' /\ UNCHANGED <<clock, requests>> /\ pc' # "write"
          /\ \A b \in Blocks : disk_hist'[b] \in {hist[b], disk_hist[b]}
      BY <2>6 DEF WriteIndex, Closed
    <3>2. Written(disk_hist') \subseteq Written(hist) \cup Written(disk_hist)
      BY <1>1, <3>1, WrittenMixed
    <3> QED  BY <1>2, <2>1, <3>1, <3>2, TimesStay
  <2>7. CASE Tick
    <3>1. /\ UNCHANGED <<hist, disk_hist, requests, pc, req>>
          /\ \E t \in 0..MaxTime : clock' = t /\ (t = clock + 1 \/ (ClockStepsBack /\ t < clock))
      BY <2>7 DEF Tick, disk_vars
    <3>2. clock <= clock'
      BY <1>2, <3>1
    <3> QED  BY <1>2, <2>1, <3>1, <3>2, TimesStay
  <2> QED  BY <1>4, <2>2, <2>3, <2>4, <2>5, <2>6, <2>7 DEF Writer, Finalize, CloseIndex, KillInIndex
<1>5. CASE UNCHANGED all_vars
  <2>1. UNCHANGED <<hist, disk_hist, clock, requests, pc, req, tt_hist>>
    BY <1>5 DEF all_vars, image_vars, vars, disk_vars, tt_vars
  <2> QED  BY <1>2, <2>1, TimesStay
<1> QED  BY <1>3, <1>4, <1>5 DEF TTNext

-----------------------------------------------------------------------------
(* The states that existed *)

LEMMA AfterLast ==
  ASSUME NEW h \in Seq(Entry), NEW k \in Nat, \A i \in DOMAIN h : h[i].request <= k
  PROVE  After(h, k) = IF h = <<>> THEN ZeroBlock ELSE h[Len(h)].data
<1>1. Upto(h, k) = 1..Len(h) /\ Len(h) \in Nat
  BY DEF Upto
<1>2. CASE h = <<>>
  BY <1>1, <1>2 DEF After
<1>3. CASE h # <<>>
  <2> DEFINE c == CHOOSE i \in Upto(h, k) : \A j \in Upto(h, k) : j <= i
  <2>1. Len(h) \in Upto(h, k) /\ \A j \in Upto(h, k) : j <= Len(h)
    BY <1>1, <1>3
  <2>2. c \in Upto(h, k) /\ \A j \in Upto(h, k) : j <= c
    BY <2>1
  <2> HIDE DEF c
  <2>3. c = Len(h)
    BY <1>1, <2>1, <2>2
  <2> QED  BY <1>3, <2>1, <2>3 DEF After, c
<1> QED  BY <1>2, <1>3

LEMMA AfterMore ==
  ASSUME NEW h \in Seq(Entry), NEW x \in Entry, NEW k \in Nat, ~(x.request <= k)
  PROVE  After(Append(h, x), k) = After(h, k)
<1> DEFINE m == Append(h, x)
<1>1. /\ Len(h) \in Nat /\ DOMAIN m = 1..(Len(h) + 1) /\ DOMAIN h = 1..Len(h)
      /\ m[Len(h) + 1] = x /\ \A i \in 1..Len(h) : m[i] = h[i]
  OBVIOUS
<1> HIDE DEF m
<1>2. Upto(m, k) = Upto(h, k) /\ \A i \in Upto(h, k) : m[i] = h[i]
  <2>1. \A i \in 1..(Len(h) + 1) : m[i].request <= k <=> i \in 1..Len(h) /\ h[i].request <= k
    <3>1. ASSUME NEW i \in 1..(Len(h) + 1)
          PROVE  m[i].request <= k <=> i \in 1..Len(h) /\ h[i].request <= k
      <4>1. CASE i = Len(h) + 1
        BY <1>1, <4>1
      <4>2. CASE i \in 1..Len(h)
        BY <1>1, <4>2
      <4> QED  BY <1>1, <4>1, <4>2
    <3> QED  BY <3>1
  <2>2. 1..Len(h) \subseteq 1..(Len(h) + 1)
    BY <1>1
  <2> QED  BY <1>1, <2>1, <2>2 DEF Upto
<1>3. CASE Upto(h, k) = {}
  BY <1>2, <1>3 DEF After, m
<1>4. CASE Upto(h, k) # {}
  <2> DEFINE c == CHOOSE i \in Upto(h, k) : \A j \in Upto(h, k) : j <= i
  <2>1. c \in Upto(h, k)
    <3>1. Upto(h, k) \subseteq 0..Len(h)
      BY <1>1 DEF Upto
    <3>2. \E i \in Upto(h, k) : \A j \in Upto(h, k) : j <= i
      BY <1>1, <1>4, <3>1, GreatestNat
    <3> QED  BY <3>2
  <2> HIDE DEF c
  <2>2. After(h, k) = h[c].data /\ After(m, k) = m[c].data
    BY <1>2, <1>4 DEF After, c
  <2> QED  BY <1>2, <2>1, <2>2 DEF m
<1> QED  BY <1>3, <1>4

\* All of a history is the state of the disk.
LEMMA PastIsState ==
  ASSUME IInv, HistInv, TimesInv, NEW k \in Nat, requests <= k PROVE Past(hist, k) = StateOf(hist)
<1>1. ASSUME NEW b \in Blocks PROVE After(hist[b], k) = Current(hist, b)
  <2>1. hist[b] \in Seq(Entry)
    BY DEF HistInv, Histories
  <2>2. ASSUME NEW i \in DOMAIN hist[b] PROVE hist[b][i].request <= k
    <3>1. hist[b][i] \in Entry
      BY <2>1
    <3>2. hist[b][i] \in Written(hist)
      BY <3>1 DEF Written
    <3>3. hist[b][i].request \in 1..requests /\ requests \in Nat
      BY <3>2, Sizes DEF TimesInv, IInv, LogSound, TypeOK
    <3> QED  BY <3>3
  <2> QED  BY <2>1, <2>2, AfterLast DEF Current
<1> QED  BY <1>1 DEF Past, StateOf

\* What pd_write adds to a history belongs to the request in progress.
LEMMA WriteBlockPast ==
  ASSUME IInv, IInv', HistInv, WriteBlock, NEW k \in Nat, k < requests
  PROVE  Past(hist', k) = Past(hist, k)
<1>1. pc = "write" /\ Block \in Blocks /\ hist \in Histories /\ requests \in Nat
  <2>1. requests \in Nat
    BY Sizes DEF IInv, LogSound, TypeOK
  <2> QED  BY <2>1, AtBlock DEF WriteBlock, HistInv
<1>2. PICK r \in ReadLatestBlock(Block) : hist' = [hist EXCEPT ![Block] = Append(@, NewEntry(r))]
  BY WriteChains
<1> DEFINE x == NewEntry(r)
<1>3. x \in Entry /\ x.request = requests
  BY <1>1, EntryMatches DEF NewEntry
<1> HIDE DEF x
<1>4. ASSUME NEW b \in Blocks PROVE After(hist'[b], k) = After(hist[b], k)
  <2>1. CASE b = Block
    <3>1. hist'[b] = Append(hist[b], x) /\ hist[b] \in Seq(Entry)
      BY <1>1, <1>2, <2>1 DEF Histories, x
    <3>2. ~(x.request <= k)
      BY <1>1, <1>3
    <3> QED  BY <1>3, <3>1, <3>2, AfterMore
  <2>2. CASE b # Block
    BY <1>1, <1>2, <2>2 DEF Histories
  <2> QED  BY <2>1, <2>2
<1> QED  BY <1>4 DEF Past

LEMMA NextExist ==
  IInv /\ IInv' /\ HistInv /\ HistInv' /\ TTInv /\ TimesInv /\ ExistInv /\ [TTNext]_all_vars => ExistInv'
<1> SUFFICES ASSUME IInv, IInv', HistInv, HistInv', TTInv, TimesInv, ExistInv, [TTNext]_all_vars,
                    ~torn'
             PROVE  /\ CutsExisted(disk_hist)'
                    /\ pc' \notin {"write", "done"} => CutsExisted(hist)'
                    /\ \A k \in 0..(requests' - 1) : Past(hist', k) \in existed'
                    /\ tt_pc' = "open" /\ tt_whole' => CutsExisted(tt_hist)'
  BY DEF ExistInv
<1>1. hist \in Histories /\ disk_hist \in Histories /\ requests \in Nat
  BY Sizes DEF HistInv, IInv, LogSound, TypeOK
<1>2. CASE Reader /\ UNCHANGED image_vars
  <2>1. UNCHANGED <<hist, disk_hist, requests, pc, existed, torn>>
    BY <1>2 DEF image_vars, vars, disk_vars
  <2>2. /\ CutsExisted(disk_hist) /\ (pc \notin {"write", "done"} => CutsExisted(hist))
        /\ \A k \in 0..(requests - 1) : Past(hist, k) \in existed
        /\ tt_pc = "open" /\ tt_whole => CutsExisted(tt_hist)
    BY <2>1 DEF ExistInv
  <2>3. ASSUME tt_pc' = "open", tt_whole' PROVE CutsExisted(tt_hist')
    <3>1. ASSUME NEW done \in 0..NumBlocks, TTReadIndex(done) PROVE CutsExisted(tt_hist')
      <4>1. /\ done \in {0, NumBlocks} /\ (done > 0 => pc = "index")
            /\ tt_hist' = [b \in Blocks |-> IF b < done THEN hist[b] ELSE disk_hist[b]]
        BY <2>3, <3>1 DEF TTReadIndex
      <4>2. CASE done = 0
        <5>1. \A b \in Blocks : ~(b < 0)
          BY DEF Blocks
        <5>2. tt_hist' = disk_hist
          BY <1>1, <4>1, <4>2, <5>1 DEF Histories
        <5> QED  BY <2>2, <5>2
      <4>3. CASE done # 0
        <5>1. done = NumBlocks /\ pc = "index" /\ \A b \in Blocks : b < NumBlocks
          BY <4>1, <4>3, Sizes DEF Blocks
        <5>2. tt_hist' = hist
          BY <1>1, <4>1, <5>1 DEF Histories
        <5> QED  BY <2>2, <5>1, <5>2
      <4> QED  BY <4>2, <4>3
    <3>2. ASSUME NEW b \in Blocks, TTReadBlock(b) PROVE CutsExisted(tt_hist')
      <4>1. tt_pc = "open" /\ tt_whole' = tt_whole /\ tt_hist' = tt_hist
        BY <3>2 DEF TTReadBlock, tt_vars
      <4> QED  BY <2>2, <2>3, <4>1
    <3> QED  BY <1>2, <2>3, <3>1, <3>2 DEF Reader, TTReadHeader, TTClose
  <2> QED  BY <2>1, <2>2, <2>3 DEF CutsExisted
<1>3. CASE \/ /\ Writer
              /\ torn' = (torn \/ disk_hist' \notin {disk_hist, hist})
              /\ existed' = IF pc = "done" THEN existed \cup {StateOf(hist)} ELSE existed
              /\ UNCHANGED tt_vars
           \/ UNCHANGED all_vars
  <2>1. /\ ~torn /\ existed \subseteq existed' /\ UNCHANGED <<tt_pc, tt_whole, tt_hist>>
        /\ disk_hist' \in {disk_hist, hist}
    <3>1. CASE UNCHANGED all_vars
      BY <1>3, <3>1 DEF all_vars, image_vars, tt_vars, vars, disk_vars
    <3>2. CASE /\ torn' = (torn \/ disk_hist' \notin {disk_hist, hist})
               /\ existed' = IF pc = "done" THEN existed \cup {StateOf(hist)} ELSE existed
               /\ UNCHANGED tt_vars
      <4>1. ~torn /\ disk_hist' \in {disk_hist, hist}
        BY <3>2
      <4> QED  BY <3>2, <4>1 DEF tt_vars
    <3> QED  BY <1>3, <3>1, <3>2
  <2>2. /\ \A k \in Nat : Past(disk_hist, k) \in existed'
        /\ pc \notin {"write", "done"} => \A k \in Nat : Past(hist, k) \in existed'
        /\ \A k \in 0..(requests - 1) : Past(hist, k) \in existed'
        /\ tt_pc = "open" /\ tt_whole => \A k \in Nat : Past(tt_hist, k) \in existed'
    BY <2>1 DEF ExistInv, CutsExisted
  <2>3. tt_pc' = "open" /\ tt_whole' => CutsExisted(tt_hist)'
    BY <2>1, <2>2 DEF CutsExisted
  <2>4. CASE WriteBlock
    <3>1. pc' \in {"write", "done"} /\ UNCHANGED <<disk_hist, requests>>
      BY <2>4 DEF WriteBlock, Continue, disk_vars
    <3>2. ASSUME NEW k \in 0..(requests - 1) PROVE Past(hist', k) \in existed'
      <4>1. k \in Nat /\ k < requests
        BY <1>1
      <4> QED  BY <2>2, <2>4, <4>1, WriteBlockPast
    <3> QED  BY <2>2, <2>3, <3>1, <3>2 DEF CutsExisted
  <2>5. CASE Complete
    <3>1. pc = "done" /\ UNCHANGED <<hist, disk_hist, requests>> /\ Complete
      BY <2>5 DEF Complete, disk_vars
    <3>2. StateOf(hist) \in existed'
      <4>1. CASE UNCHANGED all_vars
        BY <2>5, <4>1 DEF Complete, all_vars, image_vars, vars
      <4> QED  BY <1>3, <3>1, <4>1
    <3>3. ASSUME NEW k \in Nat PROVE Past(hist, k) \in existed'
      <4>1. CASE requests <= k
        BY <3>2, <4>1, PastIsState
      <4>2. CASE ~(requests <= k)
        <5>1. k \in 0..(requests - 1)
          BY <1>1, <4>2
        <5> QED  BY <2>2, <5>1
      <4> QED  BY <4>1, <4>2
    <3> QED  BY <2>2, <2>3, <3>1, <3>3 DEF CutsExisted
  <2>6. CASE Open \/ BioFinalize \/ WriteHeader
    <3>1. /\ pc \notin {"write", "done"} /\ UNCHANGED <<hist, disk_hist, requests>>
      BY <2>6 DEF Open, BioFinalize, WriteHeader, disk_vars
    <3> QED  BY <2>2, <2>3, <3>1 DEF CutsExisted
  <2>7. CASE Tick \/ UNCHANGED all_vars
    <3>1. UNCHANGED <<hist, disk_hist, requests, pc>>
      BY <2>7 DEF Tick, all_vars, image_vars, vars, disk_vars
    <3> QED  BY <2>2, <2>3, <3>1 DEF CutsExisted
  <2>8. CASE \E sec \in 0..(NumSectors - 1), secs \in 1..MaxSecs :
               \E data \in [0..(secs - 1) -> Sectors] : QueueWrite(sec, secs, data)
    <3>1. pc = "idle" /\ pc' = "write" /\ UNCHANGED <<hist, disk_hist>> /\ requests' = requests + 1
      BY <2>8 DEF QueueWrite, disk_vars
    <3>2. \A k \in 0..(requests' - 1) : k \in Nat
      BY <1>1, <3>1
    <3> QED  BY <2>2, <2>3, <3>1, <3>2 DEF CutsExisted
  <2>9. ASSUME hist' = disk_hist', requests' = requests,
               disk_hist' = disk_hist \/ pc = "index"
        PROVE  /\ CutsExisted(disk_hist)' /\ CutsExisted(hist)'
               /\ \A k \in 0..(requests' - 1) : Past(hist', k) \in existed'
    <3>1. \A k \in Nat : Past(disk_hist', k) \in existed'
      BY <2>1, <2>2, <2>9
    <3>2. \A k \in 0..(requests' - 1) : k \in Nat
      BY <1>1, <2>9
    <3> QED  BY <2>9, <3>1, <3>2 DEF CutsExisted
  <2>10. CASE Kill
    <3>1. hist' = disk_hist' /\ requests' = requests /\ disk_hist' = disk_hist
      BY <2>10 DEF Kill, disk_vars
    <3> QED  BY <2>3, <2>9, <3>1
  <2>11. CASE \E done \in 0..NumBlocks : WriteIndex(done)
    <3>1. hist' = disk_hist' /\ requests' = requests /\ pc = "index"
      BY <2>11 DEF WriteIndex
    <3> QED  BY <2>3, <2>9, <3>1
  <2>12. CloseIndex \/ KillInIndex => \E done \in 0..NumBlocks : WriteIndex(done)
    BY Sizes DEF CloseIndex, KillInIndex
  <2> QED  BY <1>3, <2>4, <2>5, <2>6, <2>7, <2>8, <2>10, <2>11, <2>12 DEF Writer, Finalize
<1> QED  BY <1>2, <1>3 DEF TTNext

\* A time cuts the history off between two requests.
LEMMA TimeIsCut ==
  ASSUME IInv, TTInv, TimesInv
  PROVE  \E k \in Nat : \A b \in Blocks : Before(tt_hist[b], tt_ts) = Upto(tt_hist[b], k)
<1> DEFINE W == Written(tt_hist)
           R == {n \in 0..requests : \E x \in W : x.ts < tt_ts /\ x.request = n}
<1>1. /\ InOrder(W) /\ \A x \in W : x.request \in 1..requests /\ x.ts \in Nat
      /\ requests \in Nat /\ tt_ts \in Nat
  BY Sizes DEF TimesInv, Written, Entry, TTInv, TTTypeOK, IInv, LogSound, TypeOK
<1>2. \A b \in Blocks : \A i \in DOMAIN tt_hist[b] : tt_hist[b][i] \in W
  BY DEF Written, TTInv, IndexRead, Histories
<1> HIDE DEF W
<1>3. \E k \in Nat : \A x \in W : x.ts < tt_ts <=> x.request <= k
  <2>1. CASE R = {}
    <3>1. \A x \in W : ~(x.ts < tt_ts) /\ ~(x.request <= 0)
      BY <1>1, <2>1
    <3> QED  BY <3>1
  <2>2. CASE R # {}
    <3>1. R \subseteq 0..requests
      OBVIOUS
    <3>2. PICK k \in R : \A n \in R : n <= k
      <4> HIDE DEF R
      <4> QED  BY <1>1, <2>2, <3>1, GreatestNat
    <3>3. PICK y \in W : y.ts < tt_ts /\ y.request = k
      BY <3>2
    <3>4. ASSUME NEW x \in W, x.ts < tt_ts PROVE x.request <= k
      <4>1. x.request \in R
        BY <1>1, <3>4
      <4> QED  BY <3>2, <4>1
    <3>5. ASSUME NEW x \in W, x.request <= k PROVE x.ts < tt_ts
      <4>1. x.ts <= y.ts
        BY <1>1, <3>3, <3>5 DEF InOrder
      <4> QED  BY <1>1, <3>3, <4>1
    <3> QED  BY <1>1, <3>2, <3>4, <3>5
  <2> QED  BY <2>1, <2>2
<1> QED  BY <1>2, <1>3 DEF Before, Upto

LEMMA RestoredIs ==
  ASSUME IInv, TTInv, TimesInv, ExistInv PROVE RestoredStateExisted
<1> SUFFICES ASSUME tt_pc = "open", tt_whole, ~torn, \A b \in Blocks : Readable(b) /\ AllOk(tt_hist[b])
             PROVE  [b \in Blocks |-> View(b)] \in existed
  BY DEF RestoredStateExisted
<1>1. PICK k \in Nat : \A b \in Blocks : Before(tt_hist[b], tt_ts) = Upto(tt_hist[b], k)
  BY TimeIsCut
<1>2. ASSUME NEW b \in Blocks PROVE View(b) = After(tt_hist[b], k)
  <2> DEFINE h == tt_hist[b]
  <2>1. h \in Seq(Entry) /\ AllOk(h) /\ Before(h, tt_ts) = Upto(h, k)
    BY <1>1 DEF TTInv, IndexRead, Histories
  <2>2. StateAt(h, tt_ts).ok => View(b) = StateAt(h, tt_ts).data
    BY ViewsAreRight DEF ViewCorrect
  <2> HIDE DEF h
  <2>3. CASE Before(h, tt_ts) = {}
    <3>1. StateAt(h, tt_ts).ok /\ StateAt(h, tt_ts).data = ZeroBlock /\ After(h, k) = ZeroBlock
      BY <2>1, <2>3 DEF StateAt, After
    <3> QED  BY <2>2, <3>1 DEF h
  <2>4. CASE Before(h, tt_ts) # {}
    <3> DEFINE c == CHOOSE i \in Upto(h, k) : \A j \in Upto(h, k) : j <= i
    <3>1. Upto(h, k) \subseteq 0..Len(h) /\ Len(h) \in Nat
      BY <2>1 DEF Upto
    <3>2. c \in Upto(h, k) /\ \A j \in Upto(h, k) : j <= c
      <4>1. \E i \in Upto(h, k) : \A j \in Upto(h, k) : j <= i
        BY <2>1, <2>4, <3>1, GreatestNat
      <4> QED  BY <4>1
    <3>3. After(h, k) = h[c].data
      BY <2>1, <2>4 DEF After
    <3> HIDE DEF c
    <3>4. StateAt(h, tt_ts).ok = h[c].ok /\ StateAt(h, tt_ts).data = h[c].data
      BY <2>1, <3>2, StateAtIs
    <3>5. h[c].ok
      BY <2>1, <3>2 DEF AllOk, Upto
    <3> QED  BY <2>2, <3>3, <3>4, <3>5 DEF h
  <2> QED  BY <2>3, <2>4
<1>3. [b \in Blocks |-> View(b)] = Past(tt_hist, k)
  BY <1>2 DEF Past
<1>4. CutsExisted(tt_hist)
  BY DEF ExistInv
<1> QED  BY <1>3, <1>4 DEF CutsExisted

LEMMA InitExist == TTInit => TimesInv /\ ExistInv
<1> SUFFICES ASSUME TTInit PROVE TimesInv /\ ExistInv
  OBVIOUS
<1>1. /\ hist = [b \in Blocks |-> <<>>] /\ disk_hist = [b \in Blocks |-> <<>>]
      /\ tt_hist = [b \in Blocks |-> <<>>] /\ pc = "closed" /\ existed = {StateOf(hist)}
      /\ requests = 0
  BY DEF TTInit, Init
<1>2. Written(hist) = {} /\ Written(disk_hist) = {} /\ Written(tt_hist) = {}
  BY <1>1 DEF Written
<1>3. TimesInv
  BY <1>1, <1>2 DEF TimesInv, InOrder
<1>4. \A k \in Nat : Past(hist, k) = StateOf(hist)
  BY <1>1 DEF Past, StateOf, After, Upto, Current
<1> QED  BY <1>1, <1>3, <1>4 DEF ExistInv, CutsExisted

\* As long as nobody sets the clock back: what a device restores from an index
\* that was not cut in two is a state that the disk was really in between two
\* requests of the guest, with all earlier requests and with nothing half done.
THEOREM RestoredStatesExisted ==
  ASSUME ClockStepsBack = FALSE PROVE TTSpec => []RestoredStateExisted
<1> DEFINE I == IInv /\ HistInv /\ TTInv
           J == TimesInv /\ ExistInv
<1>1. TTInit => J
  BY InitExist
<1>2. I /\ I' /\ J /\ [TTNext]_all_vars => J'
  BY NextTimes, NextExist
<1>3. I /\ J => RestoredStateExisted
  BY RestoredIs
<1>4. TTSpec => []I
  BY DeviceInvariant
<1> HIDE DEF I, J
<1> QED  BY <1>1, <1>2, <1>3, <1>4, PTL DEF TTSpec
=============================================================================

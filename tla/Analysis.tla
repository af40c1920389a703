------------------------------ MODULE Analysis ------------------------------
(***************************************************************************)
(* The analysis of a preserved disk (tests/*.java): the chains of a closed *)
(* image are exported to a SequenceFile, the sectors of every version are  *)
(* hashed into a HashDB, which may be sampled, and a file is looked for in *)
(* it.                                                                     *)
(*                                                                         *)
(* Data is counted in cells of 16 bytes as in BufferedIO.  The jobs run on *)
(* Hadoop, of which this is modelled: a map task gets the records of its   *)
(* split one after the other in the same BytesWritable, whose array keeps, *)
(* behind the record, what longer records left there.                      *)
(***************************************************************************)
EXTENDS Naturals, Sequences, FiniteSets

CONSTANTS NumBlocks,      \* disk_size / block_size
          BlockCells,     \* blockSize
          SectorCells,    \* sectorSize of hashIndex and hashSearch
          CountedSector,  \* sectorSize of ByteControl
          Contents,       \* what versions of a block may contain
          Uniform,        \* the contents of a cell that repeat one byte
          Files,          \* files to search for, as sequences of sectors
          MaxRecords,     \* bound: records in the image
          MaxTime         \* bound: seconds of the clock

Blocks == 0..(NumBlocks - 1)
CellNumbers == 0..(BlockCells - 1)
SectorRange == 0..(SectorCells - 1)
Zeros == [c \in CellNumbers |-> 0]

ASSUME AnalysisAssumption ==
  /\ NumBlocks \in Nat \ {0} /\ BlockCells \in Nat \ {0} /\ SectorCells \in 1..BlockCells
  /\ BlockCells % SectorCells = 0 /\ CountedSector \in Nat \ {0}
  /\ MaxRecords \in Nat /\ MaxTime \in Nat
  /\ \A d \in Contents : d = [c \in CellNumbers |-> d[c]]
  /\ 0 \in Uniform

VARIABLES
  log, index_table,        \* the image: offset -> record, newest record of each block.  "of", the
                           \* block of a record, is not in its header: only its chain tells
  pc,
  i, offset,               \* the block and the position on its chain in convertTo...
  seq,                     \* the SequenceFile: [ts, block, size, data]
  ts_min, ts_max, stamped, \* sec_min, sec_max; stamped: they are no longer 0
  entry, value,            \* hashIndex: entries mapped so far, array of the BytesWritable
  db,                      \* the HashDB: [keys, line]
  kept,                    \* the entries of db that sampling kept
  option,                  \* the sampling rate given: "none", "part" or "all"
  file, results            \* the file searched for, the lines found

image == <<log, index_table>>
export == <<i, offset, seq, ts_min, ts_max, stamped>>
vars == <<image, pc, export, entry, value, db, kept, option, file, results>>

-----------------------------------------------------------------------------
(* An image that Preservation may leave: records of growing time, linked per
   block, of which the first is not zero. *)

Writes == [block : Blocks, ts : 1..MaxTime, data : Contents]

\* The last of the first n writes ws that is on block b, or 0.
LastOn(ws, n, b) ==
  LET S == {k \in 1..n : ws[k].block = b} IN
  IF S = {} THEN 0 ELSE CHOOSE k \in S : \A j \in S : j <= k

Images ==
  {ws \in UNION {[1..n -> Writes] : n \in 0..MaxRecords} :
     \A k \in DOMAIN ws :
       /\ k > 1 => ws[k - 1].ts <= ws[k].ts
       /\ LastOn(ws, k - 1, ws[k].block) = 0 => ws[k].data # Zeros
       /\ LastOn(ws, k - 1, ws[k].block) # 0 =>
            ws[LastOn(ws, k - 1, ws[k].block)].ts < ws[k].ts}

\* get_actual_data_size, in cells.
ActualSize(data) ==
  IF data = Zeros THEN 0
  ELSE 1 + CHOOSE c \in CellNumbers : data[c] # 0 /\ \A d \in CellNumbers : d > c => data[d] = 0

Init ==
  /\ \E ws \in Images :
       /\ log = [k \in DOMAIN ws |->
                  [of |-> ws[k].block, ts |-> ws[k].ts, next |-> LastOn(ws, k - 1, ws[k].block),
                   size |-> ActualSize(ws[k].data), data |-> ws[k].data]]
       /\ index_table = [b \in Blocks |-> LastOn(ws, Len(ws), b)]
  /\ pc = "export"
  /\ i = 0 /\ offset = 0 /\ seq = <<>>
  /\ ts_min = 0 /\ ts_max = 0 /\ stamped = FALSE
  /\ entry = 0 /\ value = Zeros /\ db = <<>>
  /\ kept = {} /\ option = "none"
  /\ file = <<>> /\ results = {}

-----------------------------------------------------------------------------
(* convertToSequenceFileFromLdLocal *)

\* getNumOfRecord counts the chain, but nobody asks for more than this.
HasRecord(b) == index_table[b] # 0

\* getRecord(b, 0): where the newest record of b is.
NewestOf(b) == index_table[b]

\* getRecordSequence, getHeader and the append: the record at o, with the number of
\* its block where the offset of the next record was.
Exported(o) == [ts |-> log[o].ts, block |-> i, size |-> log[o].size, data |-> log[o].data]

\* getNextOffset of record o.
NextOffset(o) == log[o].next

\* Whether time t is later than all seen.  Variant: the wrong way round.
Earlier(t) == ts_max > t
Later(t) == ts_max < t

\* The first record of a block, with its time.
ExportNewest ==
  /\ pc = "export" /\ i < NumBlocks
  /\ HasRecord(i)
  /\ LET o == NewestOf(i)
         t == log[o].ts
     IN  /\ seq' = Append(seq, Exported(o))
         /\ offset' = NextOffset(o)
         /\ ts_min' = IF ~stamped \/ ts_min > t THEN t ELSE ts_min
         /\ ts_max' = IF ~stamped \/ Later(t) THEN t ELSE ts_max
         /\ stamped' = TRUE
  /\ pc' = "chain"
  /\ UNCHANGED <<image, i, entry, value, db, kept, option, file, results>>

NoRecord ==
  /\ pc = "export" /\ i < NumBlocks
  /\ ~HasRecord(i)
  /\ pc' = "chain"
  /\ UNCHANGED <<image, i, offset, seq, ts_min, ts_max, stamped, entry, value, db,
                 kept, option, file, results>>

\* Whether a record is followed by an older one.
\* Variant: the last record of the chain is left out.
MoreButLast == offset # 0 /\ log[offset].next # 0
More == offset # 0

ExportChain ==
  /\ pc = "chain"
  /\ IF More
     THEN /\ seq' = Append(seq, Exported(offset))
          /\ offset' = NextOffset(offset)
          /\ UNCHANGED <<pc, i>>
     ELSE /\ i' = i + 1
          /\ pc' = "export"
          /\ UNCHANGED <<seq, offset>>
  /\ UNCHANGED <<image, ts_min, ts_max, stamped, entry, value, db, kept, option, file, results>>

EndExport ==
  /\ pc = "export" /\ i = NumBlocks
  /\ pc' = "index"
  /\ UNCHANGED <<image, export, entry, value, db, kept, option, file, results>>

-----------------------------------------------------------------------------
(* hashIndex *)

\* MD5, on which no two sectors of an image are taken to collide.
Hash(sector) == [md5 |-> sector]

\* The s-th sector of a block.
SectorOf(block, s) == [c \in SectorRange |-> block[(s - 1) * SectorCells + c]]

IsUniform(sector) ==
  sector[0] \in Uniform /\ \A c \in SectorRange : sector[c] = sector[0]

\* getMinSectorNum
SecNum(size) ==
  IF size > 7 * CountedSector THEN 8
  ELSE CHOOSE n \in 1..7 : size <= n * CountedSector /\ \A m \in 1..(n - 1) : size > m * CountedSector

\* The array of the BytesWritable once it received record e: fresh at the
\* beginning of a split.
Received(e, array) == [c \in CellNumbers |-> IF c < e.size THEN e.data[c] ELSE array[c]]

\* The test of the last sector that was hashed.  Variant: its two
\* branches swapped.
SkippedUnlessUniform(sector) == ~IsUniform(sector)
Skipped(sector) == IsUniform(sector)

\* What ByteControl finds in the header of record e.
Line(e) == [ts |-> e.ts, block |-> e.block, size |-> e.size]

\* The map() of the next record, whose result the reducer passes on.
IndexRecord ==
  /\ pc = "index" /\ entry < Len(seq)
  /\ LET e == seq[entry + 1] IN
     \E array \in {value, Zeros} :
       LET block == Received(e, array) IN
       /\ value' = block
       /\ db' = IF Skipped(SectorOf(block, SecNum(e.size))) THEN db
                ELSE Append(db, [keys |-> [s \in 1..SecNum(e.size) |-> Hash(SectorOf(block, s))],
                                 line |-> Line(e)])
  /\ entry' = entry + 1
  /\ UNCHANGED <<image, pc, export, kept, option, file, results>>

EndIndex ==
  /\ pc = "index" /\ entry = Len(seq)
  /\ pc' = "sample"
  /\ kept' = DOMAIN db
  /\ UNCHANGED <<image, export, entry, value, db, option, file, results>>

-----------------------------------------------------------------------------
(* samplingIndex: a record is kept if nextDouble() <= SamplingRate, and
   nextDouble() is at least 0 and less than 1. *)

\* The rate, in terms of what it keeps: without the option it is 0.0 (and not the
\* 1.0 of the comment on args[2]), and only a drawn 0.0 is not above that.
Sampled(opt) == IF opt = "all" THEN {DOMAIN db} ELSE SUBSET DOMAIN db

Sample(opt) ==
  /\ pc = "sample"
  /\ pc' = "search"
  /\ option' = opt
  /\ kept' \in Sampled(opt)
  /\ UNCHANGED <<image, export, entry, value, db, file, results>>

\* The HashDB may be searched as it is.
SkipSampling ==
  /\ pc = "sample"
  /\ pc' = "search"
  /\ option' = "all"
  /\ UNCHANGED <<image, export, entry, value, db, kept, file, results>>

-----------------------------------------------------------------------------
(* hashSearch *)

\* The hashes of the file's sectors, but for uniform ones.
HashList(f) == {Hash(f[s]) : s \in {t \in DOMAIN f : ~IsUniform(f[t])}}

\* What map() writes of entry e: its line if one of its hashes is wanted,
\* otherwise an empty text.
EmptyLine == [ts |-> 0, block |-> 0, size |-> 0]
Found(e, list) == \E s \in 1..SecNum(e.line.size) : e.keys[s] \in list
Output(e, list) == IF Found(e, list) THEN e.line ELSE EmptyLine

Search(f) ==
  /\ pc = "search"
  /\ pc' = "done"
  /\ file' = f
  /\ results' = IF HashList(f) = {} THEN {} ELSE {Output(db[k], HashList(f)) : k \in kept}
  /\ UNCHANGED <<image, export, entry, value, db, kept, option>>

\* Another search, perhaps of another sample.
Again ==
  /\ pc = "done"
  /\ pc' = "sample"
  /\ kept' = DOMAIN db
  /\ file' = <<>> /\ results' = {}
  /\ UNCHANGED <<image, export, entry, value, db, option>>

-----------------------------------------------------------------------------
Next ==
  \/ ExportNewest \/ NoRecord \/ ExportChain \/ EndExport
  \/ IndexRecord \/ EndIndex
  \/ \E opt \in {"none", "part", "all"} : Sample(opt)
  \/ SkipSampling
  \/ \E f \in Files : Search(f)
  \/ Again

Spec == Init /\ [][Next]_vars
-----------------------------------------------------------------------------
TypeOK ==
  /\ pc \in {"export", "chain", "index", "sample", "search", "done"}
  /\ i \in 0..NumBlocks
  /\ offset \in {0} \cup DOMAIN log
  /\ ts_min \in 0..MaxTime /\ ts_max \in 0..MaxTime /\ stamped \in BOOLEAN
  /\ Len(seq) <= Cardinality(DOMAIN log) /\ Len(db) <= Len(seq)
  /\ entry \in 0..Len(seq)
  /\ DOMAIN value = CellNumbers
  /\ kept \subseteq DOMAIN db

Exporting == pc \in {"export", "chain"}

\* Entry e is record o of the image, under the block that o was written to.
VersionAt(o, e) ==
  e.block = log[o].of /\ e.ts = log[o].ts /\ e.size = log[o].size /\ e.data = log[o].data

\* The export contains every record of the image exactly once, under the block it was written to,
\* the newest of a block first (convertToSequenceFileFromLdLocal.java:67-115).
ExportExact ==
  /\ TypeOK
  /\ ~Exporting =>
    /\ Len(seq) = Cardinality(DOMAIN log)
    /\ \A o \in DOMAIN log : \E k \in DOMAIN seq : VersionAt(o, seq[k])
    /\ \A j, k \in DOMAIN seq : j < k =>
         \/ seq[j].block < seq[k].block
         \/ seq[j].block = seq[k].block /\ seq[j].ts > seq[k].ts

Times == {log[o].ts : o \in DOMAIN log}

\* The newest time that the export prints is that of the newest record: it
\* suffices to look at the first record of each chain.
NewestPrinted ==
  ~Exporting => \A t \in Times : t <= ts_max /\ ts_max \in Times

FirstSector(data) == SectorOf(data, 1)
FirstStored(r) == r.size >= SectorCells
Wanted(sector) == ~IsUniform(sector) /\ Hash(sector) \in HashList(file)

Done == pc = "done" /\ option = "all"

\* Of the versions that fill their first sector, an unsampled search reports
\* exactly those whose first sector is one of the file's and not uniform.
SearchRight ==
  Done => \A k \in DOMAIN seq : FirstStored(seq[k]) =>
    (Line(seq[k]) \in results <=> Wanted(FirstSector(seq[k].data)))

\* "key is a sequence of hash values" (hashIndex.java:62), one of each sector,
\* by which hashSearch "searches a file" (README.md:400): every version that
\* contains a sector of the file is reported.
SectorsFound ==
  Done => \A k \in DOMAIN seq :
    (\E s \in 1..(BlockCells \div SectorCells) : Wanted(SectorOf(seq[k].data, s)))
      => Line(seq[k]) \in results

\* What is hashed of a version is the version and nothing of an earlier one:
\* "deltes previous data" (hashIndex.java:54).
KeysOfVersion ==
  \A k \in DOMAIN db : \E o \in DOMAIN log :
    db[k].line.ts = log[o].ts /\ db[k].line.size = log[o].size
      /\ db[k].keys[1] = Hash(FirstSector(log[o].data))
=============================================================================

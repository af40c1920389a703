---------------------------- MODULE AnalysisProofs ----------------------------
(* The theorems about the analysis of a preserved disk, for any image: the
   export loses and repeats no version, and a search finds what the first
   sectors of the versions are. *)
EXTENDS Analysis, FiniteSetTheorems, WellFoundedInduction, TLAPS

\* The image is one of ws; o is a record of it.
ImageOf(ws) ==
  /\ log = [k \in DOMAIN ws |->
              [of |-> ws[k].block, ts |-> ws[k].ts,
               next |-> LastOn(ws, k - 1, ws[k].block),
               size |-> ActualSize(ws[k].data), data |-> ws[k].data]]
  /\ index_table = [b \in Blocks |-> LastOn(ws, Len(ws), b)]
Entry(ws, o) ==
  [ts |-> ws[o].ts, block |-> ws[o].block, size |-> ActualSize(ws[o].data), data |-> ws[o].data]

\* The records that are exported, and the blocks on which the export is or was.
Past(ws) == {o \in DOMAIN ws : ws[o].block < i \/ (ws[o].block = i /\ pc = "chain" /\ o > offset)}
Begun(ws) == {o \in DOMAIN ws : ws[o].block < i \/ (ws[o].block = i /\ pc = "chain")}

Entries == [ts : 1..MaxTime, block : Blocks, size : 0..BlockCells, data : Contents]
After(e, f) == e.block < f.block \/ (e.block = f.block /\ e.ts > f.ts)

\* The export so far is what is past, in order; what the chain still has is older.
SeqInv(ws) ==
  /\ seq \in Seq(Entries)
  /\ \A k \in DOMAIN seq : \E o \in Past(ws) : seq[k] = Entry(ws, o)
  /\ \A o \in Past(ws) : \E k \in DOMAIN seq : seq[k] = Entry(ws, o)
  /\ \A j, k \in DOMAIN seq : j < k => After(seq[j], seq[k])

ChainInv(ws) ==
  /\ i \in 0..NumBlocks
  /\ pc = "chain" => i < NumBlocks
  /\ ~Exporting => i = NumBlocks
  /\ offset = 0 \/ (pc = "chain" /\ offset \in DOMAIN ws /\ ws[offset].block = i)

\* ts_max is the time of the newest record of the blocks begun.
TimesInv(ws) ==
  /\ ts_min \in 0..MaxTime /\ ts_max \in 0..MaxTime /\ stamped \in BOOLEAN
  /\ stamped <=> Begun(ws) # {}
  /\ stamped => \E o \in Begun(ws) : ts_max = ws[o].ts
  /\ \A o \in Begun(ws) : ws[o].ts <= ts_max

ExportInv == \E ws \in Images : ImageOf(ws) /\ SeqInv(ws) /\ ChainInv(ws) /\ TimesInv(ws)

\* The jobs after it.
Elements(s) == {s[k] : k \in DOMAIN s}
JobsInv ==
  /\ pc \in {"export", "chain", "index", "sample", "search", "done"}
  /\ entry \in 0..Len(seq) /\ DOMAIN value = CellNumbers
  /\ Exporting => entry = 0
  /\ pc \in {"sample", "search", "done"} => entry = Len(seq)
  /\ db \in Seq(Elements(db)) /\ Len(db) \in 0..entry
  /\ kept \subseteq DOMAIN db
  /\ pc = "sample" => kept = DOMAIN db
  /\ pc \in {"search", "done"} /\ option = "all" => kept = DOMAIN db

\* What the HashDB says of version e.
Describes(d, e) ==
  /\ d.line = Line(e)
  /\ DOMAIN d.keys = 1..1
  /\ FirstStored(e) => d.keys[1] = Hash(FirstSector(e.data)) /\ ~IsUniform(FirstSector(e.data))

KeysInv ==
  /\ \A k \in DOMAIN db : \E j \in 1..entry : Describes(db[k], seq[j])
  /\ \A j \in 1..entry : FirstStored(seq[j]) /\ ~IsUniform(FirstSector(seq[j].data))
       => \E k \in DOMAIN db : Describes(db[k], seq[j])
  /\ pc = "done" =>
       results = IF HashList(file) = {} THEN {} ELSE {Output(db[k], HashList(file)) : k \in kept}

IInv == ExportInv /\ JobsInv

-----------------------------------------------------------------------------
(* Natural numbers *)

\* Every set of naturals has a least element, and every bounded one a greatest.
LEMMA LeastNat ==
  ASSUME NEW S, S \subseteq Nat, S # {}
  PROVE  \E n \in S : \A m \in S : n <= m
<1> DEFINE R == OpToRel(<, Nat)
<1>1. \A x, y \in Nat : y < x => <<y, x>> \in R
  BY DEF OpToRel
<1>2. IsWellFoundedOn(R, Nat)
  BY NatLessThanWellFounded
<1> HIDE DEF R
<1>3. PICK n \in S : \A m \in S : ~(<<m, n>> \in R)
  BY <1>2, WFMin
<1>4. \A m \in S : ~(m < n) /\ m \in Nat /\ n \in Nat
  BY <1>1, <1>3
<1> QED  BY <1>4

LEMMA GreatestNat ==
  ASSUME NEW bound \in Nat, NEW S, S \subseteq 0..bound, S # {}
  PROVE  \E n \in S : \A m \in S : m <= n
<1> DEFINE T == {k \in Nat : \A m \in S : m <= k}
<1>1. bound \in T
  OBVIOUS
<1>2. PICK k \in T : \A j \in T : k <= j
  BY <1>1, LeastNat
<1>3. ASSUME k \notin S PROVE FALSE
  <2>1. PICK m \in S : TRUE
    OBVIOUS
  <2>2. k - 1 \in T
    BY <1>2, <1>3, <2>1
  <2> QED  BY <1>2, <2>2
<1> QED  BY <1>2, <1>3

LEMMA Bounds ==
  /\ NumBlocks \in Nat \ {0} /\ BlockCells \in Nat \ {0} /\ SectorCells \in 1..BlockCells
  /\ MaxRecords \in Nat /\ MaxTime \in Nat /\ CountedSector \in Nat \ {0} /\ 0 \in Uniform
BY AnalysisAssumption

-----------------------------------------------------------------------------
(* Images *)

\* What an image is, and the order of its records.
LEMMA ImageIsSeq ==
  ASSUME NEW ws \in Images
  PROVE  /\ Len(ws) \in Nat /\ DOMAIN ws = 1..Len(ws)
         /\ \A k \in DOMAIN ws : ws[k].block \in Blocks /\ ws[k].ts \in 1..MaxTime /\ ws[k].data \in Contents
<1>1. PICK n \in 0..MaxRecords : ws \in [1..n -> Writes]
  BY DEF Images
<1>2. MaxRecords \in Nat
  BY AnalysisAssumption
<1>3. ws \in Seq(Writes)
  BY <1>1, <1>2
<1>4. \A k \in DOMAIN ws : ws[k] \in Writes
  BY <1>1
<1>5. \A w \in Writes : w.block \in Blocks /\ w.ts \in 1..MaxTime /\ w.data \in Contents
  BY DEF Writes
<1>6. Len(ws) \in Nat /\ DOMAIN ws = 1..Len(ws)
  BY <1>3
<1> QED  BY <1>4, <1>5, <1>6

LEMMA ImageOrder ==
  ASSUME NEW ws \in Images, NEW k \in DOMAIN ws
  PROVE  /\ k > 1 => ws[k - 1].ts <= ws[k].ts
         /\ LastOn(ws, k - 1, ws[k].block) = 0 => ws[k].data # Zeros
         /\ LastOn(ws, k - 1, ws[k].block) # 0 => ws[LastOn(ws, k - 1, ws[k].block)].ts < ws[k].ts
BY DEF Images

LEMMA LastOnIsLast ==
  ASSUME NEW ws, NEW n \in Nat, NEW b
  PROVE  /\ LastOn(ws, n, b) \in 0..n
         /\ LastOn(ws, n, b) # 0 => ws[LastOn(ws, n, b)].block = b
         /\ \A j \in 1..n : ws[j].block = b => j <= LastOn(ws, n, b)
<1> DEFINE S == {k \in 1..n : ws[k].block = b}
<1>1. CASE S = {}
  BY <1>1 DEF LastOn
<1>2. CASE S # {}
  <2>1. \E k \in S : \A j \in S : j <= k
    <3>1. S \subseteq 0..n
      OBVIOUS
    <3> HIDE DEF S
    <3> QED  BY <1>2, <3>1, GreatestNat
  <2>2. LastOn(ws, n, b) = CHOOSE k \in S : \A j \in S : j <= k
    BY <1>2 DEF LastOn
  <2>3. LastOn(ws, n, b) \in S /\ \A j \in S : j <= LastOn(ws, n, b)
    BY <2>1, <2>2
  <2> QED  BY <2>3
<1> QED  BY <1>1, <1>2

\* Times never go back, and on one block they grow.
LEMMA TimesGrow ==
  ASSUME NEW ws \in Images, NEW j \in DOMAIN ws, NEW k \in DOMAIN ws, j <= k
  PROVE  ws[j].ts <= ws[k].ts
<1> SUFFICES ASSUME ~(ws[j].ts <= ws[k].ts) PROVE FALSE
  OBVIOUS
<1> DEFINE Bad == {m \in DOMAIN ws : j <= m /\ ~(ws[j].ts <= ws[m].ts)}
<1>0. DOMAIN ws = 1..Len(ws) /\ Len(ws) \in Nat /\ \A m \in DOMAIN ws : ws[m].ts \in Nat
  <2>1. MaxTime \in Nat
    BY AnalysisAssumption
  <2> QED  BY <2>1, ImageIsSeq
<1>1. PICK m \in Bad : \A l \in Bad : m <= l
  <2>1. k \in Bad /\ Bad \subseteq Nat
    BY <1>0
  <2> HIDE DEF Bad
  <2> QED  BY <2>1, LeastNat
<1>2. m > j /\ m - 1 \in DOMAIN ws /\ j <= m - 1
  BY <1>0, <1>1
<1>3. ws[m - 1].ts <= ws[m].ts
  <2>1. m \in DOMAIN ws /\ m > 1
    BY <1>0, <1>1, <1>2
  <2> QED  BY <2>1, ImageOrder
<1>4. m - 1 \in Bad
  BY <1>0, <1>1, <1>2, <1>3
<1> QED  BY <1>0, <1>1, <1>4

LEMMA VersionsGrow ==
  ASSUME NEW ws \in Images, NEW j \in DOMAIN ws, NEW k \in DOMAIN ws, j < k, ws[j].block = ws[k].block
  PROVE  ws[j].ts < ws[k].ts
<1>0. /\ DOMAIN ws = 1..Len(ws) /\ Len(ws) \in Nat /\ \A m \in DOMAIN ws : ws[m].ts \in Nat
      /\ j \in 1..(k - 1) /\ k - 1 \in Nat
  <2>1. MaxTime \in Nat
    BY AnalysisAssumption
  <2> QED  BY <2>1, ImageIsSeq
<1> DEFINE l == LastOn(ws, k - 1, ws[k].block)
<1>1. j <= l /\ l \in 0..(k - 1)
  BY <1>0, LastOnIsLast
<1>2. ws[l].ts < ws[k].ts
  <2>1. l # 0
    BY <1>0, <1>1
  <2>2. l # 0 => ws[l].ts < ws[k].ts
    BY ImageOrder
  <2> HIDE DEF l
  <2> QED  BY <2>1, <2>2
<1> HIDE DEF l
<1>3. l \in DOMAIN ws
  BY <1>0, <1>1
<1>4. ws[j].ts <= ws[l].ts
  BY <1>1, <1>3, TimesGrow
<1> QED  BY <1>0, <1>2, <1>3, <1>4

LEMMA ActualSizeFits == ASSUME NEW data \in Contents PROVE ActualSize(data) \in 0..BlockCells
<1>0. BlockCells \in Nat /\ BlockCells - 1 \in Nat /\ data = [c \in CellNumbers |-> data[c]]
  <2>1. BlockCells \in Nat \ {0}
    BY AnalysisAssumption
  <2>2. data = [c \in CellNumbers |-> data[c]]
    BY AnalysisAssumption
  <2> QED  BY <2>1, <2>2
<1> DEFINE S == {c \in CellNumbers : data[c] # 0}
           Last(c) == data[c] # 0 /\ \A d \in CellNumbers : d > c => data[d] = 0
<1>1. CASE data = Zeros
  BY <1>0, <1>1 DEF ActualSize
<1>2. CASE data # Zeros
  <2>1. S # {} /\ S \subseteq 0..(BlockCells - 1)
    BY <1>0, <1>2 DEF Zeros, CellNumbers
  <2>2. PICK c \in S : \A d \in S : d <= c
    <3> HIDE DEF S
    <3> QED  BY <1>0, <2>1, GreatestNat
  <2>3. \E e \in CellNumbers : Last(e)
    BY <1>0, <2>2 DEF CellNumbers
  <2>4. (CHOOSE e \in CellNumbers : Last(e)) \in CellNumbers
    <3> HIDE DEF Last
    <3> QED  BY <2>3
  <2>5. ActualSize(data) = 1 + CHOOSE e \in CellNumbers : Last(e)
    BY <1>2 DEF ActualSize
  <2> QED  BY <1>0, <2>4, <2>5 DEF CellNumbers
<1> QED  BY <1>1, <1>2

LEMMA EntriesTyped ==
  ASSUME NEW ws \in Images, NEW o \in DOMAIN ws
  PROVE  /\ Entry(ws, o) \in Entries
         /\ Entry(ws, o).block = ws[o].block /\ Entry(ws, o).ts = ws[o].ts
BY ImageIsSeq, ActualSizeFits DEF Entry, Entries

\* No two records give the same entry.
LEMMA EntriesDiffer ==
  ASSUME NEW ws \in Images, NEW o \in DOMAIN ws, NEW p \in DOMAIN ws, Entry(ws, o) = Entry(ws, p)
  PROVE  o = p
<1>1. ws[o].block = ws[p].block /\ ws[o].ts = ws[p].ts /\ ws[o].ts \in Nat /\ o \in Nat /\ p \in Nat
  <2>1. MaxTime \in Nat
    BY AnalysisAssumption
  <2> QED  BY <2>1, EntriesTyped, ImageIsSeq
<1>2. ~(o < p) /\ ~(p < o)
  BY <1>1, VersionsGrow
<1> QED  BY <1>1, <1>2

\* What getRecordSequence and getNextOffset find at record o of block i.
LEMMA RecordFacts ==
  ASSUME NEW ws \in Images, ImageOf(ws), NEW o \in DOMAIN ws, ws[o].block = i
  PROVE  /\ Exported(o) = Entry(ws, o) /\ log[o].ts = ws[o].ts
         /\ NextOffset(o) = LastOn(ws, o - 1, i)
BY DEF ImageOf, Exported, Entry, NextOffset

LEMMA IndexFacts ==
  ASSUME NEW ws \in Images, ImageOf(ws), NEW b \in Blocks
  PROVE  /\ NewestOf(b) \in {0} \cup DOMAIN ws
         /\ NewestOf(b) # 0 => ws[NewestOf(b)].block = b
         /\ \A o \in DOMAIN ws : ws[o].block = b => o <= NewestOf(b)
         /\ HasRecord(b) <=> NewestOf(b) # 0
<1>1. NewestOf(b) = LastOn(ws, Len(ws), b) /\ (HasRecord(b) <=> NewestOf(b) # 0)
  BY DEF NewestOf, HasRecord, ImageOf
<1>2. Len(ws) \in Nat /\ DOMAIN ws = 1..Len(ws)
  BY ImageIsSeq
<1> QED  BY <1>1, <1>2, LastOnIsLast

-----------------------------------------------------------------------------
(* The export *)

\* One more entry.
LEMMA OneMore ==
  ASSUME NEW ws \in Images, SeqInv(ws), NEW o \in DOMAIN ws, seq' = Append(seq, Entry(ws, o)),
         \A p \in Past(ws) : After(Entry(ws, p), Entry(ws, o)),
         Past(ws)' = Past(ws) \cup {o}
  PROVE  SeqInv(ws)'
<1>1. /\ seq \in Seq(Entries) /\ Entry(ws, o) \in Entries /\ Len(seq) \in Nat
      /\ DOMAIN seq = 1..Len(seq)
  BY EntriesTyped DEF SeqInv
<1>2. /\ seq' \in Seq(Entries) /\ DOMAIN seq' = 1..(Len(seq) + 1)
      /\ \A k \in 1..Len(seq) : seq'[k] = seq[k]
      /\ seq'[Len(seq) + 1] = Entry(ws, o)
  BY <1>1
<1>3. \A k \in DOMAIN seq' : \E p \in Past(ws)' : seq'[k] = Entry(ws, p)
  <2> TAKE k \in DOMAIN seq'
  <2>1. CASE k \in 1..Len(seq)
    <3>1. PICK p \in Past(ws) : seq[k] = Entry(ws, p)
      BY <1>1, <2>1 DEF SeqInv
    <3> QED  BY <1>2, <2>1, <3>1
  <2>2. CASE k = Len(seq) + 1
    BY <1>2, <2>2
  <2> QED  BY <1>1, <1>2, <2>1, <2>2
<1>4. \A p \in Past(ws)' : \E k \in DOMAIN seq' : seq'[k] = Entry(ws, p)
  <2> TAKE p \in Past(ws)'
  <2>1. CASE p \in Past(ws)
    <3>1. PICK k \in 1..Len(seq) : seq[k] = Entry(ws, p)
      BY <1>1, <2>1 DEF SeqInv
    <3>2. k \in DOMAIN seq' /\ seq'[k] = Entry(ws, p)
      BY <1>1, <1>2, <3>1
    <3> QED  BY <3>2
  <2>2. CASE p = o
    BY <1>1, <1>2, <2>2
  <2> QED  BY <2>1, <2>2
<1>5. ASSUME NEW j \in DOMAIN seq', NEW k \in DOMAIN seq', j < k PROVE After(seq'[j], seq'[k])
  <2>1. j \in 1..Len(seq) /\ seq'[j] = seq[j]
    BY <1>1, <1>2, <1>5
  <2>2. CASE k \in 1..Len(seq)
    BY <1>1, <1>2, <1>5, <2>1, <2>2 DEF SeqInv
  <2>3. CASE k = Len(seq) + 1
    <3>1. PICK p \in Past(ws) : seq[j] = Entry(ws, p)
      BY <1>1, <2>1 DEF SeqInv
    <3> QED  BY <1>2, <2>1, <2>3, <3>1
  <2> QED  BY <1>1, <1>2, <2>2, <2>3
<1> QED  BY <1>2, <1>3, <1>4, <1>5 DEF SeqInv

LEMMA SeqSame ==
  ASSUME NEW ws, SeqInv(ws), seq' = seq, Past(ws)' = Past(ws)
  PROVE  SeqInv(ws)'
BY DEF SeqInv

\* The newest record of block i has the largest time of the block.
LEMMA NewestStep ==
  ASSUME NEW ws \in Images, ImageOf(ws), SeqInv(ws), ChainInv(ws), TimesInv(ws), ExportNewest
  PROVE  ImageOf(ws)' /\ SeqInv(ws)' /\ ChainInv(ws)' /\ TimesInv(ws)'
<1>0. /\ NumBlocks \in Nat \ {0} /\ MaxTime \in Nat /\ DOMAIN ws = 1..Len(ws) /\ Len(ws) \in Nat
      /\ \A k \in DOMAIN ws : ws[k].block \in Blocks /\ ws[k].ts \in 1..MaxTime
  BY Bounds, ImageIsSeq
<1>1. /\ i \in 0..NumBlocks /\ i \in Blocks /\ i' = i /\ pc = "export" /\ pc' = "chain"
      /\ log' = log /\ index_table' = index_table
  BY <1>0 DEF ExportNewest, ChainInv, Blocks, image
<1>2. PICK o : o = NewestOf(i)
  OBVIOUS
<1>3. /\ o \in DOMAIN ws /\ ws[o].block = i
      /\ \A p \in DOMAIN ws : ws[p].block = i => p <= o
  <2>1. HasRecord(i)
    BY DEF ExportNewest
  <2> QED  BY <1>1, <1>2, <2>1, IndexFacts
<1>4. PICK n : n = LastOn(ws, o - 1, i)
  OBVIOUS
<1>5. /\ n \in 0..(o - 1) /\ (n # 0 => ws[n].block = i)
      /\ \A j \in 1..(o - 1) : ws[j].block = i => j <= n
  <2>1. o - 1 \in Nat
    BY <1>0, <1>3
  <2> QED  BY <1>4, <2>1, LastOnIsLast
<1>6. /\ seq' = Append(seq, Entry(ws, o)) /\ offset' = n
      /\ ts_min' = IF ~stamped \/ ts_min > ws[o].ts THEN ws[o].ts ELSE ts_min
      /\ ts_max' = IF ~stamped \/ ts_max < ws[o].ts THEN ws[o].ts ELSE ts_max
      /\ stamped' = TRUE
  <2>1. Exported(o) = Entry(ws, o) /\ log[o].ts = ws[o].ts /\ NextOffset(o) = n
    BY <1>3, <1>4, RecordFacts
  <2> QED  BY <1>2, <2>1 DEF ExportNewest, Later
<1>7. Past(ws)' = Past(ws) \cup {o}
  BY <1>0, <1>1, <1>3, <1>5, <1>6 DEF Past
<1>8. Begun(ws)' = Begun(ws) \cup {p \in DOMAIN ws : ws[p].block = i}
  BY <1>0, <1>1 DEF Begun
<1>9. ImageOf(ws)'
  BY <1>1 DEF ImageOf
<1>10. SeqInv(ws)'
  <2>1. \A p \in Past(ws) : After(Entry(ws, p), Entry(ws, o))
    BY <1>1, <1>3, EntriesTyped DEF Past, After
  <2> QED  BY <1>3, <1>6, <1>7, <2>1, OneMore
<1>11. ChainInv(ws)'
  BY <1>0, <1>1, <1>3, <1>5, <1>6 DEF ChainInv, Exporting, Blocks
<1>12. TimesInv(ws)'
  <2>1. /\ ts_min \in 0..MaxTime /\ ts_max \in 0..MaxTime /\ stamped \in BOOLEAN
        /\ stamped => \E p \in Begun(ws) : ts_max = ws[p].ts
        /\ (~stamped => Begun(ws) = {})
        /\ \A p \in Begun(ws) : ws[p].ts <= ts_max
    BY DEF TimesInv
  <2>2. ws[o].ts \in 1..MaxTime /\ o \in Begun(ws)'
    BY <1>0, <1>3, <1>8
  <2>3. \A p \in DOMAIN ws : ws[p].block = i => ws[p].ts <= ws[o].ts
    BY <1>3, TimesGrow
  <2>4. Begun(ws) \subseteq DOMAIN ws
    BY DEF Begun
  <2>5. CASE ~stamped \/ ts_max < ws[o].ts
    <3>1. ts_max' = ws[o].ts
      BY <1>6, <2>5
    <3>2. \A p \in Begun(ws)' : ws[p].ts <= ts_max'
      BY <1>0, <1>8, <2>1, <2>2, <2>3, <2>4, <2>5, <3>1
    <3>3. ts_min' \in 0..MaxTime /\ ts_max' \in 0..MaxTime
      BY <1>0, <1>6, <2>1, <2>2, <3>1
    <3> QED  BY <1>6, <2>2, <3>1, <3>2, <3>3 DEF TimesInv
  <2>6. CASE stamped /\ ~(ts_max < ws[o].ts)
    <3>1. ts_max' = ts_max
      BY <1>6, <2>6
    <3>2. \A p \in Begun(ws)' : ws[p].ts <= ts_max'
      BY <1>0, <1>8, <2>1, <2>2, <2>3, <2>4, <2>6, <3>1
    <3>3. ts_min' \in 0..MaxTime /\ ts_max' \in 0..MaxTime
      BY <1>0, <1>6, <2>1, <2>2, <3>1
    <3>4. \E p \in Begun(ws)' : ts_max' = ws[p].ts
      BY <1>8, <2>1, <2>6, <3>1
    <3> QED  BY <1>6, <2>2, <3>2, <3>3, <3>4 DEF TimesInv
  <2> QED  BY <2>5, <2>6
<1> QED  BY <1>9, <1>10, <1>11, <1>12

\* A step of the chain that appends nothing.
LEMMA QuietStep ==
  ASSUME NEW ws \in Images, ImageOf(ws), SeqInv(ws), TimesInv(ws),
         UNCHANGED <<image, seq, ts_min, ts_max, stamped>>,
         Past(ws)' = Past(ws), Begun(ws)' = Begun(ws)
  PROVE  ImageOf(ws)' /\ SeqInv(ws)' /\ TimesInv(ws)'
<1>1. ImageOf(ws)'
  BY DEF ImageOf, image
<1>2. SeqInv(ws)'
  BY SeqSame
<1>3. TimesInv(ws)'
  BY DEF TimesInv
<1> QED  BY <1>1, <1>2, <1>3

\* A block without records.
LEMMA NoRecordStep ==
  ASSUME NEW ws \in Images, ImageOf(ws), SeqInv(ws), ChainInv(ws), TimesInv(ws), NoRecord
  PROVE  ImageOf(ws)' /\ SeqInv(ws)' /\ ChainInv(ws)' /\ TimesInv(ws)'
<1>0. /\ NumBlocks \in Nat \ {0} /\ DOMAIN ws = 1..Len(ws) /\ Len(ws) \in Nat
  BY Bounds, ImageIsSeq
<1>1. /\ i \in 0..NumBlocks /\ i \in Blocks /\ i' = i /\ pc = "export" /\ pc' = "chain"
      /\ offset = 0 /\ offset' = 0 /\ UNCHANGED <<image, seq, ts_min, ts_max, stamped>>
  BY <1>0 DEF NoRecord, ChainInv, Blocks
<1>2. \A p \in DOMAIN ws : ws[p].block # i
  BY <1>0, <1>1, IndexFacts DEF NoRecord
<1>3. Past(ws)' = Past(ws) /\ Begun(ws)' = Begun(ws)
  BY <1>1, <1>2 DEF Past, Begun
<1>4. ChainInv(ws)'
  BY <1>0, <1>1 DEF ChainInv, Exporting, Blocks
<1> QED  BY <1>1, <1>3, <1>4, QuietStep

\* The record that the chain leads to is older than all of its block that are past.
LEMMA ChainStep ==
  ASSUME NEW ws \in Images, ImageOf(ws), SeqInv(ws), ChainInv(ws), TimesInv(ws), ExportChain
  PROVE  ImageOf(ws)' /\ SeqInv(ws)' /\ ChainInv(ws)' /\ TimesInv(ws)'
<1>0. /\ NumBlocks \in Nat \ {0} /\ DOMAIN ws = 1..Len(ws) /\ Len(ws) \in Nat
      /\ \A k \in DOMAIN ws : ws[k].block \in Blocks /\ ws[k].ts \in 1..MaxTime /\ ws[k].ts \in Nat
  BY Bounds, ImageIsSeq
<1>1. /\ i \in Blocks /\ pc = "chain" /\ UNCHANGED <<image, ts_min, ts_max, stamped>>
      /\ offset = 0 \/ (offset \in DOMAIN ws /\ ws[offset].block = i)
  BY <1>0 DEF ExportChain, ChainInv, Blocks
<1>2. CASE More
  <2>1. /\ seq' = Append(seq, Exported(offset)) /\ offset' = NextOffset(offset)
        /\ pc' = "chain" /\ i' = i
    BY <1>1, <1>2 DEF ExportChain
  <2>2. PICK o : o = offset
    OBVIOUS
  <2>3. o \in DOMAIN ws /\ ws[o].block = i
    BY <1>1, <1>2, <2>2 DEF More
  <2>4. PICK n : n = LastOn(ws, o - 1, i)
    OBVIOUS
  <2>5. /\ n \in 0..(o - 1) /\ (n # 0 => ws[n].block = i)
        /\ \A j \in 1..(o - 1) : ws[j].block = i => j <= n
    <3>1. o - 1 \in Nat
      BY <1>0, <2>3
    <3> QED  BY <2>4, <3>1, LastOnIsLast
  <2>6. seq' = Append(seq, Entry(ws, o)) /\ offset' = n
    BY <2>1, <2>2, <2>3, <2>4, RecordFacts
  <2>7. Past(ws)' = Past(ws) \cup {o}
    BY <1>0, <1>1, <2>1, <2>2, <2>3, <2>5, <2>6 DEF Past
  <2>8. Begun(ws)' = Begun(ws)
    BY <1>1, <2>1 DEF Begun
  <2>9. \A p \in Past(ws) : After(Entry(ws, p), Entry(ws, o))
    <3> TAKE p \in Past(ws)
    <3>1. p \in DOMAIN ws /\ (ws[p].block < i \/ (ws[p].block = i /\ o < p))
      BY <1>0, <2>2, <2>3 DEF Past
    <3>2. ws[p].block = i /\ o < p => ws[o].ts < ws[p].ts
      BY <2>3, <3>1, VersionsGrow
    <3> QED  BY <1>0, <2>3, <3>1, <3>2, EntriesTyped DEF After
  <2>10. SeqInv(ws)'
    BY <2>3, <2>6, <2>7, <2>9, OneMore
  <2>11. ChainInv(ws)'
    BY <1>0, <1>1, <2>1, <2>3, <2>5, <2>6 DEF ChainInv, Exporting, Blocks
  <2>12. ImageOf(ws)' /\ TimesInv(ws)'
    BY <1>1, <2>8 DEF ImageOf, TimesInv, image
  <2> QED  BY <2>10, <2>11, <2>12
<1>3. CASE ~More
  <2>1. /\ i' = i + 1 /\ pc' = "export" /\ seq' = seq /\ offset' = offset /\ offset = 0
    BY <1>3 DEF ExportChain, More
  <2>2. Past(ws)' = Past(ws) /\ Begun(ws)' = Begun(ws)
    BY <1>0, <1>1, <2>1 DEF Past, Begun, Blocks
  <2>3. ChainInv(ws)'
    BY <1>0, <1>1, <2>1 DEF ChainInv, Exporting, Blocks
  <2> QED  BY <1>1, <2>1, <2>2, <2>3, QuietStep
<1> QED  BY <1>2, <1>3

\* The end of the export and everything after it.
LEMMA LaterStep ==
  ASSUME NEW ws \in Images, ImageOf(ws), SeqInv(ws), ChainInv(ws), TimesInv(ws),
         UNCHANGED <<image, export>>, i = NumBlocks, pc # "chain", pc' # "chain"
  PROVE  ImageOf(ws)' /\ SeqInv(ws)' /\ ChainInv(ws)' /\ TimesInv(ws)'
<1>1. UNCHANGED <<image, i, offset, seq, ts_min, ts_max, stamped>>
  BY DEF export
<1>2. Past(ws)' = Past(ws) /\ Begun(ws)' = Begun(ws)
  BY <1>1 DEF Past, Begun
<1>3. ChainInv(ws)'
  BY <1>1 DEF ChainInv, Exporting
<1> QED  BY <1>1, <1>2, <1>3, QuietStep

-----------------------------------------------------------------------------
(* The jobs after it *)

\* One more entry of the HashDB.
LEMMA AppendAny ==
  ASSUME NEW s, s \in Seq(Elements(s)), NEW x, NEW t, t = Append(s, x)
  PROVE  /\ Len(s) \in Nat /\ DOMAIN s = 1..Len(s)
         /\ t \in Seq(Elements(t))
         /\ Len(t) = Len(s) + 1 /\ DOMAIN t = 1..(Len(s) + 1)
         /\ \A k \in 1..Len(s) : t[k] = s[k]
         /\ t[Len(s) + 1] = x
<1> DEFINE S == Elements(s) \cup {x}
           T == Elements(t)
<1>1. s \in Seq(S) /\ x \in S /\ Len(s) \in Nat /\ DOMAIN s = 1..Len(s)
  OBVIOUS
<1>2. /\ t \in Seq(S) /\ Len(t) = Len(s) + 1 /\ DOMAIN t = 1..(Len(s) + 1)
      /\ \A k \in 1..Len(s) : t[k] = s[k]
      /\ t[Len(s) + 1] = x
  <2> HIDE DEF S
  <2> QED  BY <1>1
<1>3. t \in Seq(T)
  <2>1. \A k \in 1..Len(t) : t[k] \in T
    BY <1>2 DEF Elements
  <2> HIDE DEF S, T
  <2> QED  BY <1>2, <2>1
<1> QED  BY <1>1, <1>2, <1>3

LEMMA InitInvariant == Init => IInv
<1> SUFFICES ASSUME Init PROVE IInv
  OBVIOUS
<1>0. /\ i = 0 /\ offset = 0 /\ seq = <<>> /\ pc = "export" /\ entry = 0 /\ db = <<>> /\ kept = {}
      /\ ts_min = 0 /\ ts_max = 0 /\ stamped = FALSE /\ value = Zeros
  BY DEF Init
<1>1. PICK ws \in Images : ImageOf(ws)
  BY DEF Init, ImageOf
<1>2. Past(ws) = {} /\ Begun(ws) = {}
  BY <1>0, <1>1, Bounds, ImageIsSeq DEF Past, Begun, Blocks
<1>3. SeqInv(ws)
  BY <1>0, <1>2 DEF SeqInv
<1>4. ChainInv(ws)
  BY <1>0, Bounds DEF ChainInv, Exporting
<1>5. TimesInv(ws)
  <2>1. ts_min \in 0..MaxTime /\ ts_max \in 0..MaxTime
    BY <1>0, Bounds
  <2>2. stamped \in BOOLEAN /\ (stamped <=> Begun(ws) # {}) /\ ~stamped
    BY <1>0, <1>2, Zenon
  <2>3. \A o \in Begun(ws) : ws[o].ts <= ts_max
    BY <1>2
  <2> QED  BY <2>1, <2>2, <2>3 DEF TimesInv
<1>6. JobsInv
  <2>1. <<>> \in Seq(Elements(<<>>)) /\ Len(<<>>) = 0
    OBVIOUS
  <2> QED  BY <1>0, <2>1 DEF JobsInv, Zeros, Exporting
<1> QED  BY <1>1, <1>3, <1>4, <1>5, <1>6 DEF IInv, ExportInv

LEMMA SeqLength == ASSUME NEW ws, SeqInv(ws) PROVE Len(seq) \in Nat /\ DOMAIN seq = 1..Len(seq)
BY DEF SeqInv

\* The map() of hashIndex.
LEMMA IndexJobs ==
  ASSUME NEW ws, SeqInv(ws), JobsInv, IndexRecord
  PROVE  JobsInv'
<1>0. /\ Len(seq) \in Nat /\ pc = "index" /\ entry \in 0..Len(seq) /\ entry < Len(seq)
      /\ db \in Seq(Elements(db)) /\ Len(db) \in 0..entry /\ kept \subseteq DOMAIN db
  BY SeqLength DEF IndexRecord, JobsInv
<1>1. PICK array, d :
        /\ value' = Received(seq[entry + 1], array)
        /\ db' = db \/ db' = Append(db, d)
  BY DEF IndexRecord
<1>2. pc' = pc /\ entry' = entry + 1 /\ seq' = seq /\ kept' = kept /\ option' = option
  BY DEF IndexRecord, export
<1>3. db' \in Seq(Elements(db')) /\ Len(db') \in 0..(entry + 1) /\ DOMAIN db \subseteq DOMAIN db'
  <2>1. CASE db' = db
    BY <1>0, <2>1
  <2>2. CASE db' = Append(db, d)
    <3>1. PICK s, t : s = db /\ t = Append(db, d)
      OBVIOUS
    <3>2. s \in Seq(Elements(s)) /\ t = Append(s, d) /\ Len(s) \in 0..entry
      BY <1>0, <3>1
    <3>3. /\ DOMAIN s = 1..Len(s) /\ t \in Seq(Elements(t))
          /\ Len(t) = Len(s) + 1 /\ DOMAIN t = 1..(Len(s) + 1)
      BY <3>2, AppendAny
    <3>4. db' = t
      BY <2>2, <3>1
    <3> QED  BY <1>0, <3>1, <3>2, <3>3, <3>4
  <2> QED  BY <1>1, <2>1, <2>2
<1>4. DOMAIN value' = CellNumbers
  BY <1>1 DEF Received
<1> QED  BY <1>0, <1>2, <1>3, <1>4 DEF JobsInv, Exporting

\* What every step does to the jobs, given that the export stays well-formed.
LEMMA JobsStep ==
  ASSUME NEW ws, SeqInv(ws), NEW us, SeqInv(us)', JobsInv, [Next]_vars
  PROVE  JobsInv'
<1>0. Len(seq) \in Nat /\ DOMAIN seq = 1..Len(seq)
  BY SeqLength
<1>1. Len(seq') \in Nat
  BY DEF SeqInv
<1>2. CASE ExportNewest
  BY <1>1, <1>2 DEF ExportNewest, JobsInv, Exporting
<1>3. CASE NoRecord
  BY <1>3 DEF NoRecord, JobsInv, Exporting
<1>4. CASE ExportChain
  BY <1>1, <1>4 DEF ExportChain, JobsInv, Exporting
<1>5. CASE EndExport
  BY <1>5 DEF EndExport, JobsInv, Exporting, export
<1>6. CASE IndexRecord
  BY <1>6, IndexJobs
<1>7. CASE EndIndex
  BY <1>7 DEF EndIndex, JobsInv, Exporting, export
<1>8. ASSUME NEW opt \in {"none", "part", "all"}, Sample(opt) PROVE JobsInv'
  BY <1>8 DEF Sample, Sampled, JobsInv, Exporting, export
<1>9. CASE SkipSampling
  BY <1>9 DEF SkipSampling, JobsInv, Exporting, export
<1>10. ASSUME NEW f \in Files, Search(f) PROVE JobsInv'
  BY <1>10 DEF Search, JobsInv, Exporting, export
<1>11. CASE Again
  BY <1>11 DEF Again, JobsInv, Exporting, export
<1>12. CASE UNCHANGED vars
  BY <1>12 DEF vars, JobsInv, Exporting, export
<1> QED  BY <1>2, <1>3, <1>4, <1>5, <1>6, <1>7, <1>8, <1>9, <1>10, <1>11, <1>12 DEF Next

LEMMA ExportStep ==
  ASSUME NEW ws \in Images, ImageOf(ws), SeqInv(ws), ChainInv(ws), TimesInv(ws), [Next]_vars
  PROVE  ImageOf(ws)' /\ SeqInv(ws)' /\ ChainInv(ws)' /\ TimesInv(ws)'
<1>1. CASE EndExport
  BY <1>1, LaterStep DEF EndExport
<1>2. ASSUME \/ IndexRecord \/ EndIndex \/ SkipSampling \/ Again
             \/ \E opt \in {"none", "part", "all"} : Sample(opt)
             \/ \E f \in Files : Search(f)
      PROVE  ImageOf(ws)' /\ SeqInv(ws)' /\ ChainInv(ws)' /\ TimesInv(ws)'
  <2>1. UNCHANGED <<image, export>> /\ pc \notin {"export", "chain"} /\ pc' \notin {"export", "chain"}
    BY <1>2 DEF IndexRecord, EndIndex, SkipSampling, Again, Sample, Search
  <2>2. i = NumBlocks
    BY <2>1 DEF ChainInv, Exporting
  <2> QED  BY <2>1, <2>2, LaterStep
<1>3. CASE UNCHANGED vars
  <2>1. Past(ws)' = Past(ws) /\ Begun(ws)' = Begun(ws) /\ ChainInv(ws)'
    BY <1>3 DEF Past, Begun, ChainInv, Exporting, vars, export
  <2> QED  BY <1>3, <2>1, QuietStep DEF vars, export
<1> QED  BY <1>1, <1>2, <1>3, NewestStep, NoRecordStep, ChainStep DEF Next

\* The tool's loops over blocks and chains, and the jobs that follow: whatever the image,
\* the export so far is what is past, in order.
THEOREM Invariant == Spec => []IInv
<1>1. IInv /\ [Next]_vars => IInv'
  <2> SUFFICES ASSUME IInv, [Next]_vars PROVE IInv'
    OBVIOUS
  <2>1. PICK ws \in Images : ImageOf(ws) /\ SeqInv(ws) /\ ChainInv(ws) /\ TimesInv(ws)
    BY DEF IInv, ExportInv
  <2>2. ImageOf(ws)' /\ SeqInv(ws)' /\ ChainInv(ws)' /\ TimesInv(ws)'
    BY <2>1, ExportStep
  <2>3. JobsInv'
    BY <2>1, <2>2, JobsStep DEF IInv
  <2> QED  BY <2>2, <2>3 DEF IInv, ExportInv
<1> QED  BY <1>1, InitInvariant, PTL DEF Spec

-----------------------------------------------------------------------------
(* What is exported *)

\* There are as many entries as records past.
LEMMA AsManyAsPast ==
  ASSUME NEW ws \in Images, SeqInv(ws)
  PROVE  IsFiniteSet(Past(ws)) /\ Cardinality(Past(ws)) = Len(seq)
<1>0. /\ Len(seq) \in Nat /\ DOMAIN seq = 1..Len(seq) /\ Past(ws) \subseteq DOMAIN ws
      /\ \A k \in DOMAIN seq : \E o \in Past(ws) : seq[k] = Entry(ws, o)
      /\ \A o \in Past(ws) : \E k \in DOMAIN seq : seq[k] = Entry(ws, o)
      /\ \A j, k \in DOMAIN seq : j < k => After(seq[j], seq[k])
  BY SeqLength DEF SeqInv, Past
<1> DEFINE S == 1..Len(seq)
           f == [k \in S |-> CHOOSE o \in Past(ws) : seq[k] = Entry(ws, o)]
<1>1. \A k \in S : f[k] \in Past(ws) /\ seq[k] = Entry(ws, f[k])
  BY <1>0
<1>2. ASSUME NEW j \in S, NEW k \in S, f[j] = f[k] PROVE j = k
  <2>1. seq[j] = seq[k] /\ seq[j] \in Entries
    BY <1>1, <1>2 DEF SeqInv
  <2>2. \A e \in Entries : e.block \in Nat /\ e.ts \in Nat
    BY Bounds DEF Entries, Blocks
  <2>3. ~After(seq[j], seq[k]) /\ ~After(seq[k], seq[j])
    <3> HIDE DEF f
    <3>1. ~After(seq[j], seq[j])
      BY <2>1, <2>2 DEF After
    <3> QED  BY <2>1, <3>1
  <2>4. ~(j < k) /\ ~(k < j)
    BY <1>0, <2>3
  <2> QED  BY <1>0, <2>4
<1>3. \A o \in Past(ws) : \E k \in S : f[k] = o
  <2> TAKE o \in Past(ws)
  <2>1. PICK k \in S : seq[k] = Entry(ws, o)
    BY <1>0
  <2>2. f[k] \in DOMAIN ws /\ o \in DOMAIN ws /\ Entry(ws, f[k]) = Entry(ws, o)
    BY <1>0, <1>1, <2>1
  <2>3. f[k] = o
    BY <2>2, EntriesDiffer
  <2> QED  BY <2>3
<1>4. f \in Bijection(S, Past(ws))
  <2>1. f \in [S -> Past(ws)]
    BY <1>1
  <2> HIDE DEF f
  <2> QED  BY <1>2, <1>3, <2>1 DEF Bijection, Injection, Surjection, IsInjective
<1>5. IsFiniteSet(S) /\ Cardinality(S) = Len(seq)
  BY <1>0, FS_Interval
<1>6. ExistsBijection(S, Past(ws))
  BY <1>4 DEF ExistsBijection
<1> HIDE DEF S, f
<1> QED  BY <1>5, <1>6, FS_Bijection

\* The whole of convertToSequenceFileFromLdLocal: when it is done the export holds
\* every record of the image exactly once, block by block, newest first.
THEOREM ExportIsExact == Spec => []ExportExact
<1>1. IInv => ExportExact
  <2> SUFFICES ASSUME IInv PROVE ExportExact
    OBVIOUS
  <2>1. PICK ws \in Images : ImageOf(ws) /\ SeqInv(ws) /\ ChainInv(ws) /\ TimesInv(ws)
    BY DEF IInv, ExportInv
  <2>2. /\ Len(ws) \in Nat /\ DOMAIN ws = 1..Len(ws) /\ DOMAIN log = DOMAIN ws
        /\ \A k \in DOMAIN ws : ws[k].block \in Blocks
        /\ Past(ws) \subseteq DOMAIN ws
    BY <2>1, ImageIsSeq DEF ImageOf, Past
  <2>3. /\ IsFiniteSet(DOMAIN ws) /\ Cardinality(DOMAIN ws) = Len(ws)
        /\ Cardinality(Past(ws)) = Len(seq) /\ Cardinality(Past(ws)) <= Cardinality(DOMAIN ws)
    <3>1. IsFiniteSet(1..Len(ws)) /\ Cardinality(1..Len(ws)) = Len(ws)
      BY <2>2, FS_Interval
    <3>2. Cardinality(Past(ws)) <= Cardinality(DOMAIN ws)
      BY <2>2, <3>1, FS_Subset
    <3> QED  BY <2>1, <2>2, <3>1, <3>2, AsManyAsPast
  <2>4. TypeOK
    <3>1. Len(seq) <= Cardinality(DOMAIN log)
      BY <2>2, <2>3
    <3>2. Len(seq) \in Nat /\ Len(db) \in 0..entry /\ entry \in 0..Len(seq)
      BY <2>1, SeqLength DEF IInv, JobsInv
    <3>3. offset \in {0} \cup DOMAIN log /\ i \in 0..NumBlocks
      BY <2>1, <2>2 DEF ChainInv
    <3>4. Len(db) <= Len(seq)
      BY <3>2
    <3> QED  BY <2>1, <3>1, <3>2, <3>3, <3>4 DEF TypeOK, TimesInv, IInv, JobsInv
  <2>5. ASSUME ~Exporting
        PROVE  /\ Len(seq) = Cardinality(DOMAIN log)
               /\ \A o \in DOMAIN log : \E k \in DOMAIN seq : VersionAt(o, seq[k])
               /\ \A j, k \in DOMAIN seq : j < k =>
                    \/ seq[j].block < seq[k].block
                    \/ seq[j].block = seq[k].block /\ seq[j].ts > seq[k].ts
    <3>1. Past(ws) = DOMAIN ws
      BY <2>1, <2>2, <2>5, Bounds DEF Past, ChainInv, Blocks
    <3>2. ASSUME NEW o \in DOMAIN log PROVE \E k \in DOMAIN seq : VersionAt(o, seq[k])
      <4>1. PICK k \in DOMAIN seq : seq[k] = Entry(ws, o)
        BY <2>1, <2>2, <3>1 DEF SeqInv
      <4>2. /\ log[o].of = ws[o].block /\ log[o].ts = ws[o].ts /\ log[o].size = ActualSize(ws[o].data)
            /\ log[o].data = ws[o].data
        BY <2>1, <2>2 DEF ImageOf
      <4> QED  BY <4>1, <4>2 DEF VersionAt, Entry
    <3> QED  BY <2>1, <2>2, <2>3, <3>1, <3>2 DEF SeqInv, After
  <2> QED  BY <2>4, <2>5 DEF ExportExact
<1> QED  BY <1>1, Invariant, PTL

\* The sec_max that is printed is the newest time of the image, though only the first
\* record of each chain is compared with it.
THEOREM NewestIsPrinted == Spec => []NewestPrinted
<1>1. IInv => NewestPrinted
  <2> SUFFICES ASSUME IInv, ~Exporting PROVE \A t \in Times : t <= ts_max /\ ts_max \in Times
    BY DEF NewestPrinted
  <2>1. PICK ws \in Images : ImageOf(ws) /\ ChainInv(ws) /\ TimesInv(ws)
    BY DEF IInv, ExportInv
  <2>2. Begun(ws) = DOMAIN ws
    <3>1. i = NumBlocks /\ NumBlocks \in Nat
      BY <2>1, Bounds DEF ChainInv
    <3>2. \A k \in DOMAIN ws : ws[k].block \in 0..(NumBlocks - 1)
      BY <2>1, ImageIsSeq DEF Blocks
    <3> QED  BY <3>1, <3>2 DEF Begun
  <2>3. Times = {ws[o].ts : o \in DOMAIN ws}
    BY <2>1 DEF Times, ImageOf
  <2>4. \A o \in DOMAIN ws : ws[o].ts <= ts_max
    BY <2>1, <2>2 DEF TimesInv
  <2>5. DOMAIN ws # {} => \E o \in DOMAIN ws : ts_max = ws[o].ts
    BY <2>1, <2>2 DEF TimesInv
  <2> QED  BY <2>3, <2>4, <2>5
<1> QED  BY <1>1, Invariant, PTL

-----------------------------------------------------------------------------
(* What is found, when ByteControl counts a block as one sector *)

\* getMinSectorNum.
LEMMA OneSector ==
  ASSUME BlockCells <= CountedSector, NEW size \in 0..BlockCells
  PROVE  SecNum(size) = 1
<1> DEFINE P(n) == size <= n * CountedSector /\ \A m \in 1..(n - 1) : size > m * CountedSector
<1>1. size \in Nat /\ CountedSector \in Nat \ {0} /\ size <= CountedSector
  BY Bounds
<1>2. ~(size > 7 * CountedSector)
  BY <1>1
<1>3. P(1)
  BY <1>1
<1>4. ASSUME NEW n \in 1..7, P(n) PROVE n = 1
  <2> SUFFICES ASSUME n # 1 PROVE FALSE
    OBVIOUS
  <2>1. 1 \in 1..(n - 1) /\ 1 * CountedSector = CountedSector
    BY <1>1
  <2>2. size > 1 * CountedSector
    BY <1>4, <2>1
  <2> QED  BY <1>1, <2>1, <2>2
<1>5. (CHOOSE n \in 1..7 : P(n)) = 1
  <2> HIDE DEF P
  <2> QED  BY <1>3, <1>4
<1> QED  BY <1>2, <1>5 DEF SecNum

\* What is hashed of a version that fills its first sector is that sector.
LEMMA OwnSector ==
  ASSUME NEW e \in Entries, FirstStored(e), NEW array
  PROVE  SectorOf(Received(e, array), 1) = FirstSector(e.data)
<1>1. \A c \in SectorRange : (1 - 1) * SectorCells + c = c /\ c \in CellNumbers
  BY Bounds DEF SectorRange, CellNumbers
<1>2. \A c \in SectorRange : c < e.size
  BY Bounds DEF SectorRange, FirstStored, Entries
<1> QED  BY <1>1, <1>2 DEF SectorOf, Received, FirstSector

\* What the map() of hashIndex adds.
LEMMA IndexKeys ==
  ASSUME BlockCells <= CountedSector, NEW ws, SeqInv(ws), JobsInv, KeysInv, IndexRecord
  PROVE  KeysInv'
<1>0. /\ Len(seq) \in Nat /\ DOMAIN seq = 1..Len(seq) /\ pc = "index" /\ pc' = "index"
      /\ entry \in Nat /\ entry + 1 \in 1..Len(seq) /\ entry' = entry + 1 /\ seq' = seq
      /\ db \in Seq(Elements(db))
  BY SeqLength DEF IndexRecord, JobsInv, export
<1>1. PICK array, d, e, block :
        /\ e = seq[entry + 1] /\ block = Received(e, array)
        /\ d = [keys |-> [s \in 1..SecNum(e.size) |-> Hash(SectorOf(block, s))], line |-> Line(e)]
        /\ db' = IF Skipped(SectorOf(block, SecNum(e.size))) THEN db ELSE Append(db, d)
  BY DEF IndexRecord
<1>2. e \in Entries /\ SecNum(e.size) = 1
  <2>1. e \in Entries
    BY <1>0, <1>1 DEF SeqInv
  <2> QED  BY <2>1, OneSector DEF Entries
<1>3. FirstStored(e) => SectorOf(block, 1) = FirstSector(e.data)
  BY <1>1, <1>2, OwnSector
<1>4. \A k \in 1..entry : seq'[k] = seq[k]
  BY <1>0
<1>5. CASE Skipped(SectorOf(block, 1))
  <2>1. db' = db
    BY <1>1, <1>2, <1>5
  <2>2. ~(FirstStored(e) /\ ~IsUniform(FirstSector(e.data)))
    BY <1>3, <1>5 DEF Skipped
  <2>3. \A j \in 1..(entry + 1) : j \in 1..entry \/ j = entry + 1
    BY <1>0
  <2>4. 1..entry \subseteq 1..(entry + 1)
    BY <1>0
  <2> QED  BY <1>0, <1>1, <2>1, <2>2, <2>3, <2>4 DEF KeysInv
<1>6. CASE ~Skipped(SectorOf(block, 1))
  <2>1. PICK s, t : s = db /\ t = Append(db, d)
    OBVIOUS
  <2>2. s \in Seq(Elements(s)) /\ t = Append(s, d)
    BY <1>0, <2>1
  <2>3. /\ Len(s) \in Nat /\ DOMAIN s = 1..Len(s) /\ DOMAIN t = 1..(Len(s) + 1)
        /\ (\A k \in 1..Len(s) : t[k] = s[k]) /\ t[Len(s) + 1] = d
    BY <2>2, AppendAny
  <2>4. db' = t
    BY <1>1, <1>2, <1>6, <2>1
  <2>5. Describes(d, e)
    BY <1>1, <1>2, <1>3, <1>6 DEF Describes, Skipped
  <2>6. \A k \in DOMAIN t : \E j \in 1..(entry + 1) : Describes(t[k], seq[j])
    <3> TAKE k \in DOMAIN t
    <3>1. CASE k \in 1..Len(s)
      <4>1. PICK j \in 1..entry : Describes(s[k], seq[j])
        BY <2>1, <2>3, <3>1 DEF KeysInv
      <4> QED  BY <1>0, <2>3, <3>1, <4>1
    <3>2. CASE k = Len(s) + 1
      BY <1>0, <1>1, <2>3, <2>5, <3>2
    <3> QED  BY <2>3, <3>1, <3>2
  <2>7. ASSUME NEW j \in 1..(entry + 1), FirstStored(seq[j]), ~IsUniform(FirstSector(seq[j].data))
        PROVE  \E k \in DOMAIN t : Describes(t[k], seq[j])
    <3>1. CASE j \in 1..entry
      <4>1. PICK k \in 1..Len(s) : Describes(s[k], seq[j])
        BY <2>1, <2>3, <2>7, <3>1 DEF KeysInv
      <4> QED  BY <2>3, <4>1
    <3>2. CASE j = entry + 1
      BY <1>1, <2>3, <2>5, <3>2
    <3> QED  BY <1>0, <3>1, <3>2
  <2> QED  BY <1>0, <2>4, <2>6, <2>7 DEF KeysInv
<1> QED  BY <1>5, <1>6

LEMMA KeysStep ==
  ASSUME BlockCells <= CountedSector, NEW ws, SeqInv(ws), JobsInv, KeysInv, [Next]_vars
  PROVE  KeysInv'
<1>1. CASE IndexRecord
  BY <1>1, IndexKeys
<1>2. ASSUME ExportNewest \/ NoRecord \/ ExportChain PROVE KeysInv'
  <2>1. entry = 0 /\ entry' = 0 /\ db' = db /\ pc' # "done" /\ Len(db) \in 0..entry
        /\ db \in Seq(Elements(db))
    BY <1>2 DEF JobsInv, Exporting, ExportNewest, NoRecord, ExportChain
  <2>2. DOMAIN db' = {} /\ 1..entry' = {}
    BY <2>1
  <2> QED  BY <2>1, <2>2 DEF KeysInv
<1>3. ASSUME \/ EndExport \/ EndIndex \/ SkipSampling \/ Again \/ UNCHANGED vars
             \/ \E opt \in {"none", "part", "all"} : Sample(opt)
             \/ \E f \in Files : Search(f)
      PROVE  KeysInv'
  <2>1. UNCHANGED <<entry, db, seq>>
    BY <1>3 DEF EndExport, EndIndex, SkipSampling, Again, Sample, Search, export, vars
  <2>2. pc' = "done" =>
          results' = IF HashList(file') = {} THEN {}
                     ELSE {Output(db'[k], HashList(file')) : k \in kept'}
    BY <1>3 DEF EndExport, EndIndex, SkipSampling, Again, Sample, Search, export, vars, KeysInv
  <2> QED  BY <2>1, <2>2 DEF KeysInv
<1> QED  BY <1>1, <1>2, <1>3 DEF Next

\* A line tells which version it is of.
LEMMA LinesDiffer ==
  ASSUME IInv, NEW j \in DOMAIN seq, NEW k \in DOMAIN seq, Line(seq[j]) = Line(seq[k])
  PROVE  j = k
<1>1. PICK ws \in Images : SeqInv(ws)
  BY DEF IInv, ExportInv
<1>2. /\ Len(seq) \in Nat /\ DOMAIN seq = 1..Len(seq) /\ seq \in Seq(Entries)
      /\ \A l, m \in DOMAIN seq : l < m => After(seq[l], seq[m])
  BY <1>1, SeqLength DEF SeqInv
<1>3. \A e \in Entries : e.block \in Nat /\ e.ts \in Nat
  BY Bounds DEF Entries, Blocks
<1>4. seq[j].block = seq[k].block /\ seq[j].ts = seq[k].ts
  BY DEF Line
<1>5. seq[j] \in Entries
  BY <1>2
<1>6. ~(j < k) /\ ~(k < j)
  BY <1>2, <1>3, <1>4, <1>5 DEF After
<1> QED  BY <1>2, <1>6

\* One version looked for: what is reported is its line, and no other version
\* has the same.
LEMMA KeysAnswer ==
  ASSUME BlockCells <= CountedSector, IInv, KeysInv, Done,
         NEW k \in DOMAIN seq, FirstStored(seq[k])
  PROVE  Line(seq[k]) \in results <=> Wanted(FirstSector(seq[k].data))
<1> DEFINE list == HashList(file)
<1>1. /\ entry = Len(seq) /\ kept = DOMAIN db /\ DOMAIN seq = 1..entry /\ seq \in Seq(Entries)
      /\ results = IF list = {} THEN {} ELSE {Output(db[m], list) : m \in kept}
  <2>1. PICK ws \in Images : SeqInv(ws)
    BY DEF IInv, ExportInv
  <2> QED  BY <2>1, SeqLength DEF IInv, JobsInv, KeysInv, Done, SeqInv
<1>2. \A j \in DOMAIN seq : seq[j].size \in 0..BlockCells
  <2>1. \A j \in DOMAIN seq : seq[j] \in Entries
    BY <1>1
  <2> QED  BY <2>1 DEF Entries
<1>3. ASSUME NEW d, NEW j \in DOMAIN seq, Describes(d, seq[j])
      PROVE  Found(d, list) <=> d.keys[1] \in list
  <2>1. d.line.size = seq[j].size
    BY <1>3 DEF Describes, Line
  <2>2. SecNum(d.line.size) = 1
    BY <1>2, <2>1, OneSector
  <2>3. \A s \in 1..1 : s = 1
    OBVIOUS
  <2>4. 1 \in 1..1
    OBVIOUS
  <2> HIDE DEF list
  <2> QED  BY <2>2, <2>3, <2>4 DEF Found
<1> HIDE DEF list
<1>4. ASSUME Line(seq[k]) \in results PROVE Wanted(FirstSector(seq[k].data))
  <2>1. PICK m \in DOMAIN db : Line(seq[k]) = Output(db[m], list)
    BY <1>1, <1>4
  <2>2. PICK j \in DOMAIN seq : Describes(db[m], seq[j])
    BY <1>1, <2>1 DEF KeysInv
  <2>3. Line(seq[k]) # EmptyLine
    <3>1. seq[k].size # 0
      BY Bounds, <1>2 DEF FirstStored
    <3> QED  BY <3>1 DEF Line, EmptyLine
  <2>4. Found(db[m], list) /\ db[m].line = Line(seq[k])
    BY <2>1, <2>3 DEF Output
  <2>5. j = k
    BY <2>2, <2>4, LinesDiffer DEF Describes
  <2>6. db[m].keys[1] \in list
    BY <1>3, <2>2, <2>4
  <2> QED  BY <2>2, <2>5, <2>6 DEF Describes, Wanted, list
<1>5. ASSUME Wanted(FirstSector(seq[k].data)) PROVE Line(seq[k]) \in results
  <2>1. ~IsUniform(FirstSector(seq[k].data)) /\ Hash(FirstSector(seq[k].data)) \in list
    BY <1>5 DEF Wanted, list
  <2>2. PICK m \in DOMAIN db : Describes(db[m], seq[k])
    BY <1>1, <2>1 DEF KeysInv
  <2>3. Found(db[m], list) /\ db[m].line = Line(seq[k])
    BY <1>3, <2>1, <2>2 DEF Describes
  <2>4. Output(db[m], list) = Line(seq[k])
    BY <2>3 DEF Output
  <2>5. list # {}
    BY <2>1
  <2> QED  BY <1>1, <2>2, <2>4, <2>5
<1> QED  BY <1>4, <1>5

\* hashIndex and hashSearch together, with the 4096 bytes that ByteControl takes for
\* a sector not less than a block: whatever array a map task is given, and whatever
\* other versions it saw before, what is reported is decided by the first sector.
THEOREM SearchIsRight == BlockCells <= CountedSector => (Spec => []SearchRight)
<1> SUFFICES ASSUME BlockCells <= CountedSector PROVE Spec => []SearchRight
  OBVIOUS
<1>1. Init => KeysInv
  <2> SUFFICES ASSUME Init PROVE KeysInv
    OBVIOUS
  <2>1. entry = 0 /\ db = <<>> /\ pc = "export"
    BY DEF Init
  <2>2. 1..entry = {} /\ DOMAIN db = {}
    BY <2>1
  <2> QED  BY <2>1, <2>2 DEF KeysInv
<1>2. IInv /\ KeysInv /\ [Next]_vars => KeysInv'
  <2> SUFFICES ASSUME IInv, KeysInv, [Next]_vars PROVE KeysInv'
    OBVIOUS
  <2>1. PICK ws \in Images : SeqInv(ws)
    BY DEF IInv, ExportInv
  <2> QED  BY <2>1, KeysStep DEF IInv
<1>3. IInv /\ KeysInv => SearchRight
  BY KeysAnswer DEF SearchRight
<1> QED  BY <1>1, <1>2, <1>3, Invariant, PTL DEF Spec
===============================================================================

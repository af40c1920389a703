--------------------------- MODULE AioPoolProofs ---------------------------
(* That the pool of AioPool neither loses nor duplicates a slot or a request,
   for every size of the pool and every set of requests. *)
EXTENDS AioPool, FiniteSetTheorems, TLAPS

\* What is inductive: the invariants of AioPool, and that nothing is in
\* flight in a closed driver (block-aio.c:248-255 frees nothing).
PoolInv ==
  /\ TypeOK
  /\ SlotsAccounted
  /\ OneSlotPerRequest
  /\ ~open => queued = {} /\ completing = None

\* The stack has room for a slot that is not on it, so that tdaio_complete
\* never writes behind aio_free_list (block-aio.c:183): otherwise it would
\* hold MaxAioReqs different slots other than that one.
LEMMA RoomForSlot ==
  ASSUME TypeOK, SlotsAccounted, open, completing # None
  PROVE  aio_free_count < MaxAioReqs
<1> SUFFICES ASSUME aio_free_count = MaxAioReqs PROVE FALSE
  BY PoolAssumption DEF TypeOK
<1> DEFINE others == Slots \ {completing}
<1>1. IsFiniteSet(Slots) /\ Cardinality(Slots) = MaxAioReqs
  BY FS_Interval, PoolAssumption DEF Slots
<1>2. IsFiniteSet(Indices) /\ Cardinality(Indices) = MaxAioReqs
  <2>1. MaxAioReqs - 1 \in Int /\ ~(0 > MaxAioReqs - 1) /\ (MaxAioReqs - 1) - 0 + 1 = MaxAioReqs
    BY PoolAssumption
  <2> QED  BY <2>1, FS_Interval DEF Indices
<1>3. IsFiniteSet(others) /\ Cardinality(others) = MaxAioReqs - 1
  BY <1>1, FS_RemoveElement DEF TypeOK
<1>4. aio_free_list \in [Indices -> others]
  BY DEF TypeOK, SlotsAccounted, Free, Indices
<1>5. \E i, j \in Indices : i # j /\ aio_free_list[i] = aio_free_list[j]
  <2>1. Cardinality(others) < Cardinality(Indices)
    BY <1>2, <1>3, PoolAssumption
  <2> HIDE DEF others
  <2> QED  BY <1>2, <1>3, <1>4, <2>1, FS_PigeonHole
<1> QED  BY <1>5 DEF SlotsAccounted, Indices

LEMMA InitPool == Init => PoolInv
<1> SUFFICES ASSUME Init PROVE PoolInv
  OBVIOUS
<1>1. TypeOK
  <2>1. aio_free_list \in [Indices -> Slots] /\ aio_free_count \in 0..MaxAioReqs
    BY PoolAssumption DEF Init, Slots, Indices
  <2>2. treq \in [Slots -> Requests \cup {None}]
    BY DEF Init
  <2>3. result \in [Requests -> {"none", "busy", "ok", "error"}]
    BY DEF Init
  <2> QED  BY <2>1, <2>2, <2>3 DEF Init, TypeOK
<1>2. SlotsAccounted /\ (~open => queued = {} /\ completing = None)
  BY DEF Init, SlotsAccounted
<1>3. OneSlotPerRequest
  BY DEF Init, OneSlotPerRequest
<1> QED  BY <1>1, <1>2, <1>3 DEF PoolInv

LEMMA OpenPool == PoolInv /\ Open => PoolInv'
<1> SUFFICES ASSUME PoolInv, Open PROVE PoolInv'
  OBVIOUS
<1> USE PoolAssumption DEF Open, PoolInv, AllFree, Slots, Indices, None
<1>1. TypeOK'
  BY DEF TypeOK
<1>2. SlotsAccounted'
  <2>1. Slots \subseteq Free'
    <3> SUFFICES ASSUME NEW s \in Slots PROVE s \in Free'
      OBVIOUS
    <3>1. s - 1 \in 0..(aio_free_count' - 1) /\ aio_free_list'[s - 1] = s
      OBVIOUS
    <3> QED  BY <3>1 DEF Free
  <2>2. \A i, j \in 0..(aio_free_count' - 1) : aio_free_list'[i] = aio_free_list'[j] => i = j
    OBVIOUS
  <2>3. queued' = {} /\ completing' = None /\ None \notin Free'
    BY DEF Free
  <2> QED  BY <2>1, <2>2, <2>3 DEF SlotsAccounted
<1>3. OneSlotPerRequest'
  BY DEF OneSlotPerRequest
<1> QED  BY <1>1, <1>2, <1>3

LEMMA QueuePool == ASSUME NEW r \in Requests, PoolInv, Queue(r) PROVE PoolInv'
<1> USE PoolAssumption DEF Queue, PoolInv, Slots, Indices, None
<1>1. CASE Refuse(r)
  BY <1>1 DEF Refuse, pool, TypeOK, SlotsAccounted, OneSlotPerRequest, Free
<1>2. CASE Accept(r)
  <2>1. Popped \in Slots /\ Popped \in Free /\ Popped \notin queued /\ Popped # completing
    <3>1. aio_free_count - 1 \in 0..(aio_free_count - 1) /\ aio_free_count - 1 \in Indices
      BY <1>2 DEF Accept, TypeOK
    <3> QED  BY <3>1 DEF Popped, Free, TypeOK, SlotsAccounted
  <2>2. TypeOK'
    BY <1>2, <2>1 DEF Accept, TypeOK, Submitted
  <2>3. Free' = Free \ {Popped}
    BY <1>2 DEF Accept, Free, Popped, SlotsAccounted, TypeOK
  <2>4. SlotsAccounted'
    <3>1. \A i, j \in 0..(aio_free_count' - 1) : aio_free_list'[i] = aio_free_list'[j] => i = j
      BY <1>2 DEF Accept, SlotsAccounted, TypeOK
    <3> QED  BY <1>2, <2>1, <2>3, <3>1 DEF Accept, SlotsAccounted, Submitted
  <2>5. OneSlotPerRequest'
    <3>1. \A s \in queued : treq'[s] = treq[s]
      BY <1>2, <2>1 DEF Accept, TypeOK
    <3>2. treq'[Popped] = r /\ r \notin {treq[s] : s \in queued}
      BY <1>2, <2>1 DEF Accept, TypeOK, OneSlotPerRequest
    <3>3. queued' = queued \cup {Popped} /\ pending' = pending \cup {r}
      BY <1>2 DEF Accept, Submitted
    <3> QED  BY <3>1, <3>2, <3>3 DEF OneSlotPerRequest
  <2> QED  BY <2>2, <2>4, <2>5
<1> QED  BY <1>1, <1>2

LEMMA DeliverPool ==
  ASSUME NEW s \in Slots, NEW outcome \in {"ok", "error"}, PoolInv, Deliver(s, outcome)
  PROVE  PoolInv'
<1> USE DEF Deliver, PoolInv, pool
<1>1. treq[s] \in pending /\ pending \subseteq Requests
  BY DEF OneSlotPerRequest, TypeOK
<1>2. TypeOK'
  BY <1>1 DEF TypeOK
<1>3. open /\ Free' = Free /\ s \notin Free
  BY DEF Free, SlotsAccounted
<1>4. SlotsAccounted'
  <2>1. \A i, j \in 0..(aio_free_count' - 1) : aio_free_list'[i] = aio_free_list'[j] => i = j
    BY <1>3 DEF SlotsAccounted
  <2>2. Free' \cap queued' = {} /\ completing' \notin Free' \cup queued'
    BY <1>3 DEF SlotsAccounted
  <2>3. Slots \subseteq Free' \cup queued' \cup {completing'}
    BY <1>3 DEF SlotsAccounted, Slots, None
  <2> QED  BY <2>1, <2>2, <2>3 DEF SlotsAccounted
<1>5. OneSlotPerRequest'
  BY DEF OneSlotPerRequest
<1> QED  BY <1>2, <1>3, <1>4, <1>5

LEMMA PutBackPool == PoolInv /\ PutBack => PoolInv'
<1> SUFFICES ASSUME PoolInv, PutBack PROVE PoolInv'
  OBVIOUS
<1> USE PoolAssumption DEF PutBack, PoolInv, CountMoved, Indices
<1>1. open /\ aio_free_count < MaxAioReqs /\ completing \in Slots /\ aio_free_count \in Nat
  BY RoomForSlot DEF TypeOK
<1>2. TypeOK'
  BY <1>1 DEF TypeOK
<1>3. /\ \A i \in 0..(aio_free_count - 1) : aio_free_list'[i] = aio_free_list[i]
      /\ aio_free_list'[aio_free_count] = completing
  BY <1>1 DEF TypeOK
<1>4. 0..(aio_free_count' - 1) = 0..(aio_free_count - 1) \cup {aio_free_count}
  BY <1>1
<1>5. Free' = Free \cup {completing}
  BY <1>3, <1>4 DEF Free
<1>6. completing \notin Free /\ completing \notin queued
  BY <1>1 DEF SlotsAccounted
<1>7. SlotsAccounted'
  <2>1. \A i, j \in 0..(aio_free_count' - 1) : aio_free_list'[i] = aio_free_list'[j] => i = j
    BY <1>1, <1>3, <1>4, <1>6 DEF SlotsAccounted, Free
  <2>2. None \notin Free' \cup queued'
    BY <1>1, <1>5 DEF TypeOK, Free, Slots, None
  <2> QED  BY <1>1, <1>5, <1>6, <2>1, <2>2 DEF SlotsAccounted
<1>8. OneSlotPerRequest'
  BY DEF OneSlotPerRequest
<1> QED  BY <1>1, <1>2, <1>7, <1>8

LEMMA ClosePool == PoolInv /\ Close => PoolInv'
<1> SUFFICES ASSUME PoolInv, Close PROVE PoolInv'
  OBVIOUS
<1> USE DEF Close, PoolInv, pool
<1>1. TypeOK'
  BY DEF TypeOK
<1>2. SlotsAccounted'
  BY DEF SlotsAccounted
<1>3. OneSlotPerRequest'
  BY DEF OneSlotPerRequest
<1> QED  BY <1>1, <1>2, <1>3

\* Every slot of the pool is free, queued or being completed, and exactly one
\* of them, and the queued ones are those of the pending requests
\* (block-aio.c:177-246), for every size of the pool.
THEOREM PoolIsSound == Spec => []PoolInv
<1>1. Init => PoolInv
  BY InitPool
<1>2. PoolInv /\ [Next]_vars => PoolInv'
  <2> SUFFICES ASSUME PoolInv, [Next]_vars PROVE PoolInv'
    OBVIOUS
  <2>1. CASE Open
    BY <2>1, OpenPool
  <2>2. CASE \E r \in Requests : Queue(r)
    BY <2>2, QueuePool
  <2>3. CASE \E s \in Slots, outcome \in {"ok", "error"} : Deliver(s, outcome)
    BY <2>3, DeliverPool
  <2>4. CASE PutBack
    BY <2>4, PutBackPool
  <2>5. CASE Close
    BY <2>5, ClosePool
  <2>6. CASE UNCHANGED vars
    BY <2>6 DEF vars, pool, PoolInv, TypeOK, SlotsAccounted, OneSlotPerRequest, Free
  <2> QED  BY <2>1, <2>2, <2>3, <2>4, <2>5, <2>6 DEF Next
<1> QED  BY <1>1, <1>2, PTL DEF Spec

\* No slot is lost or handed out twice, and no accepted request is completed twice or with the
\* slot of another one (block-aio.c:169-215).
THEOREM PoolStaysSound == Spec => []PoolSound
<1>1. PoolInv => PoolSound
  BY DEF PoolInv, PoolSound
<1> QED  BY <1>1, PoolIsSound, PTL

\* As many requests are pending as slots are queued.
LEMMA PendingCount ==
  ASSUME PoolInv PROVE Cardinality(pending) = Cardinality(queued)
<1> DEFINE f == [s \in queued |-> treq[s]]
<1>1. IsFiniteSet(Slots)
  BY FS_Interval, PoolAssumption DEF Slots
<1>2. IsFiniteSet(queued)
  BY <1>1, FS_Subset DEF PoolInv, TypeOK
<1>3. f \in Bijection(queued, pending)
  BY DEF PoolInv, OneSlotPerRequest, Bijection, Injection, Surjection, IsInjective
<1>4. ExistsBijection(queued, pending)
  BY <1>3 DEF ExistsBijection
<1> QED  BY <1>2, <1>4, FS_Bijection

\* An empty free list means that the pool is full, but for the slot of a
\* completion being delivered.
LEMMA FullPool ==
  ASSUME PoolInv, open, aio_free_count = 0
  PROVE  \/ Cardinality(pending) = MaxAioReqs
         \/ completing # None /\ Cardinality(pending) = MaxAioReqs - 1
<1>1. IsFiniteSet(Slots) /\ Cardinality(Slots) = MaxAioReqs
  BY FS_Interval, PoolAssumption DEF Slots
<1>2. queued = Slots \ {completing}
  BY DEF PoolInv, TypeOK, SlotsAccounted, Free
<1>3. CASE completing = None
  <2>1. queued = Slots
    BY <1>2, <1>3 DEF Slots, None
  <2> QED  BY <1>1, <2>1, PendingCount
<1>4. CASE completing # None
  <2>1. completing \in Slots
    BY <1>4 DEF PoolInv, TypeOK
  <2>2. Cardinality(queued) = MaxAioReqs - 1
    BY <1>1, <1>2, <2>1, FS_RemoveElement
  <2> QED  BY <1>4, <2>2, PendingCount
<1> QED  BY <1>3, <1>4

\* tapdisk sees -EBUSY only for a request beyond the capacity of the pool, or
\* from a callback (block-aio.c:197,213-214).
THEOREM BusyOnlyWhenFull == Spec => RefusedOnlyWhenFull
<1> DEFINE FullOrCallback == (\/ Cardinality(pending) = MaxAioReqs
                              \/ completing # None /\ Cardinality(pending) = MaxAioReqs - 1)
           Refusal == \A r \in Requests : result[r] # "busy" /\ result'[r] = "busy" => FullOrCallback
<1>1. PoolInv /\ [Next]_vars => Refusal
  <2> SUFFICES ASSUME PoolInv, [Next]_vars,
                      NEW r \in Requests, result[r] # "busy", result'[r] = "busy"
               PROVE  FullOrCallback
    OBVIOUS
  <2>1. CASE \E q \in Requests : Queue(q)
    <3> PICK q \in Requests : Queue(q)
      BY <2>1
    <3>1. CASE Accept(q)
      BY <3>1 DEF Accept, PoolInv, TypeOK
    <3>2. CASE Refuse(q)
      BY <3>2, FullPool DEF Refuse, Queue
    <3> QED  BY <3>1, <3>2 DEF Queue
  <2>2. CASE \E s \in Slots, outcome \in {"ok", "error"} : Deliver(s, outcome)
    <3> PICK s \in Slots, outcome \in {"ok", "error"} : Deliver(s, outcome)
      BY <2>2
    <3> QED  BY DEF Deliver, PoolInv, TypeOK
  <2>3. CASE Open \/ PutBack \/ Close \/ UNCHANGED vars
    BY <2>3 DEF Open, PutBack, Close, vars
  <2> QED  BY <2>1, <2>2, <2>3 DEF Next
<1> QED  BY <1>1, PoolIsSound, PTL DEF Spec, RefusedOnlyWhenFull
=============================================================================

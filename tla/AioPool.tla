------------------------------ MODULE AioPool ------------------------------
(***************************************************************************)
(* The pool of requests of the raw-image drivers (drivers/block-aio.c; the *)
(* code of drivers/block-log.c is the same but for a log message): a stack *)
(* of free struct aio_request, one of which each request occupies from the *)
(* moment it is queued until its completion was delivered.                 *)
(*                                                                         *)
(* tapdisk runs in one thread, but td_complete_request calls the callback  *)
(* of the request, which may queue further requests before tdaio_complete  *)
(* has put the slot back: tdaio_complete is two steps here.                *)
(***************************************************************************)
EXTENDS Integers, FiniteSets

CONSTANTS MaxAioReqs,   \* MAX_AIO_REQS
          Requests      \* the requests tapdisk may have, which it may issue again

ASSUME PoolAssumption == MaxAioReqs \in Nat \ {0}

Slots == 1..MaxAioReqs     \* aio_requests
Indices == 0..(MaxAioReqs - 1)
None == 0                  \* no slot, no request

VARIABLES
  open,
  aio_free_list, aio_free_count,
  treq,        \* the request in each slot, None in a slot never used
  queued,      \* the slots whose tiocb is with tapdisk's queue or the kernel
  completing,  \* the slot tdaio_complete is called for, if any
  pending,     \* the requests queued and not completed yet
  result       \* how td_complete_request last completed each request

pool == <<aio_free_list, aio_free_count, treq>>
vars == <<open, pool, queued, completing, pending, result>>

Init ==
  /\ open = FALSE
  /\ aio_free_list = [i \in Indices |-> i + 1]
  /\ aio_free_count = 0
  /\ treq = [s \in Slots |-> None]
  /\ queued = {} /\ completing = None
  /\ pending = {}
  /\ result = [r \in Requests |-> "none"]

-----------------------------------------------------------------------------
(* tdaio_open *)

AllFree == MaxAioReqs

Open ==
  /\ ~open
  /\ open' = TRUE
  /\ aio_free_list' = [i \in Indices |-> i + 1]
  /\ aio_free_count' = AllFree
  /\ treq' = [s \in Slots |-> None]
  /\ UNCHANGED <<queued, completing, pending, result>>

-----------------------------------------------------------------------------
(* tdaio_queue_read, tdaio_queue_write *)

\* Variant: the slot is read where the next one will be put.
PoppedAbove == aio_free_list[aio_free_count % MaxAioReqs]
Popped == aio_free_list[aio_free_count - 1]

\* Variant: td_queue_tiocb is not called.
NotSubmitted(s) == queued
Submitted(s) == queued \cup {s}

Accept(r) ==
  /\ aio_free_count > 0
  /\ aio_free_count' = aio_free_count - 1
  /\ treq' = [treq EXCEPT ![Popped] = r]
  /\ queued' = Submitted(Popped)
  /\ pending' = pending \cup {r}
  /\ result' = [result EXCEPT ![r] = "none"]
  /\ UNCHANGED aio_free_list

\* No slot: completed with -EBUSY on the spot.
Refuse(r) ==
  /\ aio_free_count = 0
  /\ result' = [result EXCEPT ![r] = "busy"]
  /\ UNCHANGED <<pool, queued, pending>>

Queue(r) ==
  /\ open
  /\ r \notin pending
  /\ Accept(r) \/ Refuse(r)
  /\ UNCHANGED <<open, completing>>

-----------------------------------------------------------------------------
(* tdaio_complete: td_complete_request, then the slot is put back. *)

Deliver(s, outcome) ==
  /\ completing = None
  /\ s \in queued
  /\ queued' = queued \ {s}
  /\ completing' = s
  /\ pending' = pending \ {treq[s]}
  /\ result' = [result EXCEPT ![treq[s]] = outcome]
  /\ UNCHANGED <<open, pool>>

\* Variant: the count is not moved on.
CountKept == aio_free_count
CountMoved == aio_free_count + 1

PutBack ==
  /\ completing # None
  /\ aio_free_list' = [aio_free_list EXCEPT ![aio_free_count] = completing]
  /\ aio_free_count' = CountMoved
  /\ completing' = None
  /\ UNCHANGED <<open, treq, queued, pending, result>>

\* tdaio_close: tapdisk closes a driver when nothing is pending any more.
Close ==
  /\ open
  /\ queued = {} /\ completing = None
  /\ open' = FALSE
  /\ UNCHANGED <<pool, queued, completing, pending, result>>

-----------------------------------------------------------------------------
Next ==
  \/ Open
  \/ \E r \in Requests : Queue(r)
  \/ \E s \in Slots, outcome \in {"ok", "error"} : Deliver(s, outcome)
  \/ PutBack
  \/ Close

Spec == Init /\ [][Next]_vars

\* The kernel completes every request, tapdisk's queue calls back for every
\* completion it collects, and a callback returns.
FairSpec ==
  /\ Spec
  /\ \A s \in Slots : SF_vars(\E outcome \in {"ok", "error"} : Deliver(s, outcome))
  /\ WF_vars(PutBack)
-----------------------------------------------------------------------------
TypeOK ==
  /\ open \in BOOLEAN
  /\ aio_free_list \in [Indices -> Slots]
  /\ aio_free_count \in 0..MaxAioReqs
  /\ treq \in [Slots -> Requests \cup {None}]
  /\ queued \subseteq Slots
  /\ completing \in Slots \cup {None}
  /\ pending \subseteq Requests
  /\ result \in [Requests -> {"none", "busy", "ok", "error"}]

Free == {aio_free_list[i] : i \in 0..(aio_free_count - 1)}

\* Each struct aio_request of an open driver is in exactly one place: once on
\* the free list, or with tapdisk's queue, or being completed, whatever the
\* order in which requests are queued, refused, completed and queued again
\* from a callback (block-aio.c:182-183,197-200).
SlotsAccounted ==
  open =>
    /\ \A i, j \in 0..(aio_free_count - 1) : aio_free_list[i] = aio_free_list[j] => i = j
    /\ Free \cap queued = {}
    /\ completing \notin Free \cup queued
    /\ Slots \subseteq Free \cup queued \cup {completing}

\* The completion of a slot belongs to the request that was queued with it:
\* every pending request waits for exactly one slot, and every queued slot
\* holds a pending request, so no request is completed twice or never.
OneSlotPerRequest ==
  /\ pending = {treq[s] : s \in queued}
  /\ \A s, t \in queued : treq[s] = treq[t] => s = t

\* However requests and completions interleave, the pool loses, duplicates and
\* confuses nothing (block-aio.c:169-183, 186-215).
PoolSound == SlotsAccounted /\ OneSlotPerRequest

\* A request is refused only when as many as the pool can hold are pending,
\* except from the callback of a completion, whose slot is not back yet: there
\* one less suffices (block-aio.c:182-183,197).
RefusedOnlyWhenFull ==
  [][\A r \in Requests : result[r] # "busy" /\ result'[r] = "busy" =>
       \/ Cardinality(pending) = MaxAioReqs
       \/ completing # None /\ Cardinality(pending) = MaxAioReqs - 1]_vars

\* Every request accepted is completed, if the disk completes its own.
RequestsAnswered == \A r \in Requests : r \in pending ~> r \notin pending
=============================================================================

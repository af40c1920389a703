--------------------------- MODULE CpuPoolsProofs ----------------------------
(* That the names of cpupools stay those of the pools there are, that guests
   are in pools that can be used, and that cpupool-numa-split makes one pool of
   each node, for any topology and any numbers of guests and pools. *)
EXTENDS CpuPools, FiniteSetTheorems, WellFoundedInduction, TLAPS

Pcs == {"idle", "create", "add", "check", "remove", "unname",
        "split_name", "split_vcpus", "split_wait", "split_next", "split_fill"}
Commands == [pc : Pcs, pool : PoolIds, name : AllNames, map : SUBSET Cpus, nodes : SUBSET Nodes,
             tries : 0..(Tries - 1)]

CpusOk ==
  /\ cpus \in [PoolIds -> SUBSET Cpus]
  /\ \A p, q \in PoolIds : p # q => cpus[p] \cap cpus[q] = {}
  /\ \A p \in PoolIds \ pools : cpus[p] = {}

StateOk ==
  /\ 0 \in pools /\ pools \subseteq PoolIds
  /\ dom \in [Guests -> pools \cup {None}]
  /\ name \in [PoolIds -> AllNames \cup {None}] /\ stray \subseteq pools
  /\ avail \in 0..Vcpus /\ online \in 1..Vcpus
  /\ xl \in Commands

\* But for the strays, the pool that a command is making or removing is the only one whose
\* name xenstore may lack, or still have.
InHand(p) == p = xl.pool /\ xl.pc \in {"add", "check", "remove", "unname"}
Named ==
  /\ name[0] # None
  /\ \A p \in PoolIds :
       /\ ~InHand(p) => (name[p] # None <=> p \in pools \ stray)
       /\ InHand(p) => (p \in pools <=> xl.pc # "unname") /\ p \notin stray
  /\ xl.pc = "add" => name[xl.pool] = None
  /\ xl.pc = "remove" => xl.pool # 0 /\ cpus[xl.pool] = xl.map

\* The pools that cpupool-numa-split is done with are those of the nodes that it
\* crossed out.
Settled == pools \ (IF xl.pc \in {"add", "split_fill"} THEN {xl.pool} ELSE {})
AtNode == xl.pc = "split_next" \/ (xl.nodes # {} /\ xl.pc \in {"create", "add", "split_fill"})
SettledInv ==
  /\ \A n \in Nodes \ xl.nodes : \E p \in Settled : name[p] = NodeName(n)
  /\ \A p \in Settled : \E n \in Nodes \ xl.nodes : name[p] = NodeName(n)
  /\ \A p, q \in Settled : p # q => name[p] # name[q]
  /\ \A p \in Settled \ {0}, n \in Nodes : name[p] = NodeName(n) => cpus[p] \subseteq OfNode(n)
SplitInv ==
  /\ xl.nodes # {} => xl.pc \in {"create", "add", "split_name", "split_vcpus", "split_wait", "split_next", "split_fill"}
  /\ xl.pc \in {"split_name", "split_vcpus", "split_wait"} => pools = {0}
  /\ xl.pc = "split_name" => xl.nodes = Nodes
  /\ xl.pc \in {"split_vcpus", "split_wait"} =>
       name[0] = NodeName(NodeOf[0]) /\ xl.nodes = Nodes \ {NodeOf[0]}
  /\ AtNode => SettledInv
  /\ xl.nodes # {} /\ xl.pc \in {"create", "add"} => xl.map = {} /\ xl.name = NodeName(NextNode)
  /\ xl.nodes # {} /\ xl.pc \in {"add", "split_fill"} =>
       xl.pool \in pools \ {0} /\ cpus[xl.pool] = {}
  /\ xl.pc = "split_fill" => xl.nodes # {} /\ name[xl.pool] = NodeName(NextNode)

IInv == CpusOk /\ StateOk /\ Named /\ GuestPoolUsable /\ SplitInv

-----------------------------------------------------------------------------
(* Cpus, nodes and hypercalls *)

LEMMA Least ==
  ASSUME NEW S, S \subseteq Nat, S # {}
  PROVE  First(S) \in S
<1> DEFINE R == OpToRel(<, Nat)
<1>1. \E x \in S : \A y \in S : ~(<<y, x>> \in R)
  <2> HIDE DEF R
  <2>1. IsWellFoundedOn(R, Nat)
    BY NatLessThanWellFounded DEF R
  <2> QED  BY <2>1, WFMin
<1>2. \A x, y \in Nat : y < x => <<y, x>> \in R
  BY DEF OpToRel
<1> HIDE DEF R
<1>3. PICK x \in S : \A y \in S : ~(<<y, x>> \in R)
  BY <1>1
<1>4. \A y \in S : ~(y < x) /\ x \in Nat /\ y \in Nat
  BY <1>2, <1>3
<1>5. \A y \in S : x <= y
  BY <1>4
<1> QED  BY <1>5 DEF First

LEMMA CpuSets ==
  /\ 0 \in Cpus /\ Cpus \subseteq Nat /\ NodeOf[0] \in Nodes
  /\ \A n : OfNode(n) \subseteq Cpus /\ Cardinality(OfNode(n)) \in Nat
  /\ 0 \in PoolIds
<1>1. Cardinality(Cpus) \in Nat
  BY CpuPoolsAssumption, FS_CardinalityType
<1>2. Cpus \subseteq Nat /\ 0 \in Cpus
  BY <1>1, CpuPoolsAssumption
<1>3. NodeOf[0] \in Nodes
  BY <1>2 DEF Nodes
<1>4. ASSUME NEW n PROVE OfNode(n) \subseteq Cpus /\ Cardinality(OfNode(n)) \in Nat
  <2>1. OfNode(n) \subseteq Cpus
    BY DEF OfNode
  <2>2. IsFiniteSet(OfNode(n))
    BY <2>1, CpuPoolsAssumption, FS_Subset
  <2> QED  BY <2>1, <2>2, FS_CardinalityType
<1>5. 0 \in PoolIds
  BY CpuPoolsAssumption DEF PoolIds
<1> QED  BY <1>2, <1>3, <1>4, <1>5

\* The next node of cpupool-numa-split is one that it has not crossed out.
LEMMA NextNodeIs ==
  ASSUME xl.nodes \subseteq Nodes, xl.nodes # {} PROVE NextNode \in xl.nodes
<1> DEFINE S == {c \in Cpus : NodeOf[c] \in xl.nodes}
<1>1. S \subseteq Nat /\ S # {}
  BY CpuSets DEF Nodes
<1> HIDE DEF S
<1>2. First(S) \in S
  BY <1>1, Least
<1> QED  BY <1>2 DEF S, NextNode

LEMMA NodeNames ==
  /\ \A m, n : NodeName(m) = NodeName(n) => m = n
  /\ \A n \in Nodes : NodeName(n) \in AllNames
  /\ Pool0Name \in AllNames
BY DEF NodeName, AllNames

LEMMA AddCpusOk ==
  ASSUME CpusOk, NEW p \in pools, pools \subseteq PoolIds, NEW S, AddCpus(p, S), S \subseteq Cpus,
         UNCHANGED pools
  PROVE  /\ CpusOk'
         /\ \A q \in PoolIds \ {p} : cpus'[q] = cpus[q]
         /\ cpus[p] \subseteq cpus'[p] /\ cpus'[p] \subseteq cpus[p] \cup S
<1>1. PICK T \in SUBSET (S \cap Free) : cpus' = [cpus EXCEPT ![p] = @ \cup T]
  BY DEF AddCpus
<1>2. p \in PoolIds /\ cpus \in [PoolIds -> SUBSET Cpus]
  BY DEF CpusOk
<1>3. cpus' \in [PoolIds -> SUBSET Cpus] /\ cpus'[p] = cpus[p] \cup T
      /\ \A q \in PoolIds \ {p} : cpus'[q] = cpus[q]
  BY <1>1, <1>2
<1>4. \A q \in PoolIds \ {p} : T \cap cpus[q] = {}
  BY DEF CpusOk, Free
<1> QED  BY <1>1, <1>2, <1>3, <1>4 DEF CpusOk

LEMMA RemoveCpusOk ==
  ASSUME CpusOk, NEW p \in pools, pools \subseteq PoolIds, NEW S, RemoveCpus(p, S), UNCHANGED pools
  PROVE  /\ CpusOk'
         /\ \A q \in PoolIds \ {p} : cpus'[q] = cpus[q]
         /\ cpus'[p] \subseteq cpus[p]
         /\ HasDomain(p) => cpus'[p] # {}
<1>1. PICK T \in SUBSET (S \cap cpus[p]) :
        MayRemove(p, T) /\ cpus' = [cpus EXCEPT ![p] = @ \ T]
  BY DEF RemoveCpus
<1>2. p \in PoolIds /\ cpus \in [PoolIds -> SUBSET Cpus]
  BY DEF CpusOk
<1>3. cpus' \in [PoolIds -> SUBSET Cpus] /\ cpus'[p] = cpus[p] \ T
      /\ \A q \in PoolIds \ {p} : cpus'[q] = cpus[q]
  BY <1>1, <1>2
<1>4. CpusOk'
  BY <1>2, <1>3 DEF CpusOk
<1>5. HasDomain(p) => cpus'[p] # {}
  BY <1>1, <1>3 DEF MayRemove
<1> QED  BY <1>3, <1>4, <1>5

\* Guests are in pools, and these have names and cpus.
LEMMA GuestPools ==
  ASSUME IInv, NEW p \in PoolIds, NEW d \in Guests, dom[d] = p
  PROVE  p \in pools /\ name[p] # None /\ cpus[p] # {}
BY NoneAssumption DEF IInv, StateOk, GuestPoolUsable

\* What only changes cpus of pools that keep one if they have a guest.
LEMMA UsableStays ==
  ASSUME GuestPoolUsable, UNCHANGED <<dom, name>>, StateOk,
         \A p \in PoolIds : cpus[p] # {} /\ HasDomain(p) => cpus'[p] # {}
  PROVE  GuestPoolUsable'
<1> SUFFICES ASSUME NEW d \in Guests, dom[d] # None
             PROVE  name[dom[d]] # None /\ cpus'[dom[d]] # {}
  BY DEF GuestPoolUsable
<1>1. dom[d] \in PoolIds /\ HasDomain(dom[d])
  BY DEF StateOk, HasDomain
<1> QED  BY <1>1 DEF GuestPoolUsable

\* A state in which no command is running.
LEMMA IdleOk ==
  ASSUME xl' = Idle, CpusOk', GuestPoolUsable', StateOk',
         name'[0] # None, \A p \in PoolIds : name'[p] # None <=> p \in pools' \ stray'
  PROVE  IInv'
BY DEF Idle, IInv, Named, InHand, SplitInv, AtNode

-----------------------------------------------------------------------------
(* The steps of cpupool-create and cpupool-destroy *)

LEMMA InitOk == Init => IInv
<1> SUFFICES ASSUME Init PROVE IInv
  OBVIOUS
<1>1. CpusOk /\ pools = {0} /\ 0 \in PoolIds
  BY CpuSets DEF Init, CpusOk
<1>2. Idle \in Commands
  BY CpuSets, NodeNames, CpuPoolsAssumption DEF Idle, Commands, Pcs
<1>3. StateOk
  BY <1>1, <1>2, NodeNames, CpuPoolsAssumption DEF Init, StateOk
<1>4. GuestPoolUsable
  BY DEF Init, GuestPoolUsable
<1>5. Named
  BY <1>1, NodeNames, NoneAssumption DEF Init, Named, InHand, Idle
<1>6. SplitInv
  BY DEF Init, SplitInv, AtNode, Idle
<1> QED  BY <1>1, <1>3, <1>4, <1>5, <1>6 DEF IInv

LEMMA IdleTyped == Idle \in Commands
BY CpuSets, NodeNames, CpuPoolsAssumption DEF Idle, Commands, Pcs

LEMMA StartCreateKeeps == ASSUME IInv, NEW nm \in Names, StartCreate(nm) PROVE IInv'
<1>1. PICK map \in SUBSET Free : xl' = [Idle EXCEPT !.pc = "create", !.name = nm, !.map = map]
  BY DEF StartCreate
<1>2. xl' \in Commands /\ xl'.pc = "create" /\ xl'.nodes = {} /\ xl.pc = "idle"
  BY <1>1, IdleTyped DEF StartCreate, Commands, Pcs, Idle, Free, AllNames
<1>3. UNCHANGED <<pools, cpus, dom, name, stray, avail, online>>
  BY DEF StartCreate
<1>4. CpusOk' /\ GuestPoolUsable' /\ StateOk'
  BY <1>2, <1>3 DEF IInv, CpusOk, GuestPoolUsable, StateOk
<1>5. Named'
  BY <1>2, <1>3 DEF IInv, Named, InHand
<1>6. SplitInv'
  BY <1>2 DEF SplitInv, AtNode
<1> QED  BY <1>4, <1>5, <1>6 DEF IInv

LEMMA CreatePoolKeeps == ASSUME IInv, CreatePool PROVE IInv'
<1>1. xl.pc = "create" /\ UNCHANGED <<dom, name, stray, avail, online>>
  BY DEF CreatePool
<1>2. \A p \in PoolIds : name[p] # None <=> p \in pools \ stray
  BY <1>1 DEF IInv, Named, InHand
<1>3. CASE xl' = Idle /\ UNCHANGED <<pools, cpus>>
  BY <1>1, <1>2, <1>3, IdleOk, IdleTyped DEF IInv, CpusOk, GuestPoolUsable, StateOk, Named
<1>4. ASSUME NEW p \in PoolIds, NewPool(p), xl' = [xl EXCEPT !.pc = "add", !.pool = p] PROVE IInv'
  <2>1. /\ p \notin pools /\ pools' = pools \cup {p} /\ cpus' = [cpus EXCEPT ![p] = {}]
        /\ cpus[p] = {} /\ cpus' = cpus
    BY <1>4 DEF NewPool, IInv, CpusOk
  <2>2. /\ xl' \in Commands /\ xl'.pc = "add" /\ xl'.pool = p /\ xl'.nodes = xl.nodes /\ xl'.map = xl.map
        /\ xl'.name = xl.name
    BY <1>4 DEF IInv, StateOk, Commands, Pcs
  <2>3. CpusOk' /\ StateOk' /\ GuestPoolUsable'
    BY <1>1, <2>1, <2>2 DEF IInv, CpusOk, StateOk, GuestPoolUsable
  <2>4. Named'
    <3>1. p \notin stray
      BY <2>1 DEF IInv, StateOk
    <3> QED  BY <1>1, <1>2, <2>1, <2>2, <3>1 DEF Named, InHand, IInv
  <2>5. SplitInv'
    <3>1. CASE xl.nodes = {}
      BY <2>2, <3>1 DEF SplitInv, AtNode
    <3>2. CASE xl.nodes # {}
      <4>1. SettledInv /\ Settled = pools /\ Settled' = pools
        BY <1>1, <2>1, <2>2, <3>2 DEF IInv, SplitInv, AtNode, Settled
      <4>2. SettledInv'
        BY <1>1, <2>1, <2>2, <4>1 DEF SettledInv
      <4>3. xl.map = {} /\ xl.name = NodeName(NextNode) /\ NextNode' = NextNode
        BY <1>1, <2>2, <3>2 DEF IInv, SplitInv, NextNode
      <4>4. p # 0
        BY <2>1 DEF IInv, StateOk
      <4> QED  BY <2>1, <2>2, <4>2, <4>3, <4>4 DEF SplitInv
    <3> QED  BY <3>1, <3>2
  <2> QED  BY <2>3, <2>4, <2>5 DEF IInv
<1> QED  BY <1>3, <1>4 DEF CreatePool

LEMMA AddCpuKeeps == ASSUME IInv, AddCpu PROVE IInv'
<1> DEFINE p == xl.pool
           c == First(xl.map)
<1>1. /\ xl.pc = "add" /\ xl.map # {} /\ UNCHANGED <<pools, dom, name, stray, avail, online>>
      /\ AddCpus(p, {c}) /\ xl \in Commands
      /\ xl' = IF c \in cpus'[p] THEN [xl EXCEPT !.map = @ \ {c}] ELSE [xl EXCEPT !.pc = "check"]
  BY DEF AddCpu, Cleanup, IInv, StateOk
<1>2. p \in PoolIds /\ p \in pools /\ xl.map \subseteq Cpus /\ xl.nodes = {}
  BY <1>1 DEF IInv, Named, InHand, SplitInv, Commands
<1>3. c \in Cpus
  BY <1>1, <1>2, CpuSets, Least
<1> HIDE DEF c
<1>4. CpusOk' /\ (\A q \in PoolIds \ {p} : cpus'[q] = cpus[q]) /\ cpus[p] \subseteq cpus'[p]
  BY <1>1, <1>2, <1>3, AddCpusOk DEF IInv, StateOk
<1>5. xl' \in Commands /\ xl'.pc \in {"add", "check"} /\ xl'.pool = p /\ xl'.nodes = {}
  BY <1>1, <1>2 DEF Commands, Pcs
<1>6. StateOk'
  BY <1>1, <1>5 DEF IInv, StateOk
<1>7. GuestPoolUsable'
  BY <1>1, <1>2, <1>4, UsableStays DEF IInv
<1>8. Named'
  BY <1>1, <1>2, <1>5 DEF IInv, Named, InHand
<1>9. SplitInv'
  BY <1>5 DEF SplitInv, AtNode
<1> QED  BY <1>4, <1>6, <1>7, <1>8, <1>9 DEF IInv

LEMMA NamePoolKeeps == ASSUME IInv, NamePool PROVE IInv'
<1> DEFINE p == xl.pool
<1>1. /\ xl.pc = "add" /\ xl.map = {} /\ name' = [name EXCEPT ![p] = xl.name] /\ xl \in Commands
      /\ xl' = IF xl.nodes = {} THEN Idle ELSE [xl EXCEPT !.pc = "split_fill"]
      /\ UNCHANGED <<pools, cpus, dom, stray, avail, online>>
  BY DEF NamePool, IInv, StateOk
<1>2. /\ p \in PoolIds /\ p \in pools /\ xl.name \in AllNames /\ xl.name # None
      /\ name \in [PoolIds -> AllNames \cup {None}]
  BY <1>1, NoneAssumption DEF IInv, Named, InHand, Commands, StateOk
<1>3. name' \in [PoolIds -> AllNames \cup {None}] /\ name'[p] = xl.name
      /\ \A q \in PoolIds \ {p} : name'[q] = name[q]
  BY <1>1, <1>2
<1>4. xl' \in Commands
  BY <1>1, IdleTyped DEF Commands, Pcs
<1>5. CpusOk' /\ StateOk'
  BY <1>1, <1>3, <1>4 DEF IInv, CpusOk, StateOk
<1>6. GuestPoolUsable'
  <2>1. ASSUME NEW d \in Guests, dom[d] # None PROVE name'[dom[d]] # None /\ cpus[dom[d]] # {}
    <3>1. dom[d] \in PoolIds
      BY <2>1 DEF IInv, StateOk
    <3> QED  BY <1>2, <1>3, <2>1, <3>1 DEF IInv, GuestPoolUsable
  <2> QED  BY <1>1, <2>1 DEF GuestPoolUsable
<1>7. name'[0] # None /\ \A q \in PoolIds : name'[q] # None <=> q \in pools \ stray
  BY <1>1, <1>2, <1>3, CpuSets DEF IInv, Named, InHand
<1>8. CASE xl.nodes = {}
  BY <1>1, <1>5, <1>6, <1>7, <1>8, IdleOk
<1>9. CASE xl.nodes # {}
  <2>1. /\ xl'.pc = "split_fill" /\ xl'.pool = p /\ xl'.nodes = xl.nodes
    BY <1>1, <1>9 DEF Commands
  <2>2. Named'
    BY <1>1, <1>7, <2>1 DEF Named, InHand
  <2>3. SettledInv /\ Settled = pools \ {p} /\ Settled' = pools \ {p} /\ xl.name = NodeName(NextNode)
        /\ p # 0 /\ cpus[p] = {}
    BY <1>1, <1>9, <2>1 DEF IInv, SplitInv, AtNode, Settled
  <2>4. \A q \in Settled : name'[q] = name[q]
    BY <1>3, <2>3 DEF IInv, StateOk
  <2>5. SettledInv'
    BY <1>1, <2>1, <2>3, <2>4 DEF SettledInv
  <2>6. NextNode' = NextNode
    BY <2>1 DEF NextNode
  <2>7. SplitInv'
    BY <1>1, <1>2, <1>3, <1>9, <2>1, <2>3, <2>5, <2>6 DEF SplitInv
  <2> QED  BY <1>5, <1>6, <2>2, <2>7 DEF IInv
<1> QED  BY <1>8, <1>9

LEMMA StartDestroyKeeps == ASSUME IInv, NEW p \in PoolIds, StartDestroy(p) PROVE IInv'
<1>1. /\ xl' = [Idle EXCEPT !.pc = "check", !.pool = p] /\ xl.pc = "idle" /\ p \in pools /\ name[p] # None
      /\ UNCHANGED <<pools, cpus, dom, name, stray, avail, online>>
  BY DEF StartDestroy, Known
<1>2. xl' \in Commands /\ xl'.pc = "check" /\ xl'.nodes = {} /\ xl'.pool = p
  BY <1>1, IdleTyped DEF Commands, Pcs, Idle
<1>3. CpusOk' /\ GuestPoolUsable' /\ StateOk'
  BY <1>1, <1>2 DEF IInv, CpusOk, GuestPoolUsable, StateOk
<1>4. Named'
  BY <1>1, <1>2 DEF IInv, Named, InHand
<1>5. SplitInv'
  BY <1>2 DEF SplitInv, AtNode
<1> QED  BY <1>3, <1>4, <1>5 DEF IInv

\* A pool that is left alone has its name, or is a stray one from now on.
LEMMA LeftAloneOk ==
  ASSUME IInv, xl.pc \in {"check", "remove"}, LeftAlone, CpusOk', GuestPoolUsable',
         UNCHANGED <<pools, dom, name, avail, online>>
  PROVE  IInv'
<1>1. /\ xl.pool \in PoolIds /\ InHand(xl.pool) /\ xl.pool \in pools /\ xl.pool \notin stray
      /\ name[0] # None /\ stray \subseteq pools
  BY DEF IInv, StateOk, Commands, Named, InHand
<1>2. xl' = Idle /\ stray' = IF name[xl.pool] = None THEN stray \cup {xl.pool} ELSE stray
  BY DEF LeftAlone
<1>3. \A q \in PoolIds : name[q] # None <=> q \in pools \ stray'
  <2> TAKE q \in PoolIds
  <2>1. CASE q = xl.pool
    BY <1>1, <1>2, <2>1
  <2>2. CASE q # xl.pool
    BY <1>1, <1>2, <2>2 DEF IInv, Named, InHand
  <2> QED  BY <2>1, <2>2
<1>4. StateOk'
  BY <1>1, <1>2, IdleTyped DEF IInv, StateOk
<1> QED  BY <1>1, <1>2, <1>3, <1>4, IdleOk

LEMMA CheckEmptyKeeps == ASSUME IInv, CheckEmpty PROVE IInv'
<1> DEFINE p == xl.pool
<1>1. /\ xl.pc = "check" /\ UNCHANGED <<pools, cpus, dom, name, avail, online>> /\ xl \in Commands
      /\ \/ LeftAlone
         \/ ~HasDomain(p) /\ xl' = [xl EXCEPT !.pc = "remove", !.map = cpus[p]] /\ UNCHANGED stray
  BY DEF CheckEmpty, CpusFirst, IInv, StateOk
<1>2. CpusOk' /\ GuestPoolUsable' /\ name[0] # None /\ p \in PoolIds /\ xl.nodes = {}
  BY <1>1 DEF IInv, CpusOk, GuestPoolUsable, Named, SplitInv, Commands
<1>3. CASE LeftAlone
  BY <1>1, <1>2, <1>3, LeftAloneOk
<1>4. CASE ~HasDomain(p) /\ xl' = [xl EXCEPT !.pc = "remove", !.map = cpus[p]] /\ UNCHANGED stray
  <2>1. /\ xl' \in Commands /\ xl'.pc = "remove" /\ xl'.pool = p /\ xl'.nodes = {} /\ xl'.map = cpus[p]
    BY <1>1, <1>2, <1>4 DEF Commands, Pcs, IInv, CpusOk
  <2>2. StateOk'
    BY <1>1, <1>4, <2>1 DEF IInv, StateOk
  <2>3. Named'
    BY <1>1, <1>4, <2>1 DEF IInv, Named, InHand, HasDomain
  <2>4. SplitInv'
    BY <2>1 DEF SplitInv, AtNode
  <2> QED  BY <1>2, <2>2, <2>3, <2>4 DEF IInv
<1> QED  BY <1>1, <1>3, <1>4

LEMMA RemoveCpuKeeps == ASSUME IInv, RemoveCpu PROVE IInv'
<1> DEFINE p == xl.pool
           c == First(xl.map)
<1>1. /\ xl.pc = "remove" /\ xl.map # {} /\ UNCHANGED <<pools, dom, name, avail, online>>
      /\ RemoveCpus(p, {c}) /\ xl \in Commands
      /\ IF c \in cpus'[p] THEN LeftAlone ELSE xl' = [xl EXCEPT !.map = @ \ {c}] /\ UNCHANGED stray
  BY DEF RemoveCpu, IInv, StateOk
<1>2. /\ p \in PoolIds /\ p \in pools /\ p # 0 /\ xl.map \subseteq Cpus /\ xl.nodes = {} /\ cpus[p] = xl.map
      /\ name[0] # None
  BY <1>1 DEF IInv, Named, InHand, SplitInv, Commands
<1>3. c \in cpus[p]
  BY <1>1, <1>2, CpuSets, Least
<1> HIDE DEF c
<1>4. /\ CpusOk' /\ (\A q \in PoolIds \ {p} : cpus'[q] = cpus[q]) /\ cpus'[p] \subseteq cpus[p]
      /\ (HasDomain(p) => cpus'[p] # {})
  BY <1>1, <1>2, RemoveCpusOk DEF IInv, StateOk
<1>5. \A q \in PoolIds : cpus[q] # {} /\ HasDomain(q) => cpus'[q] # {}
  BY <1>4
<1>6. GuestPoolUsable'
  BY <1>1, <1>5, UsableStays DEF IInv
<1>7. CASE c \in cpus'[p]
  BY <1>1, <1>4, <1>6, <1>7, LeftAloneOk
<1>8. CASE c \notin cpus'[p]
  <2>1. /\ xl' \in Commands /\ xl'.pc = "remove" /\ xl'.pool = p /\ xl'.nodes = {}
        /\ xl'.map = xl.map \ {c} /\ UNCHANGED stray
    BY <1>1, <1>2, <1>8 DEF Commands, Pcs
  <2>2. cpus'[p] = cpus[p] \ {c}
    <3>1. PICK T \in SUBSET ({c} \cap cpus[p]) : cpus' = [cpus EXCEPT ![p] = @ \ T]
      BY <1>1 DEF RemoveCpus
    <3>2. cpus'[p] = cpus[p] \ T
      BY <1>2, <3>1 DEF IInv, CpusOk
    <3> QED  BY <1>8, <3>1, <3>2
  <2>3. StateOk'
    BY <1>1, <2>1 DEF IInv, StateOk
  <2>4. Named'
    BY <1>1, <1>2, <2>1, <2>2 DEF IInv, Named, InHand
  <2>5. SplitInv'
    BY <2>1 DEF SplitInv, AtNode
  <2> QED  BY <1>4, <1>6, <2>3, <2>4, <2>5 DEF IInv
<1> QED  BY <1>7, <1>8

LEMMA DestroyPoolKeeps == ASSUME IInv, DestroyPool PROVE IInv'
<1> DEFINE p == xl.pool
<1>1. /\ xl.pc = "remove" /\ xl.map = {} /\ UNCHANGED <<cpus, dom, name, avail, online>> /\ xl \in Commands
      /\ \/ ~HasDomain(p) /\ pools' = pools \ {p} /\ xl' = [xl EXCEPT !.pc = "unname"] /\ UNCHANGED stray
         \/ LeftAlone /\ UNCHANGED pools
  BY DEF DestroyPool, IInv, StateOk
<1>2. /\ p \in PoolIds /\ p \in pools /\ p # 0 /\ cpus[p] = {} /\ xl.nodes = {} /\ name[0] # None
      /\ p \notin stray
  BY <1>1 DEF IInv, Named, InHand, SplitInv, Commands
<1>3. CASE LeftAlone /\ UNCHANGED pools
  <2>1. CpusOk' /\ GuestPoolUsable'
    BY <1>1, <1>3 DEF IInv, CpusOk, GuestPoolUsable
  <2> QED  BY <1>1, <1>3, <2>1, LeftAloneOk
<1>4. CASE ~HasDomain(p) /\ pools' = pools \ {p} /\ xl' = [xl EXCEPT !.pc = "unname"] /\ UNCHANGED stray
  <2>1. xl' \in Commands /\ xl'.pc = "unname" /\ xl'.pool = p /\ xl'.nodes = {}
    BY <1>1, <1>2, <1>4 DEF Commands, Pcs
  <2>2. CpusOk'
    BY <1>1, <1>2, <1>4 DEF IInv, CpusOk
  <2>3. dom \in [Guests -> pools' \cup {None}]
    BY <1>4 DEF IInv, StateOk, HasDomain
  <2>4. StateOk' /\ GuestPoolUsable'
    BY <1>1, <1>2, <1>4, <2>1, <2>3 DEF IInv, StateOk, GuestPoolUsable
  <2>5. Named'
    BY <1>1, <1>2, <1>4, <2>1 DEF IInv, Named, InHand
  <2>6. SplitInv'
    BY <2>1 DEF SplitInv, AtNode
  <2> QED  BY <2>2, <2>4, <2>5, <2>6 DEF IInv
<1> QED  BY <1>1, <1>3, <1>4

LEMMA RemoveNameKeeps == ASSUME IInv, RemoveName PROVE IInv'
<1> DEFINE p == xl.pool
<1>1. /\ xl.pc = "unname" /\ UNCHANGED <<pools, cpus, dom, stray, avail, online>> /\ xl' = Idle
      /\ name' = [name EXCEPT ![p] = None] /\ p \in PoolIds /\ p \notin pools
      /\ name \in [PoolIds -> AllNames \cup {None}]
  BY DEF RemoveName, IInv, StateOk, Commands, Named, InHand
<1>2. /\ name' \in [PoolIds -> AllNames \cup {None}] /\ name'[p] = None
      /\ \A q \in PoolIds \ {p} : name'[q] = name[q]
  BY <1>1
<1>3. CpusOk' /\ StateOk'
  BY <1>1, <1>2, IdleTyped DEF IInv, CpusOk, StateOk
<1>4. GuestPoolUsable'
  <2>1. ASSUME NEW d \in Guests, dom[d] # None PROVE name'[dom[d]] # None /\ cpus[dom[d]] # {}
    <3>1. dom[d] \in pools /\ dom[d] \in PoolIds
      BY <2>1 DEF IInv, StateOk
    <3> QED  BY <1>1, <1>2, <2>1, <3>1 DEF IInv, GuestPoolUsable
  <2> QED  BY <1>1, <2>1 DEF GuestPoolUsable
<1>5. \A q \in PoolIds : name'[q] # None <=> q \in pools \ stray
  BY <1>1, <1>2 DEF IInv, Named, InHand
<1>6. name'[0] # None
  BY <1>1, <1>2, CpuSets DEF IInv, StateOk, Named
<1> QED  BY <1>1, <1>3, <1>4, <1>5, <1>6, IdleOk

-----------------------------------------------------------------------------
(* Commands of one step, guests and Domain-0 *)

CpusChange == \E p \in pools, S \in SUBSET Cpus : AddCpus(p, S) \/ RemoveCpus(p, S)
LEMMA CpusChangeKeeps ==
  ASSUME IInv, xl.pc = "idle", CpusChange, UNCHANGED <<pools, dom, name, stray, avail, online, xl>>
  PROVE  IInv'
<1>1. PICK p \in pools, S \in SUBSET Cpus : AddCpus(p, S) \/ RemoveCpus(p, S)
  BY DEF CpusChange
<1>2. CpusOk' /\ \A q \in PoolIds : cpus[q] # {} /\ HasDomain(q) => cpus'[q] # {}
  <2>1. CASE AddCpus(p, S)
    <3>1. CpusOk' /\ (\A q \in PoolIds \ {p} : cpus'[q] = cpus[q]) /\ cpus[p] \subseteq cpus'[p]
      BY <2>1, AddCpusOk DEF IInv, StateOk
    <3> QED  BY <3>1
  <2>2. CASE RemoveCpus(p, S)
    <3>1. CpusOk' /\ (\A q \in PoolIds \ {p} : cpus'[q] = cpus[q]) /\ (HasDomain(p) => cpus'[p] # {})
      BY <2>2, RemoveCpusOk DEF IInv, StateOk
    <3> QED  BY <3>1
  <2> QED  BY <1>1, <2>1, <2>2
<1>3. GuestPoolUsable'
  BY <1>2, UsableStays DEF IInv
<1>4. StateOk' /\ Named'
  BY DEF IInv, StateOk, Named, InHand
<1>5. SplitInv'
  BY DEF IInv, SplitInv, AtNode
<1> QED  BY <1>2, <1>3, <1>4, <1>5 DEF IInv

LEMMA CpuCommandsKeep ==
  ASSUME IInv, NEW p \in PoolIds, NEW c \in Cpus, NEW n \in Nodes,
         CpuAdd(p, c) \/ CpuRemove(p, c) \/ CpuAddNode(p, n) \/ CpuRemoveNode(p, n)
  PROVE  IInv'
<1>1. {c} \in SUBSET Cpus /\ OfNode(n) \in SUBSET Cpus
  BY CpuSets
<1>2. CpusChange /\ xl.pc = "idle" /\ UNCHANGED <<pools, dom, name, stray, avail, online, xl>>
  BY <1>1 DEF CpusChange, CpuAdd, CpuRemove, CpuAddNode, CpuRemoveNode, Known
<1> QED  BY <1>2, CpusChangeKeeps

LEMMA CpupoolRenameKeeps ==
  ASSUME IInv, NEW p \in PoolIds, NEW nm \in Names, CpupoolRename(p, nm) PROVE IInv'
<1>1. /\ xl.pc = "idle" /\ p \in pools /\ name[p] # None /\ name' = [name EXCEPT ![p] = nm]
      /\ UNCHANGED <<pools, cpus, dom, stray, avail, online, xl>> /\ name \in [PoolIds -> AllNames \cup {None}]
  BY DEF CpupoolRename, Known, IInv, StateOk
<1>2. nm \in AllNames /\ nm # None
  BY NoneAssumption DEF AllNames
<1>3. /\ name' \in [PoolIds -> AllNames \cup {None}] /\ name'[p] # None
      /\ \A q \in PoolIds \ {p} : name'[q] = name[q]
  BY <1>1, <1>2
<1>4. CpusOk' /\ StateOk'
  BY <1>1, <1>3 DEF IInv, CpusOk, StateOk
<1>5. GuestPoolUsable'
  <2>1. ASSUME NEW d \in Guests, dom[d] # None PROVE name'[dom[d]] # None /\ cpus[dom[d]] # {}
    <3>1. dom[d] \in PoolIds
      BY <2>1 DEF IInv, StateOk
    <3> QED  BY <1>3, <2>1, <3>1 DEF IInv, GuestPoolUsable
  <2> QED  BY <1>1, <2>1 DEF GuestPoolUsable
<1>6. Named'
  BY <1>1, <1>3, CpuSets DEF IInv, Named, InHand
<1>7. SplitInv'
  BY <1>1 DEF IInv, SplitInv, AtNode
<1> QED  BY <1>4, <1>5, <1>6, <1>7 DEF IInv

\* Guests come and go, and move, whatever command is running.
DomChanges == \E d \in Guests, p \in pools \cup {None} :
  dom' = [dom EXCEPT ![d] = p] /\ (p # None => name[p] # None /\ cpus[p] # {})
LEMMA DomChangesKeeps ==
  ASSUME IInv, DomChanges, UNCHANGED <<pools, cpus, name, stray, avail, online, xl>>
  PROVE  IInv'
<1>1. PICK d \in Guests, p \in pools \cup {None} :
        dom' = [dom EXCEPT ![d] = p] /\ (p # None => name[p] # None /\ cpus[p] # {})
  BY DEF DomChanges
<1>2. dom' \in [Guests -> pools \cup {None}] /\ dom'[d] = p /\ \A e \in Guests \ {d} : dom'[e] = dom[e]
  BY <1>1 DEF IInv, StateOk
<1>3. StateOk'
  BY <1>2 DEF IInv, StateOk
<1>4. GuestPoolUsable'
  BY <1>1, <1>2 DEF IInv, GuestPoolUsable
<1>5. CpusOk' /\ Named' 
  BY DEF IInv, CpusOk, Named, InHand
<1>6. SettledInv' <=> SettledInv
  BY DEF SettledInv, Settled
<1>7. SplitInv'
  BY <1>6 DEF IInv, SplitInv, AtNode, NextNode
<1> QED  BY <1>3, <1>4, <1>5, <1>7 DEF IInv

LEMMA GuestsKeep ==
  ASSUME IInv, NEW d \in Guests, NEW p \in PoolIds, MoveDomain(d, p) \/ GuestStarts(d, p) \/ GuestEnds(d)
  PROVE  IInv'
<1>1. DomChanges /\ UNCHANGED <<pools, cpus, name, stray, avail, online, xl>>
  BY DEF DomChanges, MoveDomain, GuestStarts, GuestEnds, Known
<1> QED  BY <1>1, DomChangesKeeps

LEMMA VcpusChangeKeeps ==
  ASSUME IInv, avail' \in 0..Vcpus, online' \in 1..Vcpus, UNCHANGED <<pools, cpus, dom, name, stray, xl>>
  PROVE  IInv'
<1>1. StateOk' /\ CpusOk' /\ Named' /\ GuestPoolUsable'
  BY DEF IInv, StateOk, CpusOk, Named, InHand, GuestPoolUsable
<1>2. SettledInv' <=> SettledInv
  BY DEF SettledInv, Settled
<1>3. SplitInv'
  BY <1>2 DEF IInv, SplitInv, AtNode, NextNode
<1> QED  BY <1>1, <1>3 DEF IInv

LEMMA VcpuSetKeeps == ASSUME IInv, NEW n \in 0..Vcpus, VcpuSet(n) PROVE IInv'
<1>1. avail' \in 0..Vcpus /\ online' \in 1..Vcpus /\ UNCHANGED <<pools, cpus, dom, name, stray, xl>>
  BY DEF VcpuSet, IInv, StateOk
<1> QED  BY <1>1, VcpusChangeKeeps

LEMMA Dom0FollowsKeeps == ASSUME IInv, Dom0Follows PROVE IInv'
<1>1. avail \in 0..Vcpus /\ online \in 1..Vcpus /\ Vcpus \in Nat
  BY CpuPoolsAssumption DEF IInv, StateOk
<1>2. avail' \in 0..Vcpus /\ online' \in 1..Vcpus /\ UNCHANGED <<pools, cpus, dom, name, stray, xl>>
  BY <1>1 DEF Dom0Follows
<1> QED  BY <1>2, VcpusChangeKeeps

LEMMA StutterKeeps == ASSUME IInv, UNCHANGED vars PROVE IInv'
<1>1. avail' \in 0..Vcpus /\ online' \in 1..Vcpus /\ UNCHANGED <<pools, cpus, dom, name, stray, xl>>
  BY DEF vars, IInv, StateOk
<1> QED  BY <1>1, VcpusChangeKeeps

-----------------------------------------------------------------------------
(* The steps of cpupool-numa-split *)

LEMMA StartSplitKeeps == ASSUME IInv, StartSplit PROVE IInv'
<1>1. /\ xl.pc = "idle" /\ pools = {0} /\ AddCpus(0, OfNode(NodeOf[0]))
      /\ xl' = [Idle EXCEPT !.pc = "split_name", !.nodes = Nodes]
      /\ UNCHANGED <<pools, dom, name, stray, avail, online>>
  BY DEF StartSplit
<1>2. xl' \in Commands /\ xl'.pc = "split_name" /\ xl'.nodes = Nodes
  BY <1>1, IdleTyped DEF Commands, Pcs, Idle
<1>3. CpusOk' /\ (\A q \in PoolIds \ {0} : cpus'[q] = cpus[q]) /\ cpus[0] \subseteq cpus'[0]
  BY <1>1, CpuSets, AddCpusOk DEF IInv, StateOk
<1>4. StateOk'
  BY <1>1, <1>2 DEF IInv, StateOk
<1>5. GuestPoolUsable'
  BY <1>1, <1>3, UsableStays DEF IInv
<1>6. Named'
  BY <1>1, <1>2 DEF IInv, Named, InHand
<1>7. SplitInv'
  BY <1>1, <1>2 DEF SplitInv, AtNode
<1> QED  BY <1>3, <1>4, <1>5, <1>6, <1>7 DEF IInv

LEMMA RenamePool0Keeps == ASSUME IInv, RenamePool0 PROVE IInv'
<1> DEFINE n == NodeOf[0]
<1>1. /\ xl.pc = "split_name" /\ name' = [name EXCEPT ![0] = NodeName(n)] /\ xl \in Commands
      /\ xl' = [xl EXCEPT !.pc = "split_vcpus", !.nodes = @ \ {n}] /\ pools = {0} /\ xl.nodes = Nodes
      /\ UNCHANGED <<pools, cpus, dom, stray, avail, online>> /\ name \in [PoolIds -> AllNames \cup {None}]
  BY DEF RenamePool0, IInv, StateOk, SplitInv
<1>2. n \in Nodes /\ 0 \in PoolIds /\ NodeName(n) \in AllNames /\ NodeName(n) # None
  BY CpuSets, NodeNames, NoneAssumption
<1>3. /\ xl' \in Commands /\ xl'.pc = "split_vcpus" /\ xl'.nodes = Nodes \ {n}
  BY <1>1 DEF Commands, Pcs
<1>4. /\ name' \in [PoolIds -> AllNames \cup {None}] /\ name'[0] = NodeName(n)
      /\ \A q \in PoolIds \ {0} : name'[q] = name[q]
  BY <1>1, <1>2
<1>5. CpusOk' /\ StateOk'
  BY <1>1, <1>3, <1>4 DEF IInv, CpusOk, StateOk
<1>6. GuestPoolUsable'
  BY <1>1, <1>2, <1>4 DEF IInv, GuestPoolUsable, StateOk
<1>7. Named'
  BY <1>1, <1>2, <1>3, <1>4 DEF IInv, Named, InHand
<1>8. SplitInv'
  BY <1>1, <1>3, <1>4 DEF SplitInv, AtNode
<1> QED  BY <1>5, <1>6, <1>7, <1>8 DEF IInv

LEMMA SetVcpusKeeps == ASSUME IInv, SetVcpus PROVE IInv'
<1>1. /\ xl.pc = "split_vcpus" /\ avail' = Vcpus0 /\ xl' = [xl EXCEPT !.pc = "split_wait"] /\ xl \in Commands
      /\ UNCHANGED <<pools, cpus, dom, name, stray, online>>
  BY DEF SetVcpus, IInv, StateOk
<1>2. xl' \in Commands /\ xl'.pc = "split_wait" /\ xl'.nodes = xl.nodes
  BY <1>1 DEF Commands, Pcs
<1>3. avail' \in 0..Vcpus
  BY <1>1, CpuSets, CpuPoolsAssumption DEF Vcpus0
<1>4. CpusOk' /\ StateOk' /\ GuestPoolUsable'
  BY <1>1, <1>2, <1>3 DEF IInv, CpusOk, StateOk, GuestPoolUsable
<1>5. Named'
  BY <1>1, <1>2 DEF IInv, Named, InHand
<1>6. SplitInv'
  BY <1>1, <1>2 DEF IInv, SplitInv, AtNode
<1> QED  BY <1>4, <1>5, <1>6 DEF IInv

LEMMA WaitVcpusKeeps == ASSUME IInv, WaitVcpus PROVE IInv'
<1>1. /\ xl.pc = "split_wait" /\ UNCHANGED <<pools, cpus, dom, name, stray, avail, online>> /\ xl \in Commands
      /\ \/ xl' = [xl EXCEPT !.pc = "split_next", !.tries = 0]
         \/ xl' = Idle
         \/ xl.tries + 1 # Tries /\ xl' = [xl EXCEPT !.tries = @ + 1]
  BY DEF WaitVcpus, GivesUp, IInv, StateOk
<1>2. CpusOk' /\ GuestPoolUsable' /\ name[0] # None /\ \A p \in PoolIds : name[p] # None <=> p \in pools \ stray
  BY <1>1 DEF IInv, CpusOk, GuestPoolUsable, Named, InHand
<1>3. /\ pools = {0} /\ name[0] = NodeName(NodeOf[0]) /\ xl.nodes = Nodes \ {NodeOf[0]}
      /\ NodeOf[0] \in Nodes
  BY <1>1, CpuSets DEF IInv, SplitInv
<1>4. CASE xl' = Idle
  BY <1>1, <1>2, <1>4, IdleOk, IdleTyped DEF IInv, StateOk
<1>5. CASE xl' = [xl EXCEPT !.pc = "split_next", !.tries = 0]
  <2>1. xl' \in Commands /\ xl'.pc = "split_next" /\ xl'.nodes = xl.nodes
    <3>1. 0 \in 0..(Tries - 1)
      BY CpuPoolsAssumption
    <3> QED  BY <1>1, <1>5, <3>1 DEF Commands, Pcs
  <2>2. StateOk' /\ Named'
    BY <1>1, <1>2, <2>1 DEF IInv, StateOk, Named, InHand
  <2>3. Settled' = {0}
    BY <1>1, <1>3, <2>1 DEF Settled
  <2>4. SettledInv'
    BY <1>1, <1>3, <2>1, <2>3 DEF SettledInv
  <2>5. SplitInv'
    BY <2>1, <2>4 DEF SplitInv
  <2> QED  BY <1>2, <2>2, <2>5 DEF IInv
<1>6. CASE xl.tries + 1 # Tries /\ xl' = [xl EXCEPT !.tries = @ + 1]
  <2>1. xl.tries + 1 \in 0..(Tries - 1)
    BY <1>1, <1>6, CpuPoolsAssumption DEF Commands
  <2>2. xl' \in Commands /\ xl'.pc = "split_wait" /\ xl'.nodes = xl.nodes
    BY <1>1, <1>6, <2>1 DEF Commands
  <2>3. StateOk' /\ Named'
    BY <1>1, <1>2, <2>2 DEF IInv, StateOk, Named, InHand
  <2>4. SplitInv'
    BY <1>1, <1>3, <2>2 DEF SplitInv, AtNode
  <2> QED  BY <1>2, <2>3, <2>4 DEF IInv
<1> QED  BY <1>1, <1>4, <1>5, <1>6

LEMMA SplitNodeKeeps == ASSUME IInv, SplitNode PROVE IInv'
<1>1. /\ xl.pc = "split_next" /\ xl.nodes # {} /\ RemoveCpus(0, OfNode(NextNode)) /\ xl \in Commands
      /\ xl' = [xl EXCEPT !.pc = "create", !.name = NodeName(NextNode), !.map = {}]
      /\ UNCHANGED <<pools, dom, name, stray, avail, online>> /\ xl.nodes \subseteq Nodes
  BY DEF SplitNode, IInv, StateOk, Commands
<1>2. NodeName(NextNode) \in AllNames
  BY <1>1, NextNodeIs, NodeNames
<1>3. /\ xl' \in Commands /\ xl'.pc = "create" /\ xl'.nodes = xl.nodes /\ xl'.map = {}
      /\ xl'.name = NodeName(NextNode)
  BY <1>1, <1>2 DEF Commands, Pcs
<1>4. /\ CpusOk' /\ (\A q \in PoolIds \ {0} : cpus'[q] = cpus[q]) /\ (HasDomain(0) => cpus'[0] # {})
  BY <1>1, RemoveCpusOk DEF IInv, StateOk
<1>5. GuestPoolUsable'
  BY <1>1, <1>4, UsableStays DEF IInv, HasDomain
<1>6. StateOk' /\ Named'
  BY <1>1, <1>3 DEF IInv, StateOk, Named, InHand
<1>7. SettledInv /\ Settled = pools /\ Settled' = pools
  BY <1>1, <1>3 DEF IInv, SplitInv, AtNode, Settled
<1>8. \A q \in pools \ {0} : cpus'[q] = cpus[q]
  BY <1>4 DEF IInv, StateOk
<1>9. SettledInv'
  BY <1>1, <1>3, <1>7, <1>8 DEF SettledInv
<1>10. NextNode' = NextNode
  BY <1>3 DEF NextNode
<1>11. SplitInv'
  BY <1>3, <1>9, <1>10 DEF SplitInv
<1> QED  BY <1>4, <1>5, <1>6, <1>11 DEF IInv

\* The pool that got its cpus is the one of a node that no other pool is of.
LEMMA FillNodeKeeps == ASSUME IInv, FillNode PROVE IInv'
<1> DEFINE p == xl.pool
           m == NextNode
<1>1. /\ xl.pc = "split_fill" /\ AddCpus(p, OfNode(m)) /\ xl \in Commands
      /\ xl' = [xl EXCEPT !.pc = "split_next", !.nodes = xl.nodes \ {m}]
      /\ UNCHANGED <<pools, dom, name, stray, avail, online>> /\ xl.nodes \subseteq Nodes
  BY DEF FillNode, CrossOut, IInv, StateOk, Commands
<1>2. /\ xl.nodes # {} /\ p \in pools \ {0} /\ cpus[p] = {} /\ name[p] = NodeName(m) /\ SettledInv
      /\ Settled = pools \ {p}
  BY <1>1 DEF IInv, SplitInv, AtNode, Settled
<1>3. m \in xl.nodes /\ m \in Nodes
  BY <1>1, <1>2, NextNodeIs
<1> HIDE DEF m
<1>4. xl' \in Commands /\ xl'.pc = "split_next" /\ xl'.nodes = xl.nodes \ {m}
  BY <1>1 DEF Commands, Pcs
<1>5. /\ CpusOk' /\ (\A q \in PoolIds \ {p} : cpus'[q] = cpus[q]) /\ cpus[p] \subseteq cpus'[p]
      /\ cpus'[p] \subseteq OfNode(m)
  BY <1>1, <1>2, CpuSets, AddCpusOk DEF IInv, StateOk
<1>6. GuestPoolUsable'
  BY <1>1, <1>5, UsableStays DEF IInv
<1>7. StateOk' /\ Named'
  BY <1>1, <1>4 DEF IInv, StateOk, Named, InHand
<1>8. Settled' = pools
  BY <1>1, <1>4 DEF Settled
<1>9. \A q \in Settled : cpus'[q] = cpus[q]
  BY <1>2, <1>5 DEF IInv, StateOk
<1>10. \A q \in Settled : name[q] # name[p]
  BY <1>2, <1>3, NodeNames DEF SettledInv
<1>11. /\ \A n \in Nodes \ xl'.nodes : \E q \in pools : name[q] = NodeName(n)
       /\ \A q \in pools : \E n \in Nodes \ xl'.nodes : name[q] = NodeName(n)
  BY <1>2, <1>3, <1>4 DEF SettledInv
<1>12. \A q, r \in pools : q # r => name[q] # name[r]
  BY <1>2, <1>10 DEF SettledInv
<1>13. \A q \in pools \ {0}, n \in Nodes : name[q] = NodeName(n) => cpus'[q] \subseteq OfNode(n)
  <2> TAKE q \in pools \ {0}, n \in Nodes
  <2> HAVE name[q] = NodeName(n)
  <2>1. CASE q = p
    BY <1>2, <1>5, <2>1, NodeNames
  <2>2. CASE q # p
    BY <1>2, <1>9, <2>2 DEF SettledInv
  <2> QED  BY <2>1, <2>2
<1>14. SettledInv'
  BY <1>1, <1>8, <1>11, <1>12, <1>13 DEF SettledInv
<1>15. SplitInv'
  BY <1>4, <1>14 DEF SplitInv
<1> QED  BY <1>5, <1>6, <1>7, <1>15 DEF IInv

LEMMA EndSplitKeeps == ASSUME IInv, EndSplit PROVE IInv'
<1>1. /\ xl.pc = "split_next" /\ xl' = Idle /\ UNCHANGED <<pools, cpus, dom, name, stray, avail, online>>
  BY DEF EndSplit
<1>2. CpusOk' /\ GuestPoolUsable' /\ name[0] # None /\ \A p \in PoolIds : name[p] # None <=> p \in pools \ stray
  BY <1>1 DEF IInv, CpusOk, GuestPoolUsable, Named, InHand
<1>3. StateOk'
  BY <1>1, IdleTyped DEF IInv, StateOk
<1> QED  BY <1>1, <1>2, <1>3, IdleOk

LEMMA AbandonSplitKeeps == ASSUME IInv, AbandonSplit PROVE IInv'
<1>1. /\ xl.pc \in {"split_name", "split_vcpus", "split_wait", "split_next", "split_fill"} /\ xl' = Idle
      /\ UNCHANGED <<pools, cpus, dom, name, stray, avail, online>>
  BY DEF AbandonSplit
<1>2. CpusOk' /\ GuestPoolUsable' /\ name[0] # None /\ \A p \in PoolIds : name[p] # None <=> p \in pools \ stray
  BY <1>1 DEF IInv, CpusOk, GuestPoolUsable, Named, InHand
<1>3. StateOk'
  BY <1>1, IdleTyped DEF IInv, StateOk
<1> QED  BY <1>1, <1>2, <1>3, IdleOk

-----------------------------------------------------------------------------

LEMMA StepKeeps == IInv /\ [Next]_vars => IInv'
<1> SUFFICES ASSUME IInv, [Next]_vars PROVE IInv'
  OBVIOUS
<1>1. CASE Command
  BY <1>1, CreatePoolKeeps, AddCpuKeeps, NamePoolKeeps, CheckEmptyKeeps, RemoveCpuKeeps, DestroyPoolKeeps,
     RemoveNameKeeps, RenamePool0Keeps, SetVcpusKeeps, WaitVcpusKeeps, SplitNodeKeeps, FillNodeKeeps,
     EndSplitKeeps, AbandonSplitKeeps DEF Command
<1>2. CASE User
  BY <1>2, StartCreateKeeps, CpupoolRenameKeeps, StartDestroyKeeps, CpuCommandsKeep, GuestsKeep, VcpuSetKeeps,
     StartSplitKeeps, CpuSets DEF User
<1>3. CASE Environment
  BY <1>3, GuestsKeep, Dom0FollowsKeeps, CpuSets DEF Environment
<1>4. CASE UNCHANGED vars
  BY <1>4, StutterKeeps
<1> QED  BY <1>1, <1>2, <1>3, <1>4 DEF Next

\* The inductive invariant.
THEOREM InvariantHolds == Spec => []IInv
<1>1. Init => IInv
  BY InitOk
<1>2. IInv /\ [Next]_vars => IInv'
  BY StepKeeps
<1> QED  BY <1>1, <1>2, PTL DEF Spec

\* Between two commands the pools that have a name are exactly those there are, but for
\* those of a creation that failed and could not be undone, which are the only ones that
\* have none (libxl.c:2965, 3014-3028); and the types are right.
THEOREM PoolsKeepNames == Spec => []PoolsHaveNames
<1>1. IInv => PoolsHaveNames
  <2> SUFFICES ASSUME IInv PROVE PoolsHaveNames
    OBVIOUS
  <2>1. TypeOK
    BY DEF IInv, CpusOk, StateOk, Commands, TypeOK
  <2>2. xl.pc = "idle" => \A p \in PoolIds : name[p] # None <=> p \in pools \ stray
    BY DEF IInv, Named, InHand
  <2> QED  BY <2>1, <2>2 DEF PoolsHaveNames
<1> QED  BY <1>1, InvariantHolds, PTL

\* A guest's pool has a name and a cpu, whichever command was at it when the
\* guest started.
THEOREM GuestPoolsStayUsable == Spec => []GuestPoolUsable
<1>1. IInv => GuestPoolUsable
  BY DEF IInv
<1> QED  BY <1>1, InvariantHolds, PTL

\* cpupool-numa-split makes one pool of each node that it went through, with
\* that node's name and no cpus of another.
THEOREM SplitStaysExact == Spec => []SplitExact
<1>1. IInv => SplitExact
  <2> SUFFICES ASSUME IInv, xl.pc = "split_next" PROVE SplitExact
    BY DEF SplitExact
  <2>1. SettledInv /\ Settled = pools
    BY DEF IInv, SplitInv, AtNode, Settled
  <2> QED  BY <2>1 DEF SettledInv, SplitExact
<1> QED  BY <1>1, InvariantHolds, PTL
=============================================================================

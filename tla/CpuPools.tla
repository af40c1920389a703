------------------------------ MODULE CpuPools ------------------------------
(***************************************************************************)
(* The cpupool commands of xl.  The hypervisor keeps which pools there are, *)
(* their cpus and their domains; xenstore keeps their names, by which the   *)
(* commands find them.  A command is a sequence of hypercalls, of which     *)
(* each may be refused, and of writes to xenstore; guests start and end in  *)
(* between.  One command runs at a time.  The entry pool_name of a guest,   *)
(* which nothing reads, is left out.                                        *)
(***************************************************************************)
EXTENDS Naturals, FiniteSets

CONSTANTS
  NodeOf,    \* the NUMA node of each cpu: a function on 0..(n - 1)
  Guests,    \* guests
  Names,     \* names that the user gives to pools
  MaxPool,   \* bound: largest pool id
  Vcpus,     \* virtual cpus of Domain-0
  None,      \* no pool, no name
  Tries      \* how often cpupool-numa-split looks at Domain-0 (10)

Cpus == DOMAIN NodeOf

ASSUME CpuPoolsAssumption ==
  /\ IsFiniteSet(Cpus) /\ Cpus # {} /\ Cpus = 0..(Cardinality(Cpus) - 1)
  /\ MaxPool \in Nat /\ Vcpus \in Nat \ {0} /\ Tries \in Nat \ {0}

VARIABLES
  pools,    \* the pools of the hypervisor...
  cpus,     \* ... with their cpus
  dom,      \* the pool of each guest; Domain-0 is in pool 0
  name,     \* /local/pool/<id>/name
  stray,    \* pools whose creation failed, and that could not be removed again
  avail,    \* how many vcpus of Domain-0 are told to be online...
  online,   \* ... and how many are
  xl        \* the command: where it is, and its variables

vars == <<pools, cpus, dom, name, stray, avail, online, xl>>

PoolIds == 0..MaxPool
Nodes == {NodeOf[c] : c \in Cpus}
Pool0Name == <<"Pool-", 0>>
NodeName(n) == <<"Pool-node", n>>
AllNames == Names \cup {Pool0Name} \cup {NodeName(n) : n \in Nodes}

ASSUME NoneAssumption == None \notin PoolIds /\ None \notin AllNames

Idle == [pc |-> "idle", pool |-> 0, name |-> Pool0Name, map |-> {}, nodes |-> {}, tries |-> 0]

OfNode(n) == {c \in Cpus : NodeOf[c] = n}
Free == Cpus \ UNION {cpus[p] : p \in pools}
First(S) == CHOOSE x \in S : \A y \in S : x <= y

\* What domains are in a pool.
HasDomain(p) == p = 0 \/ \E d \in Guests : dom[d] = p

\* cpupool_qualifier_to_cpupoolid, and the pool has a name.
Known(p) == p \in pools /\ name[p] # None

Init ==
  /\ pools = {0} /\ cpus = [p \in PoolIds |-> IF p = 0 THEN Cpus ELSE {}]
  /\ dom = [d \in Guests |-> None]
  /\ name = [p \in PoolIds |-> IF p = 0 THEN Pool0Name ELSE None]
  /\ stray = {}
  /\ avail = Vcpus /\ online = Vcpus
  /\ xl = Idle

-----------------------------------------------------------------------------
(* Hypercalls *)

\* xc_cpupool_addcpu, of some of the cpus in S: those that are free, and that
\* the hypervisor does not refuse.
AddCpus(p, S) ==
  \E T \in SUBSET (S \cap Free) : cpus' = [cpus EXCEPT ![p] = @ \cup T]

\* xc_cpupool_removecpu, of some of the cpus in S: the hypervisor may refuse any, and
\* does refuse the last one of a pool with domains.
MayRemove(p, T) == HasDomain(p) => cpus[p] \ T # {}
RemoveCpus(p, S) ==
  \E T \in SUBSET (S \cap cpus[p]) :
    MayRemove(p, T) /\ cpus' = [cpus EXCEPT ![p] = @ \ T]

\* xc_cpupool_create takes the lowest number.
NewPool(p) ==
  /\ p \in PoolIds \ pools /\ \A q \in 0..(p - 1) : q \in pools
  /\ pools' = pools \cup {p} /\ cpus' = [cpus EXCEPT ![p] = {}]

-----------------------------------------------------------------------------
(* cpupool-create *)

\* The cpus of the new pool: of "nodes", of "cpus", or the first that is free.
ChooseCpus(map) ==
  \/ \E N \in SUBSET Nodes : map = {c \in Free : NodeOf[c] \in N} /\ map # {}
  \/ map \subseteq Free
  \/ Free # {} /\ map = {First(Free)}

StartCreate(nm) ==
  /\ xl.pc = "idle"
  /\ \A p \in pools : name[p] # nm
  /\ \E map \in SUBSET Free :
       ChooseCpus(map) /\ xl' = [Idle EXCEPT !.pc = "create", !.name = nm, !.map = map]
  /\ UNCHANGED <<pools, cpus, dom, name, stray, avail, online>>

\* libxl_create_cpupool.  The hypervisor may refuse.
CreatePool ==
  /\ xl.pc = "create"
  /\ \/ \E p \in PoolIds : NewPool(p) /\ xl' = [xl EXCEPT !.pc = "add", !.pool = p]
     \/ xl' = Idle /\ UNCHANGED <<pools, cpus>>
  /\ UNCHANGED <<dom, name, stray, avail, online>>

\* What becomes of a creation when a cpu is refused.  Variant: nothing is undone.
NoCleanup == Idle
Cleanup == [xl EXCEPT !.pc = "check"]

AddCpu ==
  /\ xl.pc = "add" /\ xl.map # {}
  /\ LET c == First(xl.map)
     IN /\ AddCpus(xl.pool, {c})
        /\ xl' = IF c \in cpus'[xl.pool] THEN [xl EXCEPT !.map = @ \ {c}] ELSE Cleanup
  /\ UNCHANGED <<pools, dom, name, stray, avail, online>>

\* Where it goes on: for cpupool-numa-split with the cpus of the node.
NamePool ==
  /\ xl.pc = "add" /\ xl.map = {}
  /\ name' = [name EXCEPT ![xl.pool] = xl.name]
  /\ xl' = IF xl.nodes = {} THEN Idle ELSE [xl EXCEPT !.pc = "split_fill"]
  /\ UNCHANGED <<pools, cpus, dom, stray, avail, online>>

-----------------------------------------------------------------------------
(* cpupool-destroy *)

StartDestroy(p) ==
  /\ xl.pc = "idle" /\ Known(p)
  /\ xl' = [Idle EXCEPT !.pc = "check", !.pool = p]
  /\ UNCHANGED <<pools, cpus, dom, name, stray, avail, online>>

\* libxl_destroy_cpupool gives up: the pool is left with what it still has.  Who wanted to
\* undo a creation does not look at this, so the pool stays and never gets a name.
LeftAlone ==
  /\ xl' = Idle
  /\ stray' = IF name[xl.pool] = None THEN stray \cup {xl.pool} ELSE stray

\* It does so with a pool that has domains, or about which it cannot learn, ...
\* Variant: of any other, the name is removed first.
NameFirst == "unname"
CpusFirst == "remove"
CheckEmpty ==
  /\ xl.pc = "check"
  /\ \/ LeftAlone
     \/ /\ ~HasDomain(xl.pool)
        /\ xl' = [xl EXCEPT !.pc = CpusFirst, !.map = cpus[xl.pool]]
        /\ UNCHANGED stray
  /\ UNCHANGED <<pools, cpus, dom, name, avail, online>>

\* ... otherwise its cpus are removed one after the other, unless one is refused, ...
RemoveCpu ==
  /\ xl.pc = "remove" /\ xl.map # {}
  /\ LET c == First(xl.map)
     IN /\ RemoveCpus(xl.pool, {c})
        /\ IF c \in cpus'[xl.pool] THEN LeftAlone
           ELSE xl' = [xl EXCEPT !.map = @ \ {c}] /\ UNCHANGED stray
  /\ UNCHANGED <<pools, dom, name, avail, online>>

\* ... and then the pool, if the hypervisor agrees; only then its name.
DestroyPool ==
  /\ xl.pc = "remove" /\ xl.map = {}
  /\ \/ /\ ~HasDomain(xl.pool) /\ cpus[xl.pool] = {}
        /\ pools' = pools \ {xl.pool} /\ xl' = [xl EXCEPT !.pc = "unname"]
        /\ UNCHANGED stray
     \/ LeftAlone /\ UNCHANGED pools
  /\ UNCHANGED <<cpus, dom, name, avail, online>>

RemoveName ==
  /\ xl.pc = "unname"
  /\ name' = [name EXCEPT ![xl.pool] = None]
  /\ xl' = Idle
  /\ UNCHANGED <<pools, cpus, dom, stray, avail, online>>

-----------------------------------------------------------------------------
(* Commands of one step *)

\* cpupool-rename does not look whether another pool has the name.
CpupoolRename(p, nm) ==
  /\ xl.pc = "idle" /\ Known(p)
  /\ name' = [name EXCEPT ![p] = nm]
  /\ UNCHANGED <<pools, cpus, dom, stray, avail, online, xl>>

CpuAdd(p, c) ==
  /\ xl.pc = "idle" /\ Known(p)
  /\ AddCpus(p, {c})
  /\ UNCHANGED <<pools, dom, name, stray, avail, online, xl>>

CpuAddNode(p, n) ==
  /\ xl.pc = "idle" /\ Known(p)
  /\ AddCpus(p, OfNode(n))
  /\ UNCHANGED <<pools, dom, name, stray, avail, online, xl>>

CpuRemove(p, c) ==
  /\ xl.pc = "idle" /\ Known(p)
  /\ RemoveCpus(p, {c})
  /\ UNCHANGED <<pools, dom, name, stray, avail, online, xl>>

CpuRemoveNode(p, n) ==
  /\ xl.pc = "idle" /\ Known(p)
  /\ RemoveCpus(p, OfNode(n))
  /\ UNCHANGED <<pools, dom, name, stray, avail, online, xl>>

\* cpupool-migrate: the hypervisor wants a pool with a cpu.
MoveDomain(d, p) ==
  /\ xl.pc = "idle" /\ Known(p)
  /\ dom[d] # None /\ cpus[p] # {}
  /\ dom' = [dom EXCEPT ![d] = p]
  /\ UNCHANGED <<pools, cpus, name, stray, avail, online, xl>>

\* vcpu-set of Domain-0.
VcpuSet(n) ==
  /\ xl.pc = "idle"
  /\ avail' = n
  /\ UNCHANGED <<pools, cpus, dom, name, stray, online, xl>>

-----------------------------------------------------------------------------
(* cpupool-numa-split *)

\* Only when there is one pool, which takes the free cpus of the first node and
\* its name, ...
StartSplit ==
  /\ xl.pc = "idle" /\ pools = {0}
  /\ AddCpus(0, OfNode(NodeOf[0]))
  /\ xl' = [Idle EXCEPT !.pc = "split_name", !.nodes = Nodes]
  /\ UNCHANGED <<pools, dom, name, stray, avail, online>>

RenamePool0 ==
  /\ xl.pc = "split_name"
  /\ name' = [name EXCEPT ![0] = NodeName(NodeOf[0])]
  /\ xl' = [xl EXCEPT !.pc = "split_vcpus", !.nodes = @ \ {NodeOf[0]}]
  /\ UNCHANGED <<pools, cpus, dom, stray, avail, online>>

\* ... then Domain-0 has to do with as many vcpus, ...
Vcpus0 == IF Cardinality(OfNode(NodeOf[0])) < Vcpus THEN Cardinality(OfNode(NodeOf[0])) ELSE Vcpus
SetVcpus ==
  /\ xl.pc = "split_vcpus"
  /\ avail' = Vcpus0
  /\ xl' = [xl EXCEPT !.pc = "split_wait"]
  /\ UNCHANGED <<pools, cpus, dom, name, stray, online>>

\* ... for which it gets Tries seconds: this look at them is the last one.
GivesUp == xl.tries + 1 = Tries

WaitVcpus ==
  /\ xl.pc = "split_wait"
  /\ LET n == Cardinality(OfNode(NodeOf[0]))
     IN xl' = IF online = n \/ (online < n /\ GivesUp)
                THEN [xl EXCEPT !.pc = "split_next", !.tries = 0]
              ELSE IF GivesUp THEN Idle
              ELSE [xl EXCEPT !.tries = @ + 1]
  /\ UNCHANGED <<pools, cpus, dom, name, stray, avail, online>>

\* ... and each of the other nodes, in the order of their cpus, leaves pool 0
\* and gets a pool of its own.
NextNode == NodeOf[First({c \in Cpus : NodeOf[c] \in xl.nodes})]

SplitNode ==
  /\ xl.pc = "split_next" /\ xl.nodes # {}
  /\ RemoveCpus(0, OfNode(NextNode))
  /\ xl' = [xl EXCEPT !.pc = "create", !.name = NodeName(NextNode), !.map = {}]
  /\ UNCHANGED <<pools, dom, name, stray, avail, online>>

\* Variant: the node is not crossed out.
KeepNode == xl.nodes
CrossOut == xl.nodes \ {NextNode}
FillNode ==
  /\ xl.pc = "split_fill"
  /\ AddCpus(xl.pool, OfNode(NextNode))
  /\ xl' = [xl EXCEPT !.pc = "split_next", !.nodes = CrossOut]
  /\ UNCHANGED <<pools, dom, name, stray, avail, online>>

EndSplit ==
  /\ xl.pc = "split_next" /\ xl.nodes = {}
  /\ xl' = Idle
  /\ UNCHANGED <<pools, cpus, dom, name, stray, avail, online>>

\* Any call that fails ends it with what there is.
AbandonSplit ==
  /\ xl.pc \in {"split_name", "split_vcpus", "split_wait", "split_next", "split_fill"}
  /\ xl' = Idle
  /\ UNCHANGED <<pools, cpus, dom, name, stray, avail, online>>

-----------------------------------------------------------------------------
(* Guests and Domain-0 *)

\* A guest starts in a pool that has a name and a cpu, and ends.
GuestStarts(d, p) ==
  /\ dom[d] = None /\ Known(p) /\ cpus[p] # {}
  /\ dom' = [dom EXCEPT ![d] = p]
  /\ UNCHANGED <<pools, cpus, name, stray, avail, online, xl>>

GuestEnds(d) ==
  /\ dom[d] # None
  /\ dom' = [dom EXCEPT ![d] = None]
  /\ UNCHANGED <<pools, cpus, name, stray, avail, online, xl>>

\* Domain-0 follows, but for its first vcpu.
Dom0Follows ==
  /\ \/ online < avail /\ online' = online + 1
     \/ online > avail /\ online > 1 /\ online' = online - 1
  /\ UNCHANGED <<pools, cpus, dom, name, stray, avail, xl>>

-----------------------------------------------------------------------------
Command ==
  \/ CreatePool \/ AddCpu \/ NamePool
  \/ CheckEmpty \/ RemoveCpu \/ DestroyPool \/ RemoveName
  \/ RenamePool0 \/ SetVcpus \/ WaitVcpus \/ SplitNode \/ FillNode
  \/ EndSplit \/ AbandonSplit

User ==
  \/ \E nm \in Names : StartCreate(nm) \/ \E p \in PoolIds : CpupoolRename(p, nm)
  \/ \E p \in PoolIds :
       \/ StartDestroy(p)
       \/ \E c \in Cpus : CpuAdd(p, c) \/ CpuRemove(p, c)
       \/ \E n \in Nodes : CpuAddNode(p, n) \/ CpuRemoveNode(p, n)
       \/ \E d \in Guests : MoveDomain(d, p)
  \/ \E n \in 0..Vcpus : VcpuSet(n)
  \/ StartSplit

Environment ==
  \/ \E d \in Guests : GuestEnds(d) \/ \E p \in PoolIds : GuestStarts(d, p)
  \/ Dom0Follows

Next == Command \/ User \/ Environment

Spec == Init /\ [][Next]_vars

-----------------------------------------------------------------------------
(* Properties *)

TypeOK ==
  /\ 0 \in pools /\ pools \subseteq PoolIds
  /\ cpus \in [PoolIds -> SUBSET Cpus]
  /\ \A p, q \in PoolIds : p # q => cpus[p] \cap cpus[q] = {}
  /\ \A p \in PoolIds \ pools : cpus[p] = {}
  /\ dom \in [Guests -> pools \cup {None}]
  /\ name \in [PoolIds -> AllNames \cup {None}] /\ stray \subseteq pools
  /\ avail \in 0..Vcpus /\ online \in 1..Vcpus
  /\ xl.pool \in PoolIds /\ xl.map \subseteq Cpus /\ xl.nodes \subseteq Nodes
  /\ xl.tries \in 0..(Tries - 1)

\* Between two commands, what the hypervisor and xenstore say of pools agrees, but for
\* one case: no name is left of a pool that is gone, whatever the hypervisor refused, and a
\* pool without a name, which no command finds, is one whose creation failed and could not be
\* undone either (libxl.c:2965, 3014-3028).
PoolsHaveNames ==
  TypeOK /\ (xl.pc = "idle" => \A p \in PoolIds : name[p] # None <=> p \in pools \ stray)

\* A guest can be moved and its pool be given cpus, at any time: the pool has a
\* name, though cpupool-destroy may have been at it when the guest started.
GuestPoolUsable ==
  \A d \in Guests : dom[d] # None => name[dom[d]] # None /\ cpus[dom[d]] # {}

\* Each node that cpupool-numa-split went through has one pool with its name,
\* which has no cpus of other nodes, except that pool 0 may have those that the
\* hypervisor would not take from it; and no pool is there twice.
SplitExact ==
  xl.pc = "split_next" =>
    /\ \A n \in Nodes \ xl.nodes : \E p \in pools : name[p] = NodeName(n)
    /\ \A p, q \in pools : p # q => name[p] # name[q]
    /\ \A p \in pools \ {0}, n \in Nodes : name[p] = NodeName(n) => cpus[p] \subseteq OfNode(n)
=============================================================================

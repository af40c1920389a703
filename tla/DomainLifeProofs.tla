--------------------------- MODULE DomainLifeProofs ---------------------------
(* The theorems about the life of guests, for any number of processes, domains
   and commands.  Names stay unique because a transaction which may still commit
   was begun after the last write to xenstore, so that the look at the names,
   though outside of it, is not out of date.  Every guest is looked after, and
   only one of a configuration runs, because a process only makes another when
   the last one is finished, and gives up none that is not. *)
EXTENDS DomainLife, TLAPS

Names ==
  {<<>>, <<"g">>, <<"h">>} \cup {<<"g", minute>> : minute \in 0..MaxMinute}
AllReasons == Reasons \cup {None, "suspend", "poweroff"}

DomRec ==
  [st : {None, "new", "up", "shutdown", "dying", "gone"}, paused : BOOLEAN,
   reason : AllReasons, name : Names, by : Xl \cup {None},
   once_suspended : BOOLEAN, refused : BOOLEAN]
Nexts == {None, "build", "restart", "idle", "exited"}
Pcs ==
  Nexts \cup {"start", "lock", "create", "rename", "commit", "not_renamed", "userdata", "unpause",
    "fork", "watch", "select", "dead", "destroy", "destroy_domain", "error", "wait", "suspended"}
ProcRec ==
  [pc : Pcs, d : 0..MaxDom, to : Names, old : Names, next : Nexts, restore : BOOLEAN,
   spent : BOOLEAN, paused : BOOLEAN, daemonize : BOOLEAN, daemon : BOOLEAN,
   seen : AllReasons, exit : {None, "ok", "fail"}]

Renaming == {"rename", "commit"}

ProcsTyped ==
  /\ proc \in [Procs -> ProcRec]
  /\ \A p \in Procs : proc[p].pc \in Renaming => proc[p].to # <<>>
DomsTyped == dom \in [Ids -> DomRec]

\* Who may still commit has seen that the name is free, and so it is.
ValidFresh ==
  \A p \in valid : p \in Procs /\ At(p, "commit") /\ ~Taken(proc[p].to, Dom(p))

NameInv == ProcsTyped /\ DomsTyped /\ ValidFresh /\ NamesUnique

\* No domain gets a name other than none.
NamesKept ==
  \A d \in Ids : Exists(d)' =>
    dom'[d].name = <<>> \/ (Exists(d) /\ dom'[d].name = dom[d].name)

\* The processes whose transactions may commit are not disturbed.
ValidKept == \A p \in valid' : p \in valid /\ proc'[p] = proc[p]

LEMMA StillUnique ==
  ASSUME NamesUnique, NamesKept PROVE NamesUnique'
BY DEF NamesUnique, NamesKept, Ids

LEMMA StillFresh ==
  ASSUME ProcsTyped, ValidFresh, NamesKept, ValidKept PROVE ValidFresh'
<1> SUFFICES ASSUME NEW p \in valid'
             PROVE  p \in Procs /\ At(p, "commit")' /\ ~Taken(proc[p].to, Dom(p))'
  BY DEF ValidFresh
<1>1. p \in Procs /\ At(p, "commit") /\ ~Taken(proc[p].to, Dom(p)) /\ proc'[p] = proc[p]
  BY DEF ValidFresh, ValidKept
<1>2. proc[p].to # <<>>
  BY <1>1 DEF ProcsTyped, Renaming, At
<1>3. ASSUME Taken(proc[p].to, Dom(p))' PROVE FALSE
  <2>1. PICK e \in Ids \ {Dom(p)'} : Exists(e)' /\ dom'[e].name = proc'[p].to
    BY <1>3 DEF Taken, Ids
  <2>2. Exists(e) /\ dom[e].name = proc[p].to /\ e # Dom(p)
    BY <1>1, <1>2, <2>1 DEF NamesKept, Dom
  <2> QED  BY <1>1, <2>1, <2>2 DEF Taken
<1> QED  BY <1>1, <1>3 DEF At

LEMMA NoneValid == ASSUME valid' = {} PROVE ValidKept /\ ValidFresh'
BY DEF ValidKept, ValidFresh

-----------------------------------------------------------------------------
(* What the parts of a step do to the processes *)

\* Only p moves, and stays what a process is.
Moves(p) == ProcsTyped' /\ \A q \in Procs \ {p} : proc'[q] = proc[q]

LEMMA NameFacts ==
  /\ <<>> \in Names /\ <<"g">> \in Names /\ <<"h">> \in Names
  /\ <<"g">> # <<>> /\ <<"h">> # <<>>
  /\ \A minute \in 0..MaxMinute : <<"g", minute>> \in Names /\ <<"g", minute>> # <<>>
BY DEF Names

LEMMA PcFacts ==
  /\ {"start", "lock", "create", "rename", "commit", "not_renamed", "userdata", "unpause", "fork",
      "watch", "select", "dead", "destroy", "destroy_domain", "error", "wait", "suspended",
      "build", "restart", "idle", "exited"} \subseteq Pcs
  /\ {"build", "restart", "idle", "exited", None} \subseteq Nexts
  /\ Nexts \subseteq Pcs /\ Nexts \cap Renaming = {}
BY DEF Pcs, Nexts, Renaming, None

LEMMA NewTyped ==
  /\ NewProc \in ProcRec /\ Idle \in ProcRec
  /\ NewProc.to = <<>> /\ Idle.to = <<>> /\ NewProc.pc \notin Renaming /\ Idle.pc \notin Renaming
<1>1. MaxDom \in Nat
  BY ProcsAssumption
<1>2. NewProc \in ProcRec
  BY <1>1, NameFacts DEF NewProc, ProcRec, AllReasons, None, Pcs, Nexts
<1>3. Idle \in ProcRec
  BY <1>2 DEF Idle, ProcRec, Pcs, Nexts
<1>4. /\ NewProc.to = <<>> /\ Idle.to = <<>>
      /\ NewProc.pc = "start" /\ Idle.pc = "idle"
  BY DEF NewProc, Idle
<1> QED  BY <1>2, <1>3, <1>4 DEF Renaming

LEMMA SetMoves ==
  ASSUME ProcsTyped, NEW p \in Procs, NEW r \in ProcRec,
         r.pc \in Renaming => r.to # <<>>,
         proc' = [proc EXCEPT ![p] = r]
  PROVE  Moves(p)
BY DEF Moves, ProcsTyped

LEMMA GotoMoves ==
  ASSUME ProcsTyped, NEW p \in Procs, NEW pc \in Pcs,
         pc \in Renaming => proc[p].to # <<>>, Goto(p, pc)
  PROVE  Moves(p)
<1> DEFINE ended == [NewProc EXCEPT !.pc = pc, !.d = proc[p].d,
                       !.daemonize = proc[p].daemonize, !.exit = proc[p].exit]
           moved == [proc[p] EXCEPT !.pc = pc]
<1>1. proc[p] \in ProcRec
  BY DEF ProcsTyped
<1>2. CASE pc = "idle"
  <2>1. proc' = [proc EXCEPT ![p] = Idle]
    BY <1>2 DEF Goto
  <2> QED  BY <2>1, NewTyped, SetMoves
<1>3. CASE pc = "exited"
  <2>1. proc' = [proc EXCEPT ![p] = ended]
    BY <1>3 DEF Goto
  <2>2. ended \in ProcRec /\ ended.pc = "exited"
    BY <1>1, <1>3, NewTyped, PcFacts DEF ProcRec
  <2> QED  BY <2>1, <2>2, NewTyped, SetMoves DEF Renaming
<1>4. CASE pc \notin {"idle", "exited"}
  <2>1. proc' = [proc EXCEPT ![p] = moved]
    BY <1>4 DEF Goto
  <2>2. moved \in ProcRec /\ moved.pc = pc /\ moved.to = proc[p].to
    BY <1>1, PcFacts DEF ProcRec
  <2> QED  BY <1>1, <2>1, <2>2, SetMoves
<1> QED  BY <1>2, <1>3, <1>4

LEMMA FailMoves ==
  ASSUME ProcsTyped, NEW p \in Procs, Fail(p) PROVE Moves(p)
<1> DEFINE failed == [proc[p] EXCEPT !.pc = "error",
                                     !.exit = IF proc[p].daemon THEN @ ELSE "fail"]
<1>1. proc[p] \in ProcRec
  BY DEF ProcsTyped
<1>2. failed \in ProcRec /\ failed.pc = "error"
  BY <1>1, PcFacts DEF ProcRec
<1>3. proc' = [proc EXCEPT ![p] = failed]
  BY DEF Fail
<1> QED  BY <1>2, <1>3, SetMoves DEF Renaming

LEMMA StartDestroyMoves ==
  ASSUME ProcsTyped, NEW p \in Procs, NEW d \in 0..MaxDom, NEW next \in Nexts,
         StartDestroy(p, d, next)
  PROVE  Moves(p)
<1> DEFINE destroying == [proc[p] EXCEPT !.pc = "destroy", !.d = d, !.next = next]
<1>1. proc[p] \in ProcRec
  BY DEF ProcsTyped
<1>2. destroying \in ProcRec /\ destroying.pc = "destroy"
  BY <1>1, PcFacts DEF ProcRec
<1>3. proc' = [proc EXCEPT ![p] = destroying]
  BY DEF StartDestroy
<1> QED  BY <1>2, <1>3, SetMoves DEF Renaming

LEMMA StartRenameMoves ==
  ASSUME ProcsTyped, DomsTyped, NEW p \in Procs, NEW d \in Ids, NEW name \in Names \ {<<>>},
         NEW next \in Nexts, StartRename(p, d, name, next)
  PROVE  Moves(p)
<1> DEFINE renaming == [proc[p] EXCEPT !.pc = "rename", !.d = d, !.to = name,
                                       !.old = dom[d].name, !.next = next]
<1>1. proc[p] \in ProcRec /\ d \in 0..MaxDom /\ dom[d].name \in Names
  BY ProcsAssumption DEF ProcsTyped, DomsTyped, DomRec, Ids
<1>2. renaming \in ProcRec /\ renaming.to = name
  BY <1>1, PcFacts DEF ProcRec
<1>3. proc' = [proc EXCEPT ![p] = renaming]
  BY DEF StartRename
<1> QED  BY <1>2, <1>3, SetMoves

LEMMA DiscardMoves ==
  ASSUME ProcsTyped, DomsTyped, NEW p \in Procs, Discard(p)
  PROVE  Moves(p) /\ DomsTyped' /\ NamesKept
<1> DEFINE failed == [proc[p] EXCEPT !.pc = "error", !.d = 0,
                                     !.exit = IF proc[p].daemon THEN @ ELSE "fail"]
<1>1. proc[p] \in ProcRec /\ 0 \in 0..MaxDom
  BY ProcsAssumption DEF ProcsTyped
<1>2. failed \in ProcRec /\ failed.pc = "error"
  BY <1>1, PcFacts DEF ProcRec
<1>3. proc' = [proc EXCEPT ![p] = failed]
  BY DEF Discard
<1>4. Moves(p)
  BY <1>2, <1>3, SetMoves DEF Renaming
<1>5. DomsTyped' /\ NamesKept
  <2>1. CASE dom' = [dom EXCEPT ![Dom(p)] = Gone(Dom(p))]
    BY <2>1, NameFacts, ProcsAssumption
    DEF DomsTyped, NamesKept, DomRec, Gone, NoDomain, Exists, Ids, AllReasons, None
  <2>2. CASE /\ Exists(Dom(p))
             /\ dom' = [dom EXCEPT ![Dom(p)].paused = TRUE, ![Dom(p)].name = <<>>,
                                   ![Dom(p)].refused = TRUE]
    <3> DEFINE left == [dom[Dom(p)] EXCEPT !.paused = TRUE, !.name = <<>>, !.refused = TRUE]
    <3>1. Dom(p) \in Ids
      BY <1>1, <2>2 DEF Exists, ProcRec, Ids, Dom
    <3>2. left \in DomRec /\ left.name = <<>>
      BY <3>1, NameFacts DEF DomsTyped, DomRec
    <3>3. dom' = [dom EXCEPT ![Dom(p)] = left]
      BY <2>2
    <3> HIDE DEF left
    <3>4. DomsTyped'
      BY <3>1, <3>2, <3>3 DEF DomsTyped
    <3>5. NamesKept
      BY <3>1, <3>2, <3>3 DEF DomsTyped, NamesKept, Exists
    <3> QED  BY <3>4, <3>5
  <2> QED  BY <2>1, <2>2 DEF Discard
<1> QED  BY <1>4, <1>5

\* A step of one process that was not about to commit.
LEMMA OneMoves ==
  ASSUME NameInv, NEW p \in Procs, ~At(p, "commit"), Moves(p), DomsTyped', NamesKept,
         valid' \subseteq valid
  PROVE  NameInv'
<1>1. ValidKept
  BY DEF ValidKept, ValidFresh, NameInv, Moves
<1> QED  BY <1>1, StillFresh, StillUnique DEF NameInv, Moves

\* A step that leaves the processes as they are.
LEMMA NoneMoves ==
  ASSUME NameInv, UNCHANGED proc, DomsTyped', NamesKept, valid' \subseteq valid
  PROVE  NameInv'
<1>1. ValidKept /\ ProcsTyped'
  BY DEF ValidKept, ValidFresh, NameInv, ProcsTyped
<1> QED  BY <1>1, StillFresh, StillUnique DEF NameInv

LEMMA DomUnchanged ==
  ASSUME DomsTyped, UNCHANGED dom PROVE DomsTyped' /\ NamesKept
BY DEF DomsTyped, NamesKept, Exists

-----------------------------------------------------------------------------
(* The steps *)

LEMMA Member ==
  /\ \A p \in Xl : p \in Procs
  /\ User \in Procs
  /\ NameInv => \A p \in Procs :
       proc[p] \in ProcRec /\ Dom(p) \in 0..MaxDom /\ (Dom(p) # 0 => Dom(p) \in Ids)
BY ProcsAssumption DEF Procs, NameInv, ProcsTyped, ProcRec, Dom, Ids

\* Setting some of the fields of p, none of them to.
LEMMA SetNot ==
  ASSUME NameInv, NEW p \in Procs, NEW r \in ProcRec, r.pc \notin Renaming,
         proc' = [proc EXCEPT ![p] = r]
  PROVE  Moves(p)
BY SetMoves DEF NameInv

LEMMA StartStep ==
  ASSUME NameInv, NEW p \in Xl, Start(p) PROVE NameInv'
<1> USE Member
<1>1. PICK option \in Options : ReadConfig(p, option)
  BY DEF Start
<1> DEFINE ready == [proc[p] EXCEPT !.pc = "lock", !.restore = option = "restore",
                          !.paused = option = "create -p", !.daemonize = option # "create -e"]
           failed == [proc[p] EXCEPT !.pc = "exited", !.exit = "fail"]
<1>2. ready \in ProcRec /\ ready.pc = "lock"
  <2>1. {option = "restore", option = "create -p", option # "create -e"} \subseteq BOOLEAN
    OBVIOUS
  <2> QED  BY <2>1, PcFacts DEF ProcRec
<1>5. failed \in ProcRec /\ failed.pc = "exited"
  BY PcFacts DEF ProcRec
<1>3. proc' = [proc EXCEPT ![p] = ready] \/ proc' = [proc EXCEPT ![p] = failed]
  BY <1>1 DEF ReadConfig
<1>4. Moves(p)
  BY <1>2, <1>3, <1>5, SetNot DEF Renaming
<1> QED  BY <1>4, OneMoves, DomUnchanged DEF Start, At, NameInv

LEMMA AcquireStep ==
  ASSUME NameInv, NEW p \in Xl, AcquireLock(p) \/ LockFails(p) PROVE NameInv'
<1> USE Member
<1> DEFINE locked == [proc[p] EXCEPT !.pc = "create", !.d = 0]
           failed == [proc[p] EXCEPT !.pc = "error", !.d = 0,
                                     !.exit = IF proc[p].daemon THEN @ ELSE "ok"]
<1>1. 0 \in 0..MaxDom
  BY ProcsAssumption
<1>2. locked \in ProcRec /\ locked.pc = "create" /\ failed \in ProcRec /\ failed.pc = "error"
  BY <1>1, PcFacts DEF ProcRec
<1>3. proc' = [proc EXCEPT ![p] = locked] \/ proc' = [proc EXCEPT ![p] = failed]
  BY DEF AcquireLock, LockFails
<1>4. Moves(p)
  BY <1>2, <1>3, SetNot DEF Renaming
<1> QED  BY <1>4, OneMoves, DomUnchanged DEF AcquireLock, LockFails, At, NameInv

LEMMA CreateStep ==
  ASSUME NameInv, NEW p \in Xl, Create(p) PROVE NameInv'
<1> USE Member
<1>0. ~At(p, "commit")
  BY DEF Create, At
<1>1. CASE FreeMemFails(p)
  <2>1. Moves(p) /\ UNCHANGED <<dom, valid>>
    BY <1>1, FailMoves DEF FreeMemFails, NameInv
  <2> QED  BY <1>0, <2>1, OneMoves, DomUnchanged DEF NameInv
<1>2. CASE ~FreeMemFails(p)
  <2>1. PICK d \in Ids :
          /\ dom[d].st = None
          /\ dom' = [dom EXCEPT ![d] = [NoDomain EXCEPT !.st = "new", !.paused = TRUE, !.by = p]]
          /\ StoreWritten
          /\ proc' = [proc EXCEPT ![p].pc = "rename", ![p].d = d, ![p].to = <<"g">>,
                                  ![p].old = <<>>, ![p].next = "build"]
    BY <1>2 DEF Create
  <2> DEFINE new == [NoDomain EXCEPT !.st = "new", !.paused = TRUE, !.by = p]
             naming == [proc[p] EXCEPT !.pc = "rename", !.d = d, !.to = <<"g">>,
                                       !.old = <<>>, !.next = "build"]
  <2>2. naming \in ProcRec /\ naming.to = <<"g">>
    <3>1. d \in 0..MaxDom
      BY ProcsAssumption DEF Ids
    <3> QED  BY <3>1, NameFacts, PcFacts DEF ProcRec
  <2>3. Moves(p)
    BY <2>1, <2>2, NameFacts, SetMoves DEF NameInv
  <2>4. new \in DomRec /\ new.name = <<>>
    BY NameFacts DEF NoDomain, DomRec, AllReasons, None
  <2>5. DomsTyped' /\ NamesKept
    BY <2>1, <2>4 DEF NameInv, DomsTyped, NamesKept, Exists
  <2> QED  BY <1>0, <2>1, <2>3, <2>5, OneMoves DEF StoreWritten
<1> QED  BY <1>1, <1>2

LEMMA BuildStep ==
  ASSUME NameInv, NEW p \in Xl, Build(p) PROVE NameInv'
<1> USE Member
<1>0. ~At(p, "commit") /\ UNCHANGED valid
  BY DEF Build, At
<1>1. CASE Discard(p)
  BY <1>0, <1>1, DiscardMoves, OneMoves DEF NameInv
<1>2. CASE ~Discard(p)
  <2> DEFINE built == [proc[p] EXCEPT !.pc = "userdata", !.spent = proc[p].restore]
             d == Dom(p)
  <2>1. /\ proc' = [proc EXCEPT ![p] = built] /\ Exists(d)
        /\ dom' = IF dom[d].st = "new" THEN [dom EXCEPT ![d].st = "up"] ELSE dom
    BY <1>2 DEF Build
  <2>2. built \in ProcRec /\ built.pc = "userdata"
    BY PcFacts DEF ProcRec
  <2>3. Moves(p)
    BY <2>1, <2>2, SetNot DEF Renaming
  <2>4. DomsTyped' /\ NamesKept
    <3>1. dom \in [Ids -> DomRec]
      BY DEF NameInv, DomsTyped
    <3> QED  BY <2>1, <3>1 DEF DomsTyped, NamesKept, Exists, DomRec, None
  <2> QED  BY <1>0, <2>3, <2>4, OneMoves
<1> QED  BY <1>1, <1>2

LEMMA StoreConfigStep ==
  ASSUME NameInv, NEW p \in Xl, StoreConfig(p) PROVE NameInv'
<1>1. Moves(p)
  <2>1. CASE Goto(p, "unpause")
    BY <2>1, Member, PcFacts, GotoMoves DEF NameInv, Renaming
  <2>2. CASE Fail(p)
    BY <2>2, Member, FailMoves DEF NameInv
  <2> QED  BY <2>1, <2>2 DEF StoreConfig
<1> QED  BY <1>1, Member, OneMoves, DomUnchanged DEF StoreConfig, At, NameInv

\* Pausing and unpausing.
LEMMA PauseKeeps ==
  ASSUME DomsTyped, NEW d \in Ids, NEW b \in BOOLEAN, dom' = [dom EXCEPT ![d].paused = b]
  PROVE  DomsTyped' /\ NamesKept
BY DEF DomsTyped, NamesKept, Exists, DomRec

LEMMA BootedStep ==
  ASSUME NameInv, NEW p \in Xl, Booted(p) PROVE NameInv'
<1> USE Member
<1> DEFINE where == IF ~proc[p].daemonize THEN "exited" ELSE IF proc[p].daemon THEN "watch" ELSE "fork"
           booted == [proc[p] EXCEPT !.pc = where, !.to = <<>>, !.old = <<>>, !.next = None,
                                     !.exit = IF proc[p].daemonize THEN @ ELSE "ok"]
<1>1. where \in {"exited", "watch", "fork"}
  OBVIOUS
<1>2. proc' = [proc EXCEPT ![p] = booted]
  BY DEF Booted
<1>3. Moves(p)
  <2> HIDE DEF where
  <2>1. booted \in ProcRec
    BY <1>1, NameFacts, PcFacts DEF ProcRec
  <2>2. booted.pc = where
    BY DEF ProcRec
  <2> QED  BY <1>1, <1>2, <2>1, <2>2, SetNot DEF Renaming
<1>4. DomsTyped' /\ NamesKept
  <2>1. CASE UNCHANGED dom
    BY <2>1, DomUnchanged DEF NameInv
  <2>2. CASE Exists(Dom(p)) /\ Unpause(Dom(p))
    BY <2>2, PauseKeeps DEF Unpause, Exists, NameInv
  <2> QED  BY <2>1, <2>2 DEF Booted
<1> QED  BY <1>3, <1>4, OneMoves DEF Booted, At

LEMMA ForkStep ==
  ASSUME NameInv, NEW p \in Xl, Fork(p) PROVE NameInv'
<1> USE Member
<1> DEFINE daemon == [proc[p] EXCEPT !.pc = "watch", !.daemon = TRUE, !.exit = "ok"]
<1>1. Moves(p)
  <2>1. CASE Fail(p)
    BY <2>1, FailMoves DEF NameInv
  <2>2. CASE proc' = [proc EXCEPT ![p] = daemon]
    <3>1. daemon \in ProcRec /\ daemon.pc = "watch"
      BY PcFacts DEF ProcRec
    <3> QED  BY <2>2, <3>1, SetNot DEF Renaming
  <2> QED  BY <2>1, <2>2 DEF Fork
<1> QED  BY <1>1, OneMoves, DomUnchanged DEF Fork, At, NameInv

LEMMA WatchStep ==
  ASSUME NameInv, NEW p \in Xl, Watch(p) PROVE NameInv'
<1>1. Moves(p)
  BY Member, PcFacts, GotoMoves DEF Watch, WaitForDeath, NameInv, Renaming
<1> QED  BY <1>1, Member, OneMoves, DomUnchanged DEF Watch, At, NameInv

LEMMA GetEventStep ==
  ASSUME NameInv, NEW p \in Xl, GetEvent(p) PROVE NameInv'
<1> USE Member
<1> DEFINE reason == ShutdownReason(Dom(p))
           seeing == [proc[p] EXCEPT !.pc = "dead", !.seen = reason]
<1>0. ~At(p, "commit") /\ UNCHANGED <<dom, valid>>
  BY DEF GetEvent, At
<1>1. CASE UNCHANGED proc
  BY <1>0, <1>1, NoneMoves, DomUnchanged DEF NameInv
<1>2. CASE Goto(p, "exited")
  <2>1. Moves(p)
    BY <1>2, PcFacts, GotoMoves DEF NameInv, Renaming
  <2> QED  BY <1>0, <2>1, OneMoves, DomUnchanged DEF NameInv
<1>3. CASE DeathInfo(Dom(p)) \notin {"alive", "error"} /\ proc' = [proc EXCEPT ![p] = seeing]
  <2>1. Dom(p) \in Ids
    BY <1>3 DEF DeathInfo, Exists
  <2>2. reason \in AllReasons
    BY <2>1 DEF ShutdownReason, NameInv, DomsTyped, DomRec, AllReasons
  <2>3. seeing \in ProcRec /\ seeing.pc = "dead"
    BY <2>2, PcFacts DEF ProcRec
  <2>4. Moves(p)
    BY <1>3, <2>3, SetNot DEF Renaming
  <2> QED  BY <1>0, <2>4, OneMoves, DomUnchanged DEF NameInv
<1>4. \/ UNCHANGED proc \/ Goto(p, "exited")
      \/ DeathInfo(Dom(p)) \notin {"alive", "error"} /\ proc' = [proc EXCEPT ![p] = seeing]
  <2> HIDE DEF reason
  <2>1. \/ UNCHANGED proc \/ Goto(p, "exited")
        \/ DeathInfo(Dom(p)) \notin {"alive", "error"}
            /\ proc' = [proc EXCEPT ![p].pc = "dead", ![p].seen = reason]
    BY DEF GetEvent, DeathInfo, reason
  <2> QED  BY <2>1
<1> QED  BY <1>1, <1>2, <1>3, <1>4

LEMMA DeathStep ==
  ASSUME NameInv, NEW p \in Xl, HandleDomainDeath(p) PROVE NameInv'
<1> USE Member
<1>1. CASE Goto(p, "exited")
  BY <1>1, PcFacts, GotoMoves, OneMoves, DomUnchanged DEF NameInv, Renaming, HandleDomainDeath, At
<1>2. CASE \E next \in {"exited", "restart"} : StartDestroy(p, Dom(p), next)
  BY <1>2, PcFacts, StartDestroyMoves, OneMoves, DomUnchanged DEF NameInv, HandleDomainDeath, At
<1>3. CASE PreserveDomain(p)
  <2>1. PICK minute \in 0..MaxMinute : Preserve(p, minute)
    BY <1>3 DEF PreserveDomain
  <2> DEFINE preserving == [proc[p] EXCEPT !.pc = "rename", !.to = <<"g", minute>>,
                                           !.old = <<"g">>, !.next = "restart"]
  <2>2. preserving \in ProcRec /\ preserving.to = <<"g", minute>>
    BY NameFacts, PcFacts DEF ProcRec
  <2>3. proc' = [proc EXCEPT ![p] = preserving]
    BY <2>1 DEF Preserve
  <2>4. Moves(p)
    BY <2>2, <2>3, NameFacts, SetMoves DEF NameInv
  <2> QED  BY <2>4, OneMoves, DomUnchanged DEF NameInv, HandleDomainDeath, At
<1>4. Action(proc[p].seen) \in Actions
  BY ConfigAssumption DEF Action, Actions
<1> QED  BY <1>1, <1>2, <1>3, <1>4 DEF HandleDomainDeath, Actions

LEMMA RestartStep ==
  ASSUME NameInv, NEW p \in Xl, Restart(p) PROVE NameInv'
<1> USE Member
<1> DEFINE again == [proc[p] EXCEPT !.pc = "lock", !.paused = FALSE, !.seen = None,
                                  !.to = <<>>, !.old = <<>>, !.next = None]
<1>1. again \in ProcRec /\ again.pc = "lock"
  BY PcFacts, NameFacts DEF ProcRec, AllReasons
<1>2. proc' = [proc EXCEPT ![p] = again]
  BY DEF Restart
<1>3. Moves(p)
  BY <1>1, <1>2, SetNot DEF Renaming
<1> QED  BY <1>3, OneMoves, DomUnchanged DEF Restart, At, NameInv

LEMMA ErrorStep ==
  ASSUME NameInv, NEW p \in Xl, Error(p) PROVE NameInv'
<1> USE Member
<1>1. Moves(p)
  <2>1. CASE StartDestroy(p, Dom(p), "exited")
    BY <2>1, PcFacts, StartDestroyMoves DEF NameInv
  <2>2. CASE Goto(p, "exited")
    BY <2>2, PcFacts, GotoMoves DEF NameInv, Renaming
  <2> QED  BY <2>1, <2>2 DEF Error, ErrorOut
<1> QED  BY <1>1, OneMoves, DomUnchanged DEF Error, At, NameInv

\* The look at the names: nothing has been written since the transaction began.
LEMMA CheckNameStep ==
  ASSUME NameInv, NEW p \in Procs, CheckName(p) PROVE NameInv'
<1> USE Member
<1> DEFINE may == ~Taken(proc[p].to, Dom(p)) /\ dom[Dom(p)].name = proc[p].old
<1>1. At(p, "rename") /\ ~At(p, "commit") /\ proc[p].to # <<>> /\ UNCHANGED dom
  BY DEF CheckName, At, NameInv, ProcsTyped, Renaming
<1>2. CASE may
  <2>1. valid' = valid \cup {p} /\ Goto(p, "commit")
    BY <1>2 DEF CheckName
  <2>2. Moves(p)
    BY <1>1, <2>1, PcFacts, GotoMoves DEF NameInv
  <2>3. proc'[p].pc = "commit" /\ proc'[p].to = proc[p].to /\ proc'[p].d = proc[p].d
    BY <2>1 DEF Goto, NameInv, ProcsTyped, ProcRec
  <2>4. ASSUME NEW q \in valid' PROVE q \in Procs /\ At(q, "commit")' /\ ~Taken(proc[q].to, Dom(q))'
    <3>1. CASE q = p
      BY <1>1, <1>2, <2>3, <3>1 DEF Taken, At, Dom, Exists
    <3>2. CASE q # p
      <4>1. q \in valid /\ q \in Procs /\ proc'[q] = proc[q]
        BY <2>1, <2>2, <3>2 DEF NameInv, ValidFresh, Moves
      <4> QED  BY <1>1, <4>1 DEF NameInv, ValidFresh, Taken, At, Dom, Exists
    <3> QED  BY <3>1, <3>2
  <2>5. ValidFresh'
    BY <2>4 DEF ValidFresh
  <2> QED  BY <1>1, <2>2, <2>5, DomUnchanged, StillUnique DEF NameInv, Moves
<1>3. CASE ~may
  <2>1. valid' = valid /\ Goto(p, "not_renamed")
    BY <1>3 DEF CheckName
  <2>2. Moves(p)
    BY <2>1, PcFacts, GotoMoves DEF NameInv, Renaming
  <2> QED  BY <1>1, <2>1, <2>2, OneMoves, DomUnchanged DEF NameInv
<1> QED  BY <1>2, <1>3

\* A name is written: it was free when the transaction began, and so it still is.
LEMMA CommitStep ==
  ASSUME NameInv, NEW p \in Procs, Commit(p) PROVE NameInv'
<1> USE Member
<1>1. CASE Commits(p) /\ StoreWritten
  <2>1. /\ dom' = [dom EXCEPT ![Dom(p)].name = proc[p].to] /\ Goto(p, proc[p].next)
        /\ p \in valid /\ valid' = {}
    <3>1. Commits(p) /\ dom' = [dom EXCEPT ![Dom(p)].name = proc[p].to] /\ Goto(p, proc[p].next)
      BY <1>1 DEF Commit
    <3> QED  BY <1>1, <3>1 DEF Commits, StoreWritten
  <2>2. ProcsTyped'
    <3>1. proc[p].next \in Pcs /\ proc[p].next \notin Renaming
      BY PcFacts DEF ProcRec
    <3> QED  BY <2>1, <3>1, GotoMoves DEF NameInv, Moves
  <2>3. DomsTyped'
    <3>1. proc[p].to \in Names
      BY DEF ProcRec
    <3> QED  BY <2>1, <3>1 DEF NameInv, DomsTyped, DomRec
  <2>4. NamesUnique'
    <3>1. ~Taken(proc[p].to, Dom(p))
      BY <2>1 DEF NameInv, ValidFresh
    <3>2. ASSUME NEW d \in Ids PROVE /\ Exists(d)' => Exists(d)
                                     /\ dom'[d].name = IF d = Dom(p) THEN proc[p].to ELSE dom[d].name
      BY <2>1 DEF NameInv, DomsTyped, DomRec, Exists
    <3>3. ASSUME NEW d \in Ids, NEW e \in Ids, d # e, Exists(d)', Exists(e)', dom'[d].name = dom'[e].name
          PROVE  dom'[d].name = <<>>
      <4>1. CASE d = Dom(p)
        BY <3>1, <3>2, <3>3, <4>1 DEF Taken
      <4>2. CASE e = Dom(p)
        BY <3>1, <3>2, <3>3, <4>2 DEF Taken
      <4>3. CASE d # Dom(p) /\ e # Dom(p)
        BY <3>2, <3>3, <4>3 DEF NameInv, NamesUnique
      <4> QED  BY <4>1, <4>2, <4>3
    <3> QED  BY <3>3 DEF NamesUnique, Ids
  <2> QED  BY <2>1, <2>2, <2>3, <2>4, NoneValid DEF NameInv
<1>2. CASE ~Commits(p)
  <2>1. p \notin valid /\ Goto(p, "rename") /\ UNCHANGED <<dom, valid>> /\ proc[p].to # <<>>
    BY <1>2 DEF Commit, Commits, NameInv, ProcsTyped, At, Renaming
  <2>2. Moves(p)
    BY <2>1, PcFacts, GotoMoves DEF NameInv
  <2>3. ValidKept
    BY <2>1, <2>2 DEF ValidKept, ValidFresh, NameInv, Moves
  <2> QED  BY <2>1, <2>2, <2>3, DomUnchanged, StillFresh, StillUnique DEF NameInv, Moves
<1> QED  BY <1>1, <1>2 DEF Commit

LEMMA NotRenamedStep ==
  ASSUME NameInv, NEW p \in Procs, NotRenamed(p) PROVE NameInv'
<1> USE Member
<1>0. ~At(p, "commit") /\ UNCHANGED valid
  BY DEF NotRenamed, At
<1>1. CASE Discard(p)
  BY <1>0, <1>1, DiscardMoves, OneMoves DEF NameInv
<1>2. CASE \E pc \in {"idle", "exited"} : Goto(p, pc) /\ UNCHANGED dom
  <2>1. Moves(p)
    BY <1>2, PcFacts, GotoMoves DEF NameInv, Renaming
  <2> QED  BY <1>0, <1>2, <2>1, OneMoves, DomUnchanged DEF NameInv
<1> QED  BY <1>1, <1>2 DEF NotRenamed

\* A domain shuts down, is resumed or cannot be destroyed: its name stays.
LEMMA StateKeeps ==
  ASSUME DomsTyped, NEW d \in Ids, NEW r \in DomRec, Exists(d), r.name = dom[d].name,
         dom' = [dom EXCEPT ![d] = r]
  PROVE  DomsTyped' /\ NamesKept
BY DEF DomsTyped, NamesKept, Exists

LEMMA DestroyStep ==
  ASSUME NameInv, NEW p \in Procs, DestroyDevices(p) \/ DestroyDomain(p) PROVE NameInv'
<1> USE Member
<1> DEFINE d == Dom(p)
<1>1. proc[p].next \in Pcs /\ proc[p].next \notin Renaming
  BY PcFacts DEF ProcRec
<1>2. \E pc \in Pcs \ Renaming : Goto(p, pc)
  BY <1>1, PcFacts DEF DestroyDevices, DestroyDomain, Renaming
<1>3. Moves(p)
  BY <1>2, GotoMoves DEF NameInv
<1>4. valid' \subseteq valid
  BY DEF DestroyDevices, DestroyDomain, StoreWritten
<1>5. DomsTyped' /\ NamesKept
  <2>1. CASE UNCHANGED dom
    BY <2>1, DomUnchanged DEF NameInv
  <2>2. CASE Exists(d) /\ dom' = [dom EXCEPT ![d].paused = TRUE, ![d].name = <<>>]
    BY <2>2, NameFacts DEF NameInv, DomsTyped, NamesKept, DomRec, Exists
  <2>3. CASE Exists(d) /\ \E new \in Destroyed(d) : dom' = [dom EXCEPT ![d] = new]
    <3>1. dom \in [Ids -> DomRec] /\ d \in Ids
      BY <2>3 DEF NameInv, DomsTyped, Exists
    <3>2. CASE dom' = [dom EXCEPT ![d] = Gone(d)]
      BY <3>1, <3>2, NameFacts DEF DomsTyped, NamesKept, DomRec, Exists, Gone, NoDomain, AllReasons, None
    <3>3. CASE dom' = [dom EXCEPT ![d] = [dom[d] EXCEPT !.st = "dying"]]
      BY <2>3, <3>1, <3>3 DEF DomsTyped, NamesKept, DomRec, Exists
    <3>4. CASE dom' = [dom EXCEPT ![d] = [dom[d] EXCEPT !.refused = TRUE]]
      <4> DEFINE left == [dom[d] EXCEPT !.refused = TRUE]
      <4>1. left \in DomRec /\ left.name = dom[d].name
        BY <3>1 DEF DomRec
      <4>2. dom' = [dom EXCEPT ![d] = left]
        BY <3>4
      <4> HIDE DEF left
      <4> QED  BY <2>3, <3>1, <4>1, <4>2, StateKeeps DEF NameInv
    <3> QED  BY <2>3, <3>2, <3>3, <3>4 DEF Destroyed
  <2> QED  BY <2>1, <2>2, <2>3 DEF DestroyDevices, DestroyDomain
<1> QED  BY <1>3, <1>4, <1>5, OneMoves DEF DestroyDevices, DestroyDomain, At

LEMMA IdsFacts == \A d \in Ids : d # 0 /\ d \in 0..MaxDom
BY ProcsAssumption DEF Ids

LEMMA UserStartsStep ==
  ASSUME NameInv, UserStarts PROVE NameInv'
<1> USE Member
<1>1. PICK d \in Ids :
        \/ PauseCommand(d) \/ UnpauseCommand(d) \/ ShutdownCommand(d) \/ DestroyCommand(d)
        \/ SaveCommand(d)
        \/ \E name \in {<<"g">>, <<"h">>} : RenameCommand(d, name)
  BY DEF UserStarts
<1>2. CASE PauseCommand(d) \/ UnpauseCommand(d)
  BY <1>2, PauseKeeps, NoneMoves DEF PauseCommand, UnpauseCommand, Unpause, NameInv
<1>3. CASE ShutdownCommand(d)
  <2> DEFINE waiting == [proc[User] EXCEPT !.pc = "wait", !.d = d]
  <2>1. CASE UNCHANGED proc
    BY <1>3, <2>1, NoneMoves, DomUnchanged DEF ShutdownCommand, AskGuest, StoreWritten, NameInv
  <2>2. CASE proc' = [proc EXCEPT ![User] = waiting]
    <3>1. d \in 0..MaxDom
      BY ProcsAssumption DEF Ids
    <3>2. waiting \in ProcRec /\ waiting.pc = "wait"
      BY <3>1, PcFacts DEF ProcRec
    <3>3. Moves(User)
      BY <2>2, <3>2, SetNot DEF Renaming
    <3> QED  BY <1>3, <3>3, OneMoves, DomUnchanged
             DEF ShutdownCommand, Command, At, AskGuest, StoreWritten, NameInv
  <2> QED  BY <1>3, <2>1, <2>2 DEF ShutdownCommand
<1>4. CASE DestroyCommand(d)
  <2>1. d \in 0..MaxDom
    BY ProcsAssumption DEF Ids
  <2>2. Moves(User)
    BY <1>4, <2>1, PcFacts, StartDestroyMoves DEF DestroyCommand, NameInv
  <2> QED  BY <1>4, <2>2, OneMoves, DomUnchanged DEF DestroyCommand, Command, At, NameInv
<1>5. CASE SaveCommand(d)
  <2> DEFINE suspending == [proc[User] EXCEPT !.pc = "suspended", !.d = d]
             asleep == [dom[d] EXCEPT !.st = "shutdown", !.reason = "suspend", !.once_suspended = TRUE]
  <2>1. d \in 0..MaxDom
    BY ProcsAssumption DEF Ids
  <2>2. suspending \in ProcRec /\ suspending.pc = "suspended"
    BY <2>1, PcFacts DEF ProcRec
  <2>3. Moves(User)
    <3>1. proc' = [proc EXCEPT ![User] = suspending]
      BY <1>5 DEF SaveCommand, Suspend
    <3> QED  BY <2>2, <3>1, SetNot DEF Renaming
  <2>4. dom[d] \in DomRec
    BY DEF NameInv, DomsTyped
  <2>5. asleep \in DomRec /\ asleep.name = dom[d].name
    BY <2>4 DEF DomRec, AllReasons
  <2>6. dom' = [dom EXCEPT ![d] = asleep] /\ Exists(d)
    BY <1>5 DEF SaveCommand, Suspend, Command
  <2>7. DomsTyped' /\ NamesKept
    BY <2>5, <2>6, StateKeeps DEF NameInv
  <2> QED  BY <1>5, <2>3, <2>7, OneMoves DEF SaveCommand, Suspend, Command, At
<1>6. ASSUME NEW name \in {<<"g">>, <<"h">>}, RenameCommand(d, name) PROVE NameInv'
  <2>1. Moves(User)
    BY <1>6, NameFacts, PcFacts, StartRenameMoves DEF RenameCommand, NameInv
  <2> QED  BY <1>6, <2>1, OneMoves, DomUnchanged DEF RenameCommand, Command, At, NameInv
<1> QED  BY <1>1, <1>2, <1>3, <1>4, <1>5, <1>6

LEMMA UserStepStep ==
  ASSUME NameInv, UserStep PROVE NameInv'
<1> USE Member
<1> DEFINE d == Dom(User)
<1>1. ~At(User, "commit") /\ valid' = valid
  BY DEF UserStep, WaitEvent, SaveEnds, Resume, At
<1>2. CASE UNCHANGED proc /\ UNCHANGED dom
  BY <1>1, <1>2, NoneMoves, DomUnchanged DEF NameInv
<1>3. CASE ~(UNCHANGED proc /\ UNCHANGED dom)
  <2>1. Moves(User)
    <3>1. CASE Goto(User, "idle")
      BY <3>1, PcFacts, GotoMoves DEF NameInv, Renaming
    <3>2. CASE StartDestroy(User, d, "idle")
      BY <3>2, PcFacts, StartDestroyMoves DEF NameInv
    <3> QED  BY <1>3, <3>1, <3>2 DEF UserStep, WaitEvent, SaveEnds, Resume
  <2>2. DomsTyped' /\ NamesKept
    <3>1. CASE UNCHANGED dom
      BY <3>1, DomUnchanged DEF NameInv
    <3>2. CASE Unpause(d)
      <4>1. CASE d \in Ids
        BY <3>2, <4>1, PauseKeeps DEF Unpause, NameInv
      <4>2. CASE d \notin Ids
        <5>1. dom' = dom
          BY <3>2, <4>2 DEF Unpause, NameInv, DomsTyped
        <5> QED  BY <5>1, DomUnchanged DEF NameInv
      <4> QED  BY <4>1, <4>2
    <3>3. CASE /\ Suspended(d)
               /\ dom' = [dom EXCEPT ![d].st = "up", ![d].reason = None]
      <4>1. CASE d \in Ids
        <5> DEFINE awake == [dom[d] EXCEPT !.st = "up", !.reason = None]
        <5>1. dom[d] \in DomRec
          BY <4>1 DEF NameInv, DomsTyped
        <5>2. awake \in DomRec /\ awake.name = dom[d].name
          BY <5>1 DEF DomRec, AllReasons
        <5>3. Exists(d)
          BY <3>3, <4>1, IdsFacts DEF Suspended, Exists, None
        <5>4. dom' = [dom EXCEPT ![d] = awake]
          BY <3>3
        <5> QED  BY <4>1, <5>2, <5>3, <5>4, StateKeeps DEF NameInv
      <4>2. CASE d \notin Ids
        <5>1. dom' = dom
          BY <3>3, <4>2 DEF NameInv, DomsTyped
        <5> QED  BY <5>1, DomUnchanged DEF NameInv
      <4> QED  BY <4>1, <4>2
    <3> QED  BY <3>1, <3>2, <3>3 DEF UserStep, WaitEvent, SaveEnds, Resume
  <2> QED  BY <1>1, <2>1, <2>2, OneMoves
<1> QED  BY <1>2, <1>3

LEMMA GuestsStep ==
  ASSUME NameInv, Guests PROVE NameInv'
<1>1. PICK d \in Ids : Reap(d) \/ \E r \in Reasons : Shutdown(d, r)
  BY DEF Guests
<1>2. dom \in [Ids -> DomRec] /\ dom[d] \in DomRec
  BY DEF NameInv, DomsTyped
<1>3. CASE Reap(d)
  <2>1. DomsTyped' /\ NamesKept
    BY <1>2, <1>3, NameFacts
    DEF Reap, DomsTyped, NamesKept, DomRec, Exists, Gone, NoDomain, AllReasons, None
  <2> QED  BY <1>3, <2>1, NoneMoves DEF Reap
<1>4. ASSUME NEW r \in Reasons, Shutdown(d, r) PROVE NameInv'
  <2> DEFINE down == [dom[d] EXCEPT !.st = "shutdown", !.reason = r]
  <2>1. down \in DomRec /\ down.name = dom[d].name
    BY <1>2 DEF DomRec, AllReasons
  <2>0. Exists(d)
    BY <1>4, IdsFacts DEF Shutdown, Up, Exists, None
  <2>2. dom' = [dom EXCEPT ![d] = down]
    BY <1>4 DEF Shutdown
  <2>3. DomsTyped' /\ NamesKept
    BY <2>0, <2>1, <2>2, StateKeeps DEF NameInv
  <2> QED  BY <1>4, <2>3, NoneMoves DEF Shutdown
<1> QED  BY <1>1, <1>3, <1>4

-----------------------------------------------------------------------------
(* The theorem *)

LEMMA InitNames == Init => NameInv
<1> SUFFICES ASSUME Init PROVE NameInv
  OBVIOUS
<1>1. ProcsTyped
  BY NewTyped DEF Init, ProcsTyped
<1>2. DomsTyped
  <2>1. NoDomain \in DomRec
    BY NameFacts DEF NoDomain, DomRec, AllReasons, None
  <2> QED  BY <2>1 DEF Init, DomsTyped
<1>3. ValidFresh /\ NamesUnique
  BY DEF Init, ValidFresh, NamesUnique, Exists, NoDomain, Ids
<1> QED  BY <1>1, <1>2, <1>3 DEF NameInv

LEMMA NamesInductive == NameInv /\ [Next]_vars => NameInv'
<1> SUFFICES ASSUME NameInv, [Next]_vars PROVE NameInv'
  OBVIOUS
<1>1. ASSUME NEW p \in Xl, XlRuns(p) PROVE NameInv'
  BY <1>1, StartStep, AcquireStep, CreateStep, BuildStep, StoreConfigStep, BootedStep, ForkStep,
     WatchStep, GetEventStep, DeathStep, RestartStep, ErrorStep DEF XlRuns, XlStep
<1>2. ASSUME NEW p \in Xl, LockFails(p) PROVE NameInv'
  BY <1>2, AcquireStep
<1>3. ASSUME NEW p \in Procs, LibxlRuns(p) PROVE NameInv'
  BY <1>3, CheckNameStep, CommitStep, NotRenamedStep, DestroyStep DEF LibxlRuns, LibxlStep
<1>4. CASE UserStarts
  BY <1>4, UserStartsStep
<1>5. CASE UserStep
  BY <1>5, UserStepStep
<1>6. CASE Guests
  BY <1>6, GuestsStep
<1>7. CASE UNCHANGED vars
  <2>1. UNCHANGED <<dom, proc, valid>>
    BY <1>7 DEF vars
  <2> QED  BY <2>1, NoneMoves, DomUnchanged DEF NameInv
<1> QED  BY <1>1, <1>2, <1>3, <1>4, <1>5, <1>6, <1>7 DEF Next, Over

\* "nonempty names must be unique" (libxl.c:148): libxl__domain_rename keeps it so,
\* for any number of processes that rename, create, preserve and destroy at the
\* same time, though it looks for the name outside of its transaction.
THEOREM NamesStayUnique == Spec => []NamesUnique
<1>1. NameInv => NamesUnique
  BY DEF NameInv
<1> QED  BY InitNames, NamesInductive, <1>1, PTL DEF Spec

-----------------------------------------------------------------------------
(* Who looks after a domain *)

\* A domain that is over, as far as Xen allows; or will not come up again; or is
\* up, was never suspended and was not to be destroyed.
Ended(d) == dom[d].st \in {"dying", "gone"} \/ dom[d].refused
Finished(d) == dom[d].st \in {"shutdown", "dying", "gone"} /\ ~Suspended(d)
Unsaved(d) == Up(d) /\ ~dom[d].once_suspended /\ ~dom[d].refused

Naming == {"rename", "commit", "not_renamed"}
Destroying == {"destroy", "destroy_domain"}
Restarts(p) == proc[p].next = "restart" /\ proc[p].pc \in Naming \cup Destroying

\* A process on its way to make the domain it has into a guest.
Building(p) == proc[p].pc = "build" \/ (proc[p].pc \in Naming /\ proc[p].next = "build")

\* A process that has no domain, or only one that it saw finished.
Free(p) ==
  \/ proc[p].pc \in {"start", "lock", "create", "restart"}
  \/ Restarts(p)
  \/ proc[p].pc = "dead" /\ proc[p].seen # "suspend"
  \/ proc[p].pc \in Destroying /\ proc[p].seen # None

\* Where a process may be, and with which variables.
WhereInv(p) ==
  /\ proc[p].pc \notin {"idle", "wait", "suspended"}
  /\ proc[p].pc = "start" => ~proc[p].daemon
  /\ proc[p].pc \in Naming => proc[p].next \in {"build", "restart"}
  /\ proc[p].pc \in Destroying => proc[p].next \in {"exited", "restart"}
  /\ proc[p].pc \in {"watch", "select", "dead", "restart"} \/ Restarts(p) => proc[p].daemon
  /\ proc[p].daemon => proc[p].exit = "ok"
  /\ proc[p].seen # None => proc[p].pc \in Destroying \cup {"dead", "restart"} \/ Restarts(p)
  /\ proc[p].exit = "fail" =>
       proc[p].pc \in {"error", "exited"} \/ (proc[p].pc \in Destroying /\ proc[p].next = "exited")

\* Of all domains that a process made, it looks after the last one, unless that
\* is finished; others it could not finish and could not destroy.
OneInv(p) ==
  /\ Dom(p) # 0 => dom[Dom(p)].by = p
  /\ \A d \in Ids : dom[d].by = p =>
       Finished(d) \/ (d = Dom(p) /\ ~Free(p)) \/ (d # Dom(p) /\ dom[d].st = "new")
  /\ Building(p) /\ Dom(p) # 0 => Finished(Dom(p)) \/ dom[Dom(p)].st = "new"

\* What it leaves behind when it exits.
LeftInv(p) ==
  \A d \in Ids : dom[d].by = p =>
    /\ ~proc[p].daemon /\ proc[p].pc # "exited" =>
         Ended(d) \/ (d = Dom(p) /\ proc[p].pc \notin {"start", "lock", "create"})
    /\ proc[p].pc = "exited" /\ proc[p].exit = "fail" => Ended(d)
    /\ proc[p].pc = "dead" \/ (proc[p].pc = "exited" /\ proc[p].daemonize) => ~Unsaved(d)

ProcInv(p) == WhereInv(p) /\ OneInv(p) /\ LeftInv(p)

MakersKnown ==
  \A d \in Ids : dom[d].by \in Xl \cup {None} /\ (dom[d].by = None <=> dom[d].st = None)
EventsTyped == event \in [Procs -> {None, "quiet", "pending"}]
LockInv ==
  lock # None =>
    /\ lock \in Xl
    /\ \/ proc[lock].pc \in {"create", "build", "userdata", "error"}
       \/ proc[lock].pc \in Naming /\ proc[lock].next = "build"
UserInv ==
  /\ Dom(User) # 0 => dom[Dom(User)].st # None
  /\ proc[User].pc \in Naming => proc[User].next = "idle"
  /\ At(User, "suspended") =>
       Dom(User) # 0 /\ (dom[Dom(User)].st = "gone" \/ dom[Dom(User)].once_suspended)

LifeInv ==
  MakersKnown /\ EventsTyped /\ LockInv /\ UserInv /\ \A p \in Xl : ProcInv(p)

-----------------------------------------------------------------------------
(* What steps do to domains *)

\* A domain that is left as it was, or is further on its way.
Later(d) ==
  /\ dom'[d].by = dom[d].by /\ (dom'[d].st = None <=> dom[d].st = None)
  /\ Finished(d) => Finished(d)'
  /\ Ended(d) => Ended(d)'
  /\ dom[d].st = "gone" => dom'[d].st = "gone"
  /\ dom[d].once_suspended => dom'[d].once_suspended \/ dom'[d].st = "gone"
Quiet(d) ==
  /\ Later(d)
  /\ Unsaved(d)' => Unsaved(d)
  /\ dom[d].st = "new" => dom'[d].st = "new" \/ Finished(d)'

LEMMA SameQuiet == ASSUME UNCHANGED dom PROVE \A d \in Ids : Quiet(d)
BY DEF Quiet, Later, Finished, Ended, Unsaved, Suspended, Up

LEMMA OneQuiet ==
  ASSUME DomsTyped, NEW d, NEW r, dom' = [dom EXCEPT ![d] = r],
         d \in Ids =>
           /\ r.by = dom[d].by /\ dom[d].st # None
           /\ dom[d].refused => r.refused \/ r.st = "gone"
           /\ \/ r.st = "gone"
              \/ r.st = "dying" /\ dom[d].st # "gone" /\ r.once_suspended = dom[d].once_suspended
              \/ /\ r.st = dom[d].st /\ r.reason = dom[d].reason
                 /\ r.once_suspended = dom[d].once_suspended
              \/ Up(d) /\ r.st = "shutdown" /\ (dom[d].once_suspended => r.once_suspended)
              \/ Suspended(d) /\ r.st = "up" /\ r.once_suspended
  PROVE  \A e \in Ids : Quiet(e)
<1> SUFFICES ASSUME NEW e \in Ids PROVE Quiet(e)
  OBVIOUS
<1>1. CASE e # d
  <2>1. dom'[e] = dom[e]
    BY <1>1 DEF DomsTyped
  <2> QED  BY <2>1 DEF Quiet, Later, Finished, Ended, Unsaved, Suspended, Up
<1>2. CASE e = d
  <2>1. dom'[d] = r
    BY <1>2 DEF DomsTyped
  <2> QED  BY <1>2, <2>1 DEF Quiet, Later, Finished, Ended, Unsaved, Suspended, Up, None
<1> QED  BY <1>1, <1>2

\* A process that does not move, of whose domains none is disturbed.
LEMMA Bystander ==
  ASSUME NEW p \in Xl, ProcInv(p), proc'[p] = proc[p], Dom(p) \in 0..MaxDom,
         \A d \in Ids : (dom'[d].by = p <=> dom[d].by = p) /\ (dom[d].by = p => Quiet(d))
  PROVE  ProcInv(p)'
<1>1. WhereInv(p)' /\ (Free(p)' <=> Free(p)) /\ Dom(p)' = Dom(p)
  BY DEF ProcInv, WhereInv, Restarts, Free, Dom
<1>2. OneInv(p)'
  <2>1. Dom(p) # 0 => Dom(p) \in Ids
    BY ProcsAssumption DEF Ids
  <2> QED  BY <1>1, <2>1 DEF ProcInv, OneInv, Building, Naming, Quiet, Later
<1>3. LeftInv(p)'
  BY <1>1 DEF ProcInv, LeftInv, Quiet, Later
<1> QED  BY <1>1, <1>2, <1>3 DEF ProcInv

LEMMA UserWaits ==
  ASSUME NameInv, UserInv, proc'[User] = proc[User], \A d \in Ids : dom[d].st # None => Later(d)
  PROVE  UserInv'
BY Member DEF UserInv, At, Dom, Later

LEMMA LockWaits ==
  ASSUME LockInv, NEW p \in Procs, \A q \in Procs \ {p} : proc'[q] = proc[q],
         UNCHANGED lock, lock # p
  PROVE  LockInv'
BY DEF LockInv, Procs

\* A step of a process that only helps domains on their way, and only brings up
\* one of its own.
LEMMA XlMoves ==
  ASSUME NameInv, LifeInv, NEW p \in Xl, \A q \in Procs \ {p} : proc'[q] = proc[q],
         \A d \in Ids : Later(d) /\ (dom[d].by # p => Quiet(d)), ProcInv(p)', EventsTyped', LockInv'
  PROVE  LifeInv'
<1>1. ASSUME NEW q \in Xl PROVE ProcInv(q)'
  <2>1. CASE q # p
    <3>1. proc'[q] = proc[q] /\ Dom(q) \in 0..MaxDom
      BY <2>1, Member
    <3>2. ProcInv(q)
      BY DEF LifeInv
    <3> QED  BY <2>1, <3>1, <3>2, Bystander DEF Later
  <2> QED  BY <2>1
<1>2. MakersKnown'
  BY DEF LifeInv, MakersKnown, Later
<1>3. UserInv'
  <2>1. proc'[User] = proc[User]
    BY Member, ProcsAssumption
  <2>2. UserInv /\ \A d \in Ids : Later(d)
    BY DEF LifeInv
  <2> QED  BY <2>1, <2>2, UserWaits
<1> QED  BY <1>1, <1>2, <1>3 DEF LifeInv

\* A step of the user, or of a guest.
LEMMA UserMoves ==
  ASSUME NameInv, LifeInv, \A q \in Xl : proc'[q] = proc[q],
         \A d \in Ids : Quiet(d), EventsTyped', UNCHANGED lock, UserInv'
  PROVE  LifeInv'
<1>1. ASSUME NEW q \in Xl PROVE ProcInv(q)'
  <2>1. ProcInv(q) /\ proc'[q] = proc[q] /\ Dom(q) \in 0..MaxDom
    BY Member DEF LifeInv
  <2> QED  BY <2>1, Bystander DEF Quiet, Later
<1>2. MakersKnown'
  BY DEF LifeInv, MakersKnown, Quiet, Later
<1>3. LockInv'
  BY DEF LifeInv, LockInv
<1> QED  BY <1>1, <1>2, <1>3 DEF LifeInv

-----------------------------------------------------------------------------
(* What steps do to the process that takes them *)

LEMMA SetIs ==
  ASSUME NameInv, NEW p \in Procs, NEW r, proc' = [proc EXCEPT ![p] = r]
  PROVE  proc'[p] = r /\ \A q \in Procs \ {p} : proc'[q] = proc[q]
BY DEF NameInv, ProcsTyped

LEMMA GotoIs ==
  ASSUME NameInv, NEW p \in Procs, NEW pc, Goto(p, pc)
  PROVE  /\ \A q \in Procs \ {p} : proc'[q] = proc[q]
         /\ proc'[p].pc = pc
         /\ pc \notin {"idle", "exited"} => proc'[p] = [proc[p] EXCEPT !.pc = pc]
         /\ pc = "exited" =>
              /\ proc'[p].d = proc[p].d /\ proc'[p].daemonize = proc[p].daemonize
              /\ proc'[p].exit = proc[p].exit
              /\ proc'[p].daemon = FALSE /\ proc'[p].seen = None
         /\ pc = "idle" => proc'[p].d = 0
<1>1. proc[p] \in ProcRec
  BY Member
<1>2. CASE pc = "idle"
  <2>1. proc' = [proc EXCEPT ![p] = Idle]
    BY <1>2 DEF Goto
  <2>2. Idle.pc = "idle" /\ Idle.d = 0
    BY DEF Idle, NewProc
  <2> QED  BY <1>2, <2>1, <2>2, SetIs
<1>3. CASE pc = "exited"
  <2> DEFINE r == [NewProc EXCEPT !.pc = pc, !.d = proc[p].d, !.daemonize = proc[p].daemonize,
                                  !.exit = proc[p].exit]
  <2>1. proc' = [proc EXCEPT ![p] = r]
    BY <1>3 DEF Goto
  <2>2. /\ r.pc = pc /\ r.d = proc[p].d /\ r.daemonize = proc[p].daemonize /\ r.exit = proc[p].exit
        /\ r.daemon = FALSE /\ r.seen = None
    BY DEF NewProc
  <2> HIDE DEF r
  <2> QED  BY <1>3, <2>1, <2>2, SetIs
<1>4. CASE pc \notin {"idle", "exited"}
  <2> DEFINE r == [proc[p] EXCEPT !.pc = pc]
  <2>1. proc' = [proc EXCEPT ![p] = r]
    BY <1>4 DEF Goto
  <2>2. r.pc = pc
    BY <1>1 DEF ProcRec
  <2> HIDE DEF r
  <2>3. proc'[p] = r /\ \A q \in Procs \ {p} : proc'[q] = proc[q]
    BY <2>1, SetIs
  <2> QED  BY <1>4, <2>2, <2>3 DEF r
<1> QED  BY <1>2, <1>3, <1>4

\* A process that has failed: what it made is gone, or its last domain is not
\* finished and will be destroyed.
LEMMA FailIs ==
  ASSUME NameInv, LifeInv, NEW p \in Xl, Fail(p), UNCHANGED dom, proc[p].seen = None,
         proc[p].pc # "exited"
  PROVE  /\ ProcInv(p)' /\ proc'[p].pc = "error"
         /\ \A q \in Procs \ {p} : proc'[q] = proc[q]
<1> DEFINE r == [proc[p] EXCEPT !.pc = "error", !.exit = IF proc[p].daemon THEN @ ELSE "fail"]
<1>1. proc[p] \in ProcRec /\ p \in Procs /\ ProcInv(p)
  BY Member DEF LifeInv
<1>2. proc' = [proc EXCEPT ![p] = r]
  BY DEF Fail
<1>3. /\ r.pc = "error" /\ r.d = proc[p].d /\ r.seen = None /\ r.next = proc[p].next
      /\ r.daemon = proc[p].daemon /\ r.exit = IF proc[p].daemon THEN proc[p].exit ELSE "fail"
  BY <1>1 DEF ProcRec
<1> HIDE DEF r
<1>4. proc'[p] = r /\ \A q \in Procs \ {p} : proc'[q] = proc[q]
  BY <1>1, <1>2, SetIs
<1>5. WhereInv(p)'
  BY <1>1, <1>3, <1>4 DEF ProcInv, WhereInv, Restarts, Naming, Destroying
<1>6. OneInv(p)'
  BY <1>1, <1>3, <1>4 DEF ProcInv, OneInv, Building, Free, Restarts, Naming, Destroying, Dom, Finished, Suspended
<1>7. LeftInv(p)'
  BY <1>1, <1>3, <1>4 DEF ProcInv, LeftInv, Dom, Ended
<1> QED  BY <1>3, <1>4, <1>5, <1>6, <1>7 DEF ProcInv

\* Of a domain that cannot be finished nothing is left that could come up.
LEMMA DiscardIs ==
  ASSUME NameInv, LifeInv, NEW p \in Xl, Discard(p), proc[p].seen = None,
         proc[p].pc \notin {"start", "lock", "create", "exited"}, Building(p)
  PROVE  /\ ProcInv(p)' /\ proc'[p].pc = "error" /\ \A d \in Ids : Quiet(d)
         /\ \A q \in Procs \ {p} : proc'[q] = proc[q]
<1> DEFINE r == [proc[p] EXCEPT !.pc = "error", !.d = 0, !.exit = IF proc[p].daemon THEN @ ELSE "fail"]
<1>1. proc[p] \in ProcRec /\ p \in Procs /\ ProcInv(p) /\ MakersKnown
  BY Member DEF LifeInv
<1>2. proc' = [proc EXCEPT ![p] = r]
  BY DEF Discard
<1>3. /\ r.pc = "error" /\ r.d = 0 /\ r.seen = None /\ r.next = proc[p].next
      /\ r.daemon = proc[p].daemon /\ r.exit = IF proc[p].daemon THEN proc[p].exit ELSE "fail"
  BY <1>1 DEF ProcRec
<1> HIDE DEF r
<1>4. proc'[p] = r /\ \A q \in Procs \ {p} : proc'[q] = proc[q]
  BY <1>1, <1>2, SetIs
<1> DEFINE left == [dom[Dom(p)] EXCEPT !.paused = TRUE, !.name = <<>>, !.refused = TRUE]
<1>5. PICK new \in {Gone(Dom(p)), left} :
        dom' = [dom EXCEPT ![Dom(p)] = new]
  BY DEF Discard
<1>6. Dom(p) \in Ids =>
        /\ dom[Dom(p)].st # None /\ new.by = dom[Dom(p)].by
        /\ \/ new.st = "gone"
           \/ /\ new.st = dom[Dom(p)].st /\ new.reason = dom[Dom(p)].reason /\ new.refused
              /\ new.once_suspended = dom[Dom(p)].once_suspended
  <2> SUFFICES ASSUME Dom(p) \in Ids
               PROVE  /\ dom[Dom(p)].st # None /\ new.by = dom[Dom(p)].by
                      /\ \/ new.st = "gone"
                         \/ /\ new.st = dom[Dom(p)].st /\ new.reason = dom[Dom(p)].reason
                            /\ new.refused
                            /\ new.once_suspended = dom[Dom(p)].once_suspended
    OBVIOUS
  <2>1. dom[Dom(p)] \in DomRec
    BY DEF NameInv, DomsTyped
  <2>2. dom[Dom(p)].st # None
    BY <1>1, IdsFacts, ProcsAssumption, NoneAssumption DEF ProcInv, OneInv, Building, Naming, MakersKnown, Procs
  <2>3. Gone(Dom(p)).st = "gone" /\ Gone(Dom(p)).by = dom[Dom(p)].by
    BY DEF Gone, NoDomain
  <2>4. /\ left.st = dom[Dom(p)].st /\ left.reason = dom[Dom(p)].reason /\ left.refused
        /\ left.once_suspended = dom[Dom(p)].once_suspended /\ left.by = dom[Dom(p)].by
    BY <2>1 DEF DomRec
  <2> HIDE DEF left
  <2> QED  BY <1>5, <2>2, <2>3, <2>4
<1> HIDE DEF left
<1>7. \A d \in Ids : Quiet(d)
  BY <1>5, <1>6, OneQuiet DEF NameInv
<1>8. ASSUME NEW d \in Ids, d = Dom(p)
      PROVE  Ended(d)' /\ (dom'[d].st = "new" \/ Finished(d)')
  <2>1. dom'[d] = new /\ Quiet(d)
    BY <1>5, <1>7, <1>8 DEF NameInv, DomsTyped
  <2>2. Finished(d) \/ dom[d].st = "new"
    BY <1>1, <1>8, IdsFacts DEF ProcInv, OneInv
  <2>3. Ended(d)'
    <3>1. dom'[d].st = "gone" \/ dom'[d].refused
      BY <1>6, <1>8, <2>1
    <3> QED  BY <3>1 DEF Ended
  <2> QED  BY <2>1, <2>2, <2>3 DEF Quiet, Later
<1>9. WhereInv(p)'
  BY <1>1, <1>3, <1>4 DEF ProcInv, WhereInv, Restarts, Naming, Destroying
<1>10. OneInv(p)'
  <2>1. Dom(p)' = 0 /\ ~Building(p)'
    BY <1>3, <1>4 DEF Dom, Building, Naming
  <2>2. ASSUME NEW d \in Ids, dom'[d].by = p PROVE Finished(d)' \/ (d # 0 /\ dom'[d].st = "new")
    <3>1. dom[d].by = p /\ Quiet(d) /\ d # 0
      BY <1>7, <2>2, IdsFacts DEF Quiet, Later
    <3>2. CASE d = Dom(p)
      BY <1>8, <3>1, <3>2
    <3>3. CASE d # Dom(p)
      <4>1. Finished(d) \/ dom[d].st = "new"
        BY <1>1, <3>1, <3>3 DEF ProcInv, OneInv, Building, Naming
      <4> QED  BY <3>1, <4>1 DEF Quiet, Later
    <3> QED  BY <3>2, <3>3
  <2> QED  BY <2>1, <2>2 DEF OneInv, Building, Naming
<1>11. LeftInv(p)'
  BY <1>1, <1>3, <1>4, <1>7, <1>8 DEF ProcInv, LeftInv, Quiet, Later, Dom
<1> QED  BY <1>3, <1>4, <1>7, <1>9, <1>10, <1>11 DEF ProcInv

-----------------------------------------------------------------------------
(* The steps of xl *)

\* A step of xl that touches no domain and no event.
LEMMA XlGoesOn ==
  ASSUME NameInv, LifeInv, NEW p \in Xl, \A q \in Procs \ {p} : proc'[q] = proc[q],
         UNCHANGED <<dom, event>>, ProcInv(p)', LockInv'
  PROVE  LifeInv'
<1>1. EventsTyped'
  BY DEF LifeInv, EventsTyped
<1> QED  BY <1>1, SameQuiet, XlMoves DEF Quiet

LEMMA StartLives ==
  ASSUME NameInv, LifeInv, NEW p \in Xl, Start(p) PROVE LifeInv'
<1> USE Member
<1>1. PICK option \in Options : ReadConfig(p, option)
  BY DEF Start
<1> DEFINE ready == [proc[p] EXCEPT !.pc = "lock", !.restore = option = "restore",
                          !.paused = option = "create -p", !.daemonize = option # "create -e"]
           failed == [proc[p] EXCEPT !.pc = "exited", !.exit = "fail"]
<1>2. /\ At(p, "start") /\ UNCHANGED <<dom, lock, event>> /\ proc[p] \in ProcRec /\ p \in Procs
      /\ ProcInv(p) /\ LockInv
  BY DEF Start, LifeInv
<1>3. \E r \in {ready, failed} : proc' = [proc EXCEPT ![p] = r]
  BY <1>1 DEF ReadConfig
<1>4. /\ ready.pc = "lock" /\ ready.d = proc[p].d /\ ready.next = proc[p].next
      /\ ready.daemon = proc[p].daemon /\ ready.seen = proc[p].seen /\ ready.exit = proc[p].exit
      /\ failed.pc = "exited" /\ failed.d = proc[p].d /\ failed.next = proc[p].next
      /\ failed.daemon = proc[p].daemon /\ failed.seen = proc[p].seen /\ failed.exit = "fail"
  BY <1>2 DEF ProcRec
<1> HIDE DEF ready, failed
<1>5. PICK r \in {ready, failed} : proc'[p] = r /\ \A q \in Procs \ {p} : proc'[q] = proc[q]
  BY <1>2, <1>3, SetIs
<1>6. proc[p].seen = None /\ ~proc[p].daemon /\ proc[p].exit # "fail"
  BY <1>2 DEF ProcInv, WhereInv, At, Restarts, Naming, Destroying
<1>7. WhereInv(p)'
  BY <1>2, <1>4, <1>5, <1>6 DEF WhereInv, Restarts, Naming, Destroying
<1>8. OneInv(p)'
  BY <1>2, <1>4, <1>5 DEF ProcInv, OneInv, Building, Naming, Free, At, Dom, Finished, Suspended
<1>9. LeftInv(p)'
  BY <1>2, <1>4, <1>5, <1>6 DEF ProcInv, LeftInv, At, Dom, Ended, Unsaved, Up
<1>10. LockInv'
  BY <1>2, <1>5, LockWaits DEF LockInv, At, Naming
<1> QED  BY <1>2, <1>5, <1>7, <1>8, <1>9, <1>10, XlGoesOn DEF ProcInv

LEMMA LockLives ==
  ASSUME NameInv, LifeInv, NEW p \in Xl, AcquireLock(p) \/ LockFails(p) PROVE LifeInv'
<1> USE Member
<1> DEFINE locked == [proc[p] EXCEPT !.pc = "create", !.d = 0]
           failed == [proc[p] EXCEPT !.pc = "error", !.d = 0,
                                     !.exit = IF proc[p].daemon THEN @ ELSE "ok"]
<1>1. /\ At(p, "lock") /\ UNCHANGED <<dom, event>> /\ proc[p] \in ProcRec /\ p \in Procs
      /\ ProcInv(p) /\ LockInv
      /\ \/ lock' = p /\ proc' = [proc EXCEPT ![p] = locked]
         \/ lock' = lock /\ proc' = [proc EXCEPT ![p] = failed]
  BY DEF AcquireLock, LockFails, LifeInv
<1>2. /\ locked.pc = "create" /\ failed.pc = "error" /\ locked.exit = proc[p].exit
      /\ failed.exit = (IF proc[p].daemon THEN proc[p].exit ELSE "ok")
      /\ \A r \in {locked, failed} :
           r.d = 0 /\ r.next = proc[p].next /\ r.daemon = proc[p].daemon /\ r.seen = proc[p].seen
  BY <1>1 DEF ProcRec
<1> HIDE DEF locked, failed
<1>3. PICK r \in {locked, failed} :
         /\ proc'[p] = r /\ \A q \in Procs \ {p} : proc'[q] = proc[q]
         /\ (lock' = p /\ r = locked) \/ lock' = lock
  BY <1>1, SetIs
<1>4. proc[p].seen = None /\ proc[p].exit # "fail" /\ lock # p
  BY <1>1, NoneAssumption DEF ProcInv, WhereInv, At, Restarts, Naming, Destroying, LockInv
<1>5. WhereInv(p)'
  BY <1>1, <1>2, <1>3, <1>4 DEF ProcInv, WhereInv, Restarts, Naming, Destroying
<1>6. OneInv(p)'
  BY <1>1, <1>2, <1>3, IdsFacts
  DEF ProcInv, OneInv, Building, Naming, Free, At, Dom, Finished, Suspended
<1>7. LeftInv(p)'
  BY <1>1, <1>2, <1>3 DEF ProcInv, LeftInv, At, Dom, Ended, Unsaved, Up
<1>8. LockInv'
  BY <1>1, <1>2, <1>3, <1>4, LockWaits DEF LockInv
<1> QED  BY <1>1, <1>3, <1>5, <1>6, <1>7, <1>8, XlGoesOn DEF ProcInv

\* A new domain is one that had no maker.
LEMMA CreateLives ==
  ASSUME NameInv, LifeInv, NEW p \in Xl, Create(p) PROVE LifeInv'
<1> USE Member
<1>1. /\ At(p, "create") /\ UNCHANGED <<lock, event>> /\ proc[p] \in ProcRec /\ p \in Procs
      /\ ProcInv(p) /\ LockInv /\ MakersKnown /\ UserInv
  BY DEF Create, LifeInv
<1>2. proc[p].seen = None
  BY <1>1 DEF ProcInv, WhereInv, At, Restarts, Naming, Destroying
<1>3. CASE FreeMemFails(p)
  <2>1. /\ ProcInv(p)' /\ proc'[p].pc = "error" /\ \A q \in Procs \ {p} : proc'[q] = proc[q]
        /\ UNCHANGED dom
    BY <1>1, <1>2, <1>3, FailIs DEF FreeMemFails, At
  <2>2. LockInv'
    BY <1>1, <2>1, LockWaits DEF LockInv
  <2> QED  BY <1>1, <2>1, <2>2, XlGoesOn
<1>4. CASE ~FreeMemFails(p)
  <2> DEFINE new(d) == [NoDomain EXCEPT !.st = "new", !.paused = TRUE, !.by = p]
             r(d) == [proc[p] EXCEPT !.pc = "rename", !.d = d, !.to = <<"g">>,
                                     !.old = <<>>, !.next = "build"]
  <2>0. PICK d \in Ids :
          /\ dom[d].st = None
          /\ dom' = [dom EXCEPT ![d] = [NoDomain EXCEPT !.st = "new", !.paused = TRUE, !.by = p]]
          /\ proc' = [proc EXCEPT ![p].pc = "rename", ![p].d = d, ![p].to = <<"g">>,
                                  ![p].old = <<>>, ![p].next = "build"]
    BY <1>4 DEF Create
  <2>1. dom[d].st = None /\ dom' = [dom EXCEPT ![d] = new(d)] /\ proc' = [proc EXCEPT ![p] = r(d)]
    BY <2>0
  <2>2. /\ r(d).pc = "rename" /\ r(d).d = d /\ r(d).next = "build" /\ r(d).daemon = proc[p].daemon
        /\ r(d).seen = None /\ r(d).exit = proc[p].exit
        /\ new(d).st = "new" /\ new(d).by = p
    BY <1>1, <1>2 DEF ProcRec, NoDomain
  <2> HIDE DEF new, r
  <2>3. /\ proc'[p] = r(d) /\ \A q \in Procs \ {p} : proc'[q] = proc[q]
        /\ dom'[d] = new(d) /\ \A e \in Ids \ {d} : dom'[e] = dom[e]
    BY <1>1, <2>1, SetIs DEF NameInv, DomsTyped
  <2>4. dom[d].by = None /\ None \notin Xl
    BY <1>1, <2>1, NoneAssumption DEF MakersKnown, Procs
  <2>5. MakersKnown'
    BY <1>1, <2>2, <2>3, <2>4 DEF MakersKnown, None
  <2>6. \A e \in Ids \ {d} : Quiet(e)
    BY <2>3 DEF Quiet, Later, Finished, Ended, Unsaved, Suspended, Up
  <2>7. ASSUME NEW q \in Xl PROVE ProcInv(q)'
    <3>1. CASE q # p
      <4>1. ProcInv(q) /\ proc'[q] = proc[q] /\ Dom(q) \in 0..MaxDom
        BY <2>3, <3>1 DEF LifeInv
      <4>2. \A e \in Ids : (dom'[e].by = q <=> dom[e].by = q) /\ (dom[e].by = q => Quiet(e))
        BY <2>2, <2>3, <2>4, <2>6, <3>1
      <4> QED  BY <4>1, <4>2, Bystander
    <3>2. CASE q = p
      <4>1. WhereInv(p)'
        BY <1>1, <1>2, <2>2, <2>3 DEF ProcInv, WhereInv, Restarts, Naming, Destroying, At
      <4>2. OneInv(p)'
        BY <1>1, <2>2, <2>3, <2>6
        DEF ProcInv, OneInv, Building, Free, Restarts, Naming, Destroying, Dom, Quiet, Later, At
      <4>3. LeftInv(p)'
        BY <1>1, <2>2, <2>3, <2>6 DEF ProcInv, LeftInv, Dom, Quiet, Later, At
      <4> QED  BY <3>2, <4>1, <4>2, <4>3 DEF ProcInv
    <3> QED  BY <3>1, <3>2
  <2>8. UserInv'
    <3>1. proc'[User] = proc[User]
      BY <2>3, ProcsAssumption
    <3>2. \A e \in Ids : dom[e].st # None => Later(e)
      BY <2>1, <2>6 DEF Quiet
    <3> QED  BY <1>1, <3>1, <3>2, UserWaits
  <2>9. LockInv'
    BY <1>1, <2>2, <2>3, LockWaits DEF LockInv, Naming
  <2>10. EventsTyped'
    BY <1>1 DEF LifeInv, EventsTyped
  <2> QED  BY <2>5, <2>7, <2>8, <2>9, <2>10 DEF LifeInv
<1> QED  BY <1>3, <1>4

LEMMA BuildLives ==
  ASSUME NameInv, LifeInv, NEW p \in Xl, Build(p) PROVE LifeInv'
<1> USE Member
<1>1. /\ At(p, "build") /\ UNCHANGED lock /\ proc[p] \in ProcRec /\ p \in Procs
      /\ ProcInv(p) /\ LockInv /\ EventsTyped
  BY DEF Build, LifeInv
<1>2. proc[p].seen = None
  BY <1>1 DEF ProcInv, WhereInv, At, Restarts, Naming, Destroying
<1>3. CASE Discard(p)
  <2>1. /\ ProcInv(p)' /\ proc'[p].pc = "error" /\ \A q \in Procs \ {p} : proc'[q] = proc[q]
        /\ \A d \in Ids : Quiet(d)
    BY <1>1, <1>2, <1>3, DiscardIs DEF At, Building
  <2>2. LockInv'
    BY <1>1, <2>1, LockWaits DEF LockInv
  <2>3. EventsTyped'
    BY <1>1, <1>3 DEF Discard, Notify, EventsTyped
  <2> QED  BY <2>1, <2>2, <2>3, XlMoves DEF Quiet
<1>4. CASE ~Discard(p)
  <2>0. PICK e : e = Dom(p)
    OBVIOUS
  <2> DEFINE r == [proc[p] EXCEPT !.pc = "userdata", !.spent = proc[p].restore]
  <2>1. /\ proc' = [proc EXCEPT ![p] = r] /\ Exists(e) /\ UNCHANGED event
        /\ dom' = IF dom[e].st = "new" THEN [dom EXCEPT ![e].st = "up"] ELSE dom
    BY <1>4, <2>0 DEF Build
  <2>2. /\ r.pc = "userdata" /\ r.d = e /\ r.next = proc[p].next /\ r.daemon = proc[p].daemon
        /\ r.seen = None /\ r.exit = proc[p].exit
    BY <1>1, <1>2, <2>0 DEF ProcRec, Dom
  <2> HIDE DEF r
  <2>3. proc'[p] = r /\ \A q \in Procs \ {p} : proc'[q] = proc[q]
    BY <1>1, <2>1, SetIs
  <2>4. e \in Ids /\ dom[e].by = p /\ dom[e] \in DomRec
    BY <1>1, <2>0, <2>1 DEF ProcInv, OneInv, Building, Naming, Exists, NameInv, DomsTyped
  <2>5. \A d \in Ids \ {e} : Quiet(d)
    BY <2>1 DEF NameInv, DomsTyped, Quiet, Later, Finished, Ended, Unsaved, Suspended, Up
  <2>6. /\ dom'[e].by = p /\ dom'[e].once_suspended = dom[e].once_suspended /\ dom'[e].reason = dom[e].reason
        /\ dom'[e].refused = dom[e].refused
        /\ dom'[e].st = IF dom[e].st = "new" THEN "up" ELSE dom[e].st
    BY <2>1, <2>4 DEF NameInv, DomsTyped, DomRec
  <2>7. Later(e)
    BY <2>4, <2>6 DEF Later, Finished, Ended, Suspended, None
  <2>8. WhereInv(p)'
    BY <1>1, <2>2, <2>3 DEF ProcInv, WhereInv, Restarts, Naming, Destroying, At
  <2>9. OneInv(p)'
    BY <1>1, <2>0, <2>2, <2>3, <2>5, <2>6
    DEF ProcInv, OneInv, Building, Free, Restarts, Naming, Destroying, Dom, Quiet, Later, At
  <2>10. LeftInv(p)'
    BY <1>1, <2>0, <2>2, <2>3, <2>5, <2>7 DEF ProcInv, LeftInv, Dom, Quiet, Later, At
  <2>11. LockInv'
    BY <1>1, <2>2, <2>3, LockWaits DEF LockInv
  <2>12. EventsTyped'
    BY <1>1, <2>1 DEF EventsTyped
  <2>13. \A d \in Ids : Later(d) /\ (dom[d].by # p => Quiet(d))
    BY <2>4, <2>5, <2>7 DEF Quiet
  <2> QED  BY <2>3, <2>8, <2>9, <2>10, <2>11, <2>12, <2>13, XlMoves DEF ProcInv
<1> QED  BY <1>3, <1>4

LEMMA StoreConfigLives ==
  ASSUME NameInv, LifeInv, NEW p \in Xl, StoreConfig(p) PROVE LifeInv'
<1> USE Member
<1>1. /\ At(p, "userdata") /\ UNCHANGED <<dom, event>> /\ proc[p] \in ProcRec /\ p \in Procs
      /\ ProcInv(p) /\ LockInv
  BY DEF StoreConfig, LifeInv
<1>2. proc[p].seen = None
  BY <1>1 DEF ProcInv, WhereInv, At, Restarts, Naming, Destroying
<1>3. CASE lock' = None /\ Goto(p, "unpause")
  <2>1. proc'[p] = [proc[p] EXCEPT !.pc = "unpause"] /\ \A q \in Procs \ {p} : proc'[q] = proc[q]
    BY <1>1, <1>3, GotoIs
  <2>2. /\ proc'[p].pc = "unpause" /\ proc'[p].d = proc[p].d /\ proc'[p].next = proc[p].next
        /\ proc'[p].daemon = proc[p].daemon /\ proc'[p].seen = None /\ proc'[p].exit = proc[p].exit
    BY <1>1, <1>2, <2>1 DEF ProcRec
  <2>3. WhereInv(p)'
    BY <1>1, <2>2 DEF ProcInv, WhereInv, Restarts, Naming, Destroying, At
  <2>4. OneInv(p)'
    BY <1>1, <2>2 DEF ProcInv, OneInv, Building, Free, Restarts, Naming, Destroying, Dom, At, Finished, Suspended
  <2>5. LeftInv(p)'
    BY <1>1, <2>2 DEF ProcInv, LeftInv, Dom, At, Ended
  <2>6. LockInv'
    BY <1>3 DEF LockInv
  <2> QED  BY <1>1, <2>1, <2>3, <2>4, <2>5, <2>6, XlGoesOn DEF ProcInv
<1>4. CASE Fail(p) /\ UNCHANGED lock
  <2>1. /\ ProcInv(p)' /\ proc'[p].pc = "error" /\ \A q \in Procs \ {p} : proc'[q] = proc[q]
    BY <1>1, <1>2, <1>4, FailIs DEF At
  <2>2. LockInv'
    BY <1>1, <1>4, <2>1, LockWaits DEF LockInv
  <2> QED  BY <1>1, <2>1, <2>2, XlGoesOn
<1> QED  BY <1>3, <1>4 DEF StoreConfig

\* Pausing, unpausing and naming.
LEMMA TouchQuiet ==
  ASSUME NameInv, NEW d, NEW r \in DomRec, d \in Ids => dom[d].st # None,
         dom' = [dom EXCEPT ![d] = r],
         d \in Ids => r.by = dom[d].by /\ r.st = dom[d].st /\ r.reason = dom[d].reason
                      /\ r.once_suspended = dom[d].once_suspended /\ r.refused = dom[d].refused
  PROVE  \A e \in Ids : Quiet(e)
BY OneQuiet DEF NameInv

LEMMA PauseQuiet ==
  ASSUME NameInv, NEW d, NEW b \in BOOLEAN, d \in Ids => dom[d].st # None, 
         dom' = [dom EXCEPT ![d].paused = b]
  PROVE  \A e \in Ids : Quiet(e)
<1>1. CASE d \in Ids
  <2> DEFINE r == [dom[d] EXCEPT !.paused = b]
  <2>1. dom[d] \in DomRec
    BY <1>1 DEF NameInv, DomsTyped
  <2>2. /\ r \in DomRec /\ r.by = dom[d].by /\ r.st = dom[d].st /\ r.reason = dom[d].reason
        /\ r.once_suspended = dom[d].once_suspended /\ r.refused = dom[d].refused
    BY <2>1 DEF DomRec
  <2>3. dom' = [dom EXCEPT ![d] = r]
    OBVIOUS
  <2> HIDE DEF r
  <2> QED  BY <1>1, <2>2, <2>3, TouchQuiet
<1>2. CASE d \notin Ids
  <2>1. dom' = dom
    BY <1>2 DEF NameInv, DomsTyped
  <2> QED  BY <2>1, SameQuiet
<1> QED  BY <1>1, <1>2

LEMMA BootedLives ==
  ASSUME NameInv, LifeInv, NEW p \in Xl, Booted(p) PROVE LifeInv'
<1> USE Member
<1> DEFINE where == IF ~proc[p].daemonize THEN "exited" ELSE IF proc[p].daemon THEN "watch" ELSE "fork"
           r == [proc[p] EXCEPT !.pc = where, !.to = <<>>, !.old = <<>>, !.next = None,
                                !.exit = IF proc[p].daemonize THEN @ ELSE "ok"]
<1>1. /\ At(p, "unpause") /\ UNCHANGED <<lock, event>> /\ proc[p] \in ProcRec /\ p \in Procs
      /\ ProcInv(p) /\ LockInv /\ EventsTyped /\ proc' = [proc EXCEPT ![p] = r]
  BY DEF Booted, LifeInv
<1>2. proc[p].seen = None /\ proc[p].exit # "fail"
  BY <1>1 DEF ProcInv, WhereInv, At, Restarts, Naming, Destroying
<1>3. /\ r.pc = where /\ r.d = proc[p].d /\ r.next = None
      /\ r.daemon = proc[p].daemon /\ r.daemonize = proc[p].daemonize
      /\ r.seen = None /\ r.exit = IF proc[p].daemonize THEN proc[p].exit ELSE "ok"
  BY <1>1, <1>2 DEF ProcRec
<1> HIDE DEF r
<1>4. proc'[p] = r /\ \A q \in Procs \ {p} : proc'[q] = proc[q]
  BY <1>1, SetIs
<1>5. \A d \in Ids : Quiet(d)
  <2>1. CASE UNCHANGED dom
    BY <2>1, SameQuiet
  <2>2. CASE Exists(Dom(p)) /\ Unpause(Dom(p))
    BY <2>2, PauseQuiet DEF Exists, Unpause
  <2> QED  BY <2>1, <2>2 DEF Booted
<1>6. WhereInv(p)'
  BY <1>1, <1>2, <1>3, <1>4 DEF ProcInv, WhereInv, Restarts, Naming, Destroying, At, None
<1>7. OneInv(p)'
  BY <1>1, <1>3, <1>4, <1>5
  DEF ProcInv, OneInv, Building, Free, Restarts, Naming, Destroying, Dom, At, Quiet, Later
<1>8. LeftInv(p)'
  BY <1>1, <1>2, <1>3, <1>4, <1>5 DEF ProcInv, LeftInv, Dom, At, Quiet, Later
<1>9. LockInv'
  BY <1>1, <1>4, LockWaits DEF LockInv, At, Naming
<1>10. EventsTyped'
  BY <1>1 DEF EventsTyped
<1> QED  BY <1>4, <1>5, <1>6, <1>7, <1>8, <1>9, <1>10, XlMoves DEF ProcInv, Quiet

LEMMA ForkLives ==
  ASSUME NameInv, LifeInv, NEW p \in Xl, Fork(p) PROVE LifeInv'
<1> USE Member
<1> DEFINE r == [proc[p] EXCEPT !.pc = "watch", !.daemon = TRUE, !.exit = "ok"]
<1>1. /\ At(p, "fork") /\ UNCHANGED <<dom, lock, event>> /\ proc[p] \in ProcRec /\ p \in Procs
      /\ ProcInv(p) /\ LockInv
  BY DEF Fork, LifeInv
<1>2. proc[p].seen = None
  BY <1>1 DEF ProcInv, WhereInv, At, Restarts, Naming, Destroying
<1>3. ProcInv(p)' /\ \A q \in Procs \ {p} : proc'[q] = proc[q]
  <2>1. CASE Fail(p)
    BY <1>1, <1>2, <2>1, FailIs DEF At
  <2>2. CASE proc' = [proc EXCEPT ![p] = r]
    <3>1. /\ r.pc = "watch" /\ r.d = proc[p].d /\ r.next = proc[p].next /\ r.daemon = TRUE
          /\ r.seen = None /\ r.exit = "ok"
      BY <1>1, <1>2 DEF ProcRec
    <3> HIDE DEF r
    <3>2. proc'[p] = r /\ \A q \in Procs \ {p} : proc'[q] = proc[q]
      BY <1>1, <2>2, SetIs
    <3>3. WhereInv(p)'
      BY <1>1, <3>1, <3>2 DEF ProcInv, WhereInv, Restarts, Naming, Destroying, At
    <3>4. OneInv(p)'
      BY <1>1, <3>1, <3>2
      DEF ProcInv, OneInv, Building, Free, Restarts, Naming, Destroying, Dom, At, Finished, Suspended
    <3>5. LeftInv(p)'
      BY <1>1, <3>1, <3>2 DEF LeftInv
    <3> QED  BY <3>2, <3>3, <3>4, <3>5 DEF ProcInv
  <2> QED  BY <2>1, <2>2 DEF Fork
<1>4. LockInv'
  BY <1>1, <1>3, LockWaits, NoneAssumption DEF LockInv, At, Naming
<1> QED  BY <1>1, <1>3, <1>4, XlGoesOn

LEMMA WatchLives ==
  ASSUME NameInv, LifeInv, NEW p \in Xl, Watch(p) PROVE LifeInv'
<1> USE Member
<1>1. /\ At(p, "watch") /\ UNCHANGED <<dom, lock>> /\ proc[p] \in ProcRec /\ p \in Procs
      /\ ProcInv(p) /\ LockInv /\ EventsTyped /\ WaitForDeath(p, "select")
  BY DEF Watch, LifeInv
<1>2. proc[p].seen = None
  BY <1>1 DEF ProcInv, WhereInv, At, Restarts, Naming, Destroying
<1>3. proc'[p] = [proc[p] EXCEPT !.pc = "select"] /\ \A q \in Procs \ {p} : proc'[q] = proc[q]
  BY <1>1, GotoIs DEF WaitForDeath
<1>4. /\ proc'[p].pc = "select" /\ proc'[p].d = proc[p].d /\ proc'[p].next = proc[p].next
      /\ proc'[p].daemon = proc[p].daemon /\ proc'[p].seen = None /\ proc'[p].exit = proc[p].exit
  BY <1>1, <1>2, <1>3 DEF ProcRec
<1>5. WhereInv(p)'
  BY <1>1, <1>4 DEF ProcInv, WhereInv, Restarts, Naming, Destroying, At
<1>6. OneInv(p)'
  BY <1>1, <1>4 DEF ProcInv, OneInv, Building, Free, Restarts, Naming, Destroying, Dom, At, Finished, Suspended
<1>7. LeftInv(p)'
  BY <1>1, <1>4 DEF ProcInv, LeftInv, Dom, At, Ended
<1>8. LockInv'
  BY <1>1, <1>3, LockWaits, NoneAssumption DEF LockInv, At, Naming
<1>9. EventsTyped'
  BY <1>1 DEF WaitForDeath, WatchSet, EventsTyped
<1> QED  BY <1>1, <1>3, <1>5, <1>6, <1>7, <1>8, <1>9, SameQuiet, XlMoves DEF ProcInv, Quiet

\* What the daemon sees dead, for another reason than that it was suspended, is
\* finished.
LEMMA GetEventLives ==
  ASSUME NameInv, LifeInv, NEW p \in Xl, GetEvent(p) PROVE LifeInv'
<1> USE Member
<1> DEFINE reason == ShutdownReason(Dom(p))
           r == [proc[p] EXCEPT !.pc = "dead", !.seen = reason]
<1>1. /\ At(p, "select") /\ UNCHANGED <<dom, lock>> /\ proc[p] \in ProcRec /\ p \in Procs
      /\ ProcInv(p) /\ LockInv /\ EventsTyped /\ event' = [event EXCEPT ![p] = "quiet"]
  BY DEF GetEvent, LifeInv
<1>2. proc[p].seen = None /\ proc[p].exit = "ok" /\ proc[p].daemon
  BY <1>1 DEF ProcInv, WhereInv, At, Restarts, Naming, Destroying
<1>3. EventsTyped'
  BY <1>1 DEF EventsTyped
<1>4. ProcInv(p)' /\ \A q \in Procs \ {p} : proc'[q] = proc[q]
  <2>1. CASE UNCHANGED proc
    BY <1>1, <2>1, SameQuiet, Bystander
  <2>2. CASE Goto(p, "exited") /\ ~Exists(Dom(p))
    <3>1. /\ proc'[p].pc = "exited" /\ proc'[p].d = proc[p].d /\ proc'[p].exit = "ok"
          /\ proc'[p].daemon = FALSE /\ proc'[p].seen = None /\ \A q \in Procs \ {p} : proc'[q] = proc[q]
      BY <1>1, <1>2, <2>2, GotoIs
    <3>2. WhereInv(p)'
      BY <3>1 DEF WhereInv, Restarts, Naming, Destroying
    <3>3. OneInv(p)'
      BY <1>1, <3>1 DEF ProcInv, OneInv, Building, Free, Restarts, Naming, Destroying, Dom, Finished, Suspended
    <3>4. \A d \in Ids : dom[d].by = p => ~Unsaved(d)
      BY <1>1, <2>2, IdsFacts DEF ProcInv, OneInv, Building, Naming, Finished, Exists, Unsaved, Up, None
    <3>5. LeftInv(p)'
      BY <1>1, <3>1, <3>4 DEF LeftInv, Unsaved, Up
    <3> QED  BY <3>1, <3>2, <3>3, <3>5 DEF ProcInv
  <2>3. CASE Exists(Dom(p)) /\ Dead(Dom(p)) /\ proc' = [proc EXCEPT ![p] = r]
    <3>1. /\ r.pc = "dead" /\ r.d = proc[p].d /\ r.next = proc[p].next /\ r.daemon
          /\ r.seen = reason /\ r.exit = "ok"
      BY <1>1, <1>2 DEF ProcRec
    <3> HIDE DEF r, reason
    <3>2. proc'[p] = r /\ \A q \in Procs \ {p} : proc'[q] = proc[q]
      BY <1>1, <2>3, SetIs
    <3>3. reason # "suspend" => Finished(Dom(p))
      BY <2>3 DEF reason, ShutdownReason, Dead, Finished, Suspended, None
    <3>4. ~Unsaved(Dom(p))
      BY <2>3 DEF Dead, Unsaved, Up
    <3>5. WhereInv(p)'
      BY <1>1, <3>1, <3>2 DEF ProcInv, WhereInv, Restarts, Naming, Destroying, At
    <3>6. OneInv(p)'
      BY <1>1, <3>1, <3>2, <3>3
      DEF ProcInv, OneInv, Building, Free, Restarts, Naming, Destroying, Dom, At, Finished, Suspended
    <3>7. LeftInv(p)'
      BY <1>1, <3>1, <3>2, <3>4 DEF ProcInv, OneInv, Building, Naming, LeftInv, Dom, Finished, Unsaved, Up
    <3> QED  BY <3>2, <3>5, <3>6, <3>7 DEF ProcInv
  <2>4. \/ UNCHANGED proc
        \/ Goto(p, "exited") /\ ~Exists(Dom(p))
        \/ Exists(Dom(p)) /\ Dead(Dom(p)) /\ proc' = [proc EXCEPT ![p] = r]
    <3> HIDE DEF reason
    <3> DEFINE info == DeathInfo(Dom(p))
               saw == proc' = [proc EXCEPT ![p].pc = "dead", ![p].seen = reason]
    <3>1. \/ info = "alive" /\ UNCHANGED proc
          \/ info = "error" /\ Goto(p, "exited")
          \/ info \notin {"alive", "error"} /\ saw
      BY DEF GetEvent, reason
    <3>2. /\ info = "error" => ~Exists(Dom(p))
          /\ info \notin {"alive", "error"} => Exists(Dom(p)) /\ Dead(Dom(p))
      BY DEF DeathInfo
    <3>3. saw => proc' = [proc EXCEPT ![p] = r]
      OBVIOUS
    <3> HIDE DEF info, saw, r, reason
    <3> QED  BY <3>1, <3>2, <3>3
  <2> QED  BY <2>1, <2>2, <2>3, <2>4
<1>5. LockInv'
  BY <1>1, <1>4, LockWaits, NoneAssumption DEF LockInv, At, Naming
<1> QED  BY <1>1, <1>3, <1>4, <1>5, SameQuiet, XlMoves DEF Quiet

\* A domain that is destroyed or replaced was seen finished.
LEMMA DeathLives ==
  ASSUME NameInv, LifeInv, NEW p \in Xl, HandleDomainDeath(p) PROVE LifeInv'
<1> USE Member
<1>1. /\ At(p, "dead") /\ UNCHANGED <<dom, lock, event>> /\ proc[p] \in ProcRec /\ p \in Procs
      /\ ProcInv(p) /\ LockInv
  BY DEF HandleDomainDeath, LifeInv
<1>2. proc[p].exit = "ok" /\ proc[p].daemon
  BY <1>1 DEF ProcInv, WhereInv, At
<1> DEFINE destroyed(next) == [proc[p] EXCEPT !.pc = "destroy", !.d = Dom(p), !.next = next]
           renamed(t) == [proc[p] EXCEPT !.pc = "rename", !.to = <<"g", t>>,
                                         !.old = <<"g">>, !.next = "restart"]
<1>3. CASE Goto(p, "exited")
  <2>1. /\ proc'[p].pc = "exited" /\ proc'[p].d = proc[p].d /\ proc'[p].exit = "ok"
        /\ proc'[p].daemon = FALSE /\ proc'[p].seen = None /\ \A q \in Procs \ {p} : proc'[q] = proc[q]
    BY <1>1, <1>2, <1>3, GotoIs
  <2>2. WhereInv(p)'
    BY <2>1 DEF WhereInv, Restarts, Naming, Destroying
  <2>3. OneInv(p)'
    BY <1>1, <2>1 DEF ProcInv, OneInv, Building, Free, Restarts, Naming, Destroying, Dom, Finished, Suspended
  <2>4. LeftInv(p)'
    BY <1>1, <2>1 DEF ProcInv, LeftInv, Unsaved, Up, At
  <2>5. LockInv'
    BY <1>1, <2>1, LockWaits, NoneAssumption DEF LockInv, At, Naming
  <2> QED  BY <1>1, <2>1, <2>2, <2>3, <2>4, <2>5, XlGoesOn DEF ProcInv
<1>4. ASSUME NEW r, proc' = [proc EXCEPT ![p] = r], proc[p].seen # "suspend",
             r.d = proc[p].d, r.daemon, r.exit = "ok", r.seen = proc[p].seen,
             \/ r.pc = "destroy" /\ r.next \in {"exited", "restart"}
             \/ r.pc = "rename" /\ r.next = "restart"
      PROVE  LifeInv'
  <2>1. proc'[p] = r /\ \A q \in Procs \ {p} : proc'[q] = proc[q]
    BY <1>1, <1>4, SetIs
  <2>2. WhereInv(p)'
    BY <1>4, <2>1 DEF WhereInv, Restarts, Naming, Destroying
  <2>3. OneInv(p)'
    BY <1>1, <1>4, <2>1 DEF ProcInv, OneInv, Building, Naming, Free, Dom, At, Finished, Suspended
  <2>4. LeftInv(p)'
    BY <1>4, <2>1 DEF LeftInv
  <2>5. LockInv'
    BY <1>1, <2>1, LockWaits, NoneAssumption DEF LockInv, At, Naming
  <2> QED  BY <1>1, <2>1, <2>2, <2>3, <2>4, <2>5, XlGoesOn DEF ProcInv
<1>5. \A next : /\ destroyed(next).pc = "destroy" /\ destroyed(next).next = next
                /\ destroyed(next).d = proc[p].d /\ destroyed(next).daemon = proc[p].daemon
                /\ destroyed(next).exit = proc[p].exit /\ destroyed(next).seen = proc[p].seen
  BY <1>1 DEF ProcRec, Dom
<1>6. \A t : /\ renamed(t).pc = "rename" /\ renamed(t).next = "restart"
             /\ renamed(t).d = proc[p].d /\ renamed(t).daemon = proc[p].daemon
             /\ renamed(t).exit = proc[p].exit /\ renamed(t).seen = proc[p].seen
  BY <1>1 DEF ProcRec
<1>7. \/ Goto(p, "exited")
      \/ /\ proc[p].seen # "suspend"
         /\ \/ \E next \in {"exited", "restart"} : proc' = [proc EXCEPT ![p] = destroyed(next)]
            \/ \E t : proc' = [proc EXCEPT ![p] = renamed(t)]
  <2>1. Action(proc[p].seen) \in Actions
    BY ConfigAssumption DEF Action, Actions
  <2>2. proc[p].seen = "suspend" => Action(proc[p].seen) = "preserve"
    BY DEF Action
  <2>3. CASE Action(proc[p].seen) = "preserve"
    BY <2>3 DEF HandleDomainDeath
  <2>4. CASE Action(proc[p].seen) = "destroy"
    <3>1. StartDestroy(p, Dom(p), "exited")
      BY <2>4 DEF HandleDomainDeath
    <3> QED  BY <2>2, <2>4, <3>1 DEF StartDestroy
  <2>5. CASE Action(proc[p].seen) = "restart"
    <3>1. StartDestroy(p, Dom(p), "restart")
      BY <2>5 DEF HandleDomainDeath
    <3> QED  BY <2>2, <2>5, <3>1 DEF StartDestroy
  <2>6. CASE Action(proc[p].seen) = "rename_restart"
    <3>1. PICK t \in 0..MaxMinute : Preserve(p, t)
      BY <2>6 DEF HandleDomainDeath, PreserveDomain
    <3>2. proc' = [proc EXCEPT ![p] = renamed(t)]
      BY <3>1 DEF Preserve
    <3> HIDE DEF renamed
    <3> QED  BY <2>2, <2>6, <3>2
  <2> QED  BY <2>1, <2>3, <2>4, <2>5, <2>6 DEF Actions
<1> HIDE DEF destroyed, renamed
<1>8. ASSUME NEW next \in {"exited", "restart"}, proc' = [proc EXCEPT ![p] = destroyed(next)],
             proc[p].seen # "suspend"
      PROVE  LifeInv'
  BY <1>2, <1>4, <1>5, <1>8
<1>9. ASSUME NEW t, proc' = [proc EXCEPT ![p] = renamed(t)], proc[p].seen # "suspend" PROVE LifeInv'
  BY <1>2, <1>4, <1>6, <1>9
<1> QED  BY <1>3, <1>7, <1>8, <1>9

LEMMA RestartLives ==
  ASSUME NameInv, LifeInv, NEW p \in Xl, Restart(p) PROVE LifeInv'
<1> USE Member
<1> DEFINE r == [proc[p] EXCEPT !.pc = "lock", !.paused = FALSE, !.seen = None,
                                  !.to = <<>>, !.old = <<>>, !.next = None]
<1>1. /\ At(p, "restart") /\ UNCHANGED <<dom, lock, event>> /\ proc[p] \in ProcRec /\ p \in Procs
      /\ ProcInv(p) /\ LockInv /\ proc' = [proc EXCEPT ![p] = r]
  BY DEF Restart, LifeInv
<1>2. /\ r.pc = "lock" /\ r.d = proc[p].d /\ r.daemon = proc[p].daemon /\ r.seen = None
      /\ r.exit = proc[p].exit
  BY <1>1 DEF ProcRec
<1> HIDE DEF r
<1>3. proc'[p] = r /\ \A q \in Procs \ {p} : proc'[q] = proc[q]
  BY <1>1, SetIs
<1>4. proc[p].exit = "ok" /\ proc[p].daemon
  BY <1>1 DEF ProcInv, WhereInv, At
<1>5. WhereInv(p)'
  BY <1>2, <1>3, <1>4 DEF WhereInv, Restarts, Naming, Destroying
<1>6. OneInv(p)'
  BY <1>1, <1>2, <1>3 DEF ProcInv, OneInv, Building, Naming, Free, Dom, At, Finished, Suspended
<1>7. LeftInv(p)'
  BY <1>2, <1>3, <1>4 DEF LeftInv
<1>8. LockInv'
  BY <1>1, <1>3, LockWaits, NoneAssumption DEF LockInv, At, Naming
<1> QED  BY <1>1, <1>3, <1>5, <1>6, <1>7, <1>8, XlGoesOn DEF ProcInv

\* error_out: what was made is destroyed, and the lock is free again.
LEMMA ErrorLives ==
  ASSUME NameInv, LifeInv, NEW p \in Xl, Error(p) PROVE LifeInv'
<1> USE Member
<1>1. /\ At(p, "error") /\ UNCHANGED <<dom, event>> /\ proc[p] \in ProcRec /\ p \in Procs
      /\ ProcInv(p) /\ LockInv /\ lock' = IF lock = p THEN None ELSE lock
  BY DEF Error, ErrorOut, LifeInv
<1>2. proc[p].seen = None
  BY <1>1 DEF ProcInv, WhereInv, At, Restarts, Naming, Destroying
<1>3. ASSUME \A q \in Procs \ {p} : proc'[q] = proc[q] PROVE LockInv'
  BY <1>1, <1>3 DEF LockInv
<1>4. CASE Dom(p) # 0
  <2> DEFINE r == [proc[p] EXCEPT !.pc = "destroy", !.d = Dom(p), !.next = "exited"]
  <2>1. proc' = [proc EXCEPT ![p] = r]
    BY <1>4 DEF Error, ErrorOut, StartDestroy
  <2>2. /\ r.pc = "destroy" /\ r.d = proc[p].d /\ r.next = "exited" /\ r.daemon = proc[p].daemon
        /\ r.seen = None /\ r.exit = proc[p].exit
    BY <1>1, <1>2 DEF ProcRec, Dom
  <2> HIDE DEF r
  <2>3. proc'[p] = r /\ \A q \in Procs \ {p} : proc'[q] = proc[q]
    BY <1>1, <2>1, SetIs
  <2>4. WhereInv(p)'
    BY <1>1, <2>2, <2>3 DEF ProcInv, WhereInv, Restarts, Naming, Destroying, At
  <2>5. OneInv(p)'
    BY <1>1, <2>2, <2>3
    DEF ProcInv, OneInv, Building, Free, Restarts, Naming, Destroying, Dom, At, Finished, Suspended
  <2>6. LeftInv(p)'
    BY <1>1, <2>2, <2>3 DEF ProcInv, LeftInv, Dom, At, Ended
  <2> QED  BY <1>1, <1>3, <2>3, <2>4, <2>5, <2>6, XlGoesOn DEF ProcInv
<1>5. CASE Dom(p) = 0
  <2>1. /\ proc'[p].pc = "exited" /\ proc'[p].d = 0 /\ proc'[p].exit = proc[p].exit
        /\ proc'[p].daemon = FALSE /\ proc'[p].seen = None /\ \A q \in Procs \ {p} : proc'[q] = proc[q]
    <3>1. Goto(p, "exited")
      BY <1>5 DEF Error, ErrorOut
    <3> QED  BY <1>1, <1>5, <3>1, GotoIs DEF Dom
  <2>2. WhereInv(p)'
    BY <2>1 DEF WhereInv, Restarts, Naming, Destroying
  <2>3. \A d \in Ids : dom[d].by = p =>
          /\ Finished(d) \/ (d # 0 /\ dom[d].st = "new")
          /\ proc[p].exit = "fail" => Ended(d)
          /\ ~Unsaved(d)
    BY <1>1, <1>5, IdsFacts DEF ProcInv, WhereInv, OneInv, LeftInv, At, Finished, Unsaved, Up
  <2>4. OneInv(p)'
    BY <1>1, <2>1, <2>3 DEF OneInv, Building, Naming, Dom, Finished, Suspended
  <2>5. LeftInv(p)'
    BY <1>1, <2>1, <2>3 DEF LeftInv, Ended, Unsaved, Up
  <2> QED  BY <1>1, <1>3, <2>1, <2>2, <2>4, <2>5, XlGoesOn DEF ProcInv
<1> QED  BY <1>4, <1>5

-----------------------------------------------------------------------------
(* The steps of libxl, for xl and its daemons *)

\* The domain of a process is a domain, and it may be renamed.
LEMMA RenameQuiet ==
  ASSUME NameInv, NEW d, NEW name \in Names, NEW b \in BOOLEAN, d \in Ids => dom[d].st # None,
         \/ dom' = [dom EXCEPT ![d].name = name]
         \/ dom' = [dom EXCEPT ![d].paused = b, ![d].name = name]
  PROVE  \A e \in Ids : Quiet(e)
<1>1. CASE d \in Ids
  <2> DEFINE r == [dom[d] EXCEPT !.name = name]
             s == [dom[d] EXCEPT !.paused = b, !.name = name]
  <2>1. dom[d] \in DomRec
    BY <1>1 DEF NameInv, DomsTyped
  <2>2. /\ r \in DomRec /\ r.by = dom[d].by /\ r.st = dom[d].st /\ r.reason = dom[d].reason
        /\ r.once_suspended = dom[d].once_suspended /\ r.refused = dom[d].refused
    BY <2>1 DEF DomRec
  <2>3. /\ s \in DomRec /\ s.by = dom[d].by /\ s.st = dom[d].st /\ s.reason = dom[d].reason
        /\ s.once_suspended = dom[d].once_suspended /\ s.refused = dom[d].refused
    BY <2>1 DEF DomRec
  <2>4. dom' = [dom EXCEPT ![d] = r] \/ dom' = [dom EXCEPT ![d] = s]
    OBVIOUS
  <2> HIDE DEF r, s
  <2> QED  BY <1>1, <2>2, <2>3, <2>4, TouchQuiet
<1>2. CASE d \notin Ids
  <2>1. dom' = dom
    BY <1>2 DEF NameInv, DomsTyped
  <2> QED  BY <2>1, SameQuiet
<1> QED  BY <1>1, <1>2

LEMMA OwnExists ==
  ASSUME NameInv, LifeInv, NEW p \in Xl, Dom(p) \in Ids PROVE dom[Dom(p)].st # None
BY IdsFacts, NoneAssumption, Member DEF LifeInv, ProcInv, OneInv, Building, Naming, MakersKnown

\* What is destroyed is over, as far as Xen allows.
LEMMA DestroyQuiet ==
  ASSUME NameInv, NEW p \in Procs, DestroyDomain(p)
  PROVE  /\ \A d \in Ids : Quiet(d)
         /\ \A d \in Ids : Exists(d) /\ d = Dom(p) => Ended(d)'
<1>1. CASE ~Exists(Dom(p))
  <2>1. UNCHANGED dom
    BY <1>1 DEF DestroyDomain
  <2> QED  BY <1>1, <2>1, SameQuiet
<1>2. CASE Exists(Dom(p))
  <2> DEFINE dying == [dom[Dom(p)] EXCEPT !.st = "dying"]
             left == [dom[Dom(p)] EXCEPT !.refused = TRUE]
  <2>1. PICK new \in {Gone(Dom(p)), dying, left} : dom' = [dom EXCEPT ![Dom(p)] = new]
    BY <1>2 DEF DestroyDomain, Destroyed
  <2>2. Dom(p) \in Ids /\ dom[Dom(p)] \in DomRec
    BY <1>2, Member DEF Exists, NameInv, DomsTyped
  <2>3. /\ Gone(Dom(p)).st = "gone" /\ Gone(Dom(p)).by = dom[Dom(p)].by
        /\ dying.st = "dying" /\ dying.by = dom[Dom(p)].by
        /\ dying.once_suspended = dom[Dom(p)].once_suspended
        /\ dying.refused = dom[Dom(p)].refused
    BY <2>2 DEF DomRec, Gone, NoDomain
  <2>4. /\ left.st = dom[Dom(p)].st /\ left.by = dom[Dom(p)].by /\ left.refused
        /\ left.reason = dom[Dom(p)].reason
        /\ left.once_suspended = dom[Dom(p)].once_suspended
    BY <2>2 DEF DomRec
  <2> HIDE DEF dying, left
  <2>5. \A d \in Ids : Quiet(d)
    BY <1>2, <2>1, <2>2, <2>3, <2>4, OneQuiet DEF Exists, NameInv
  <2>6. dom'[Dom(p)] = new
    BY <2>1, <2>2 DEF NameInv, DomsTyped
  <2>7. \A d \in Ids : d = Dom(p) => Ended(d)'
    <3>1. new.st \in {"dying", "gone"} \/ new.refused
      BY <2>1, <2>3, <2>4
    <3> QED  BY <2>6, <3>1 DEF Ended
  <2> QED  BY <2>5, <2>7
<1> QED  BY <1>1, <1>2

\* From one step of a renaming to the next.
LEMMA NamingGoesOn ==
  ASSUME NameInv, LifeInv, NEW p \in Xl, NEW pc \in Naming, proc[p].pc \in Naming, Goto(p, pc),
         UNCHANGED <<dom, event, lock>>
  PROVE  LifeInv'
<1> USE Member
<1>1. proc[p] \in ProcRec /\ p \in Procs /\ ProcInv(p) /\ LockInv
  BY DEF LifeInv
<1>2. proc'[p] = [proc[p] EXCEPT !.pc = pc] /\ \A q \in Procs \ {p} : proc'[q] = proc[q]
  BY <1>1, GotoIs DEF Naming
<1>3. /\ proc'[p].pc = pc /\ proc'[p].d = proc[p].d /\ proc'[p].next = proc[p].next
      /\ proc'[p].daemon = proc[p].daemon /\ proc'[p].seen = proc[p].seen
      /\ proc'[p].exit = proc[p].exit
  BY <1>1, <1>2 DEF ProcRec
<1>4. WhereInv(p)'
  BY <1>1, <1>3 DEF ProcInv, WhereInv, Restarts, Naming, Destroying
<1>5. OneInv(p)'
  BY <1>1, <1>3
  DEF ProcInv, OneInv, Building, Free, Restarts, Naming, Destroying, Dom, Finished, Suspended
<1>6. LeftInv(p)'
  BY <1>1, <1>3 DEF ProcInv, LeftInv, Dom, Ended, Naming
<1>7. LockInv'
  <2>1. CASE lock # p
    BY <1>1, <1>2, <2>1, LockWaits
  <2>2. CASE lock = p
    BY <1>1, <1>3, <2>2 DEF LockInv, Naming
  <2> QED  BY <2>1, <2>2
<1> QED  BY <1>1, <1>2, <1>4, <1>5, <1>6, <1>7, XlGoesOn DEF ProcInv

LEMMA CheckNameLives ==
  ASSUME NameInv, LifeInv, NEW p \in Xl, CheckName(p) PROVE LifeInv'
<1>1. \E pc \in Naming : Goto(p, pc)
  BY DEF CheckName, Naming
<1> QED  BY <1>1, NamingGoesOn DEF CheckName, At, Naming

\* A new domain is named and can be built, or the one that is replaced is named
\* after the minute.
LEMMA CommitLives ==
  ASSUME NameInv, LifeInv, NEW p \in Xl, Commit(p) PROVE LifeInv'
<1> USE Member
<1>1. /\ At(p, "commit") /\ UNCHANGED <<lock, event>> /\ proc[p] \in ProcRec /\ p \in Procs
      /\ ProcInv(p) /\ LockInv /\ EventsTyped
  BY DEF Commit, LifeInv
<1>2. proc[p].next \in {"build", "restart"}
  BY <1>1 DEF ProcInv, WhereInv, At, Naming
<1>3. CASE Goto(p, "rename") /\ UNCHANGED dom
  BY <1>1, <1>3, NamingGoesOn DEF At, Naming
<1>4. CASE dom' = [dom EXCEPT ![Dom(p)].name = proc[p].to] /\ Goto(p, proc[p].next)
  <2>1. \A d \in Ids : Quiet(d)
    <3>1. proc[p].to \in Names
      BY <1>1 DEF ProcRec
    <3> QED  BY <1>4, <3>1, RenameQuiet, OwnExists
  <2>2. proc'[p] = [proc[p] EXCEPT !.pc = proc[p].next] /\ \A q \in Procs \ {p} : proc'[q] = proc[q]
    BY <1>1, <1>2, <1>4, GotoIs
  <2>3. /\ proc'[p].pc = proc[p].next /\ proc'[p].d = proc[p].d /\ proc'[p].next = proc[p].next
        /\ proc'[p].daemon = proc[p].daemon /\ proc'[p].seen = proc[p].seen
        /\ proc'[p].exit = proc[p].exit
    BY <1>1, <2>2 DEF ProcRec
  <2>4. proc[p].exit # "fail"
    BY <1>1 DEF ProcInv, WhereInv, At, Destroying
  <2>5. WhereInv(p)'
    BY <1>1, <1>2, <2>3, <2>4 DEF ProcInv, WhereInv, Restarts, Naming, Destroying, At
  <2>6. OneInv(p)'
    <3>1. Free(p)' => Free(p)
      BY <1>1, <1>2, <2>3 DEF ProcInv, WhereInv, Free, Restarts, Naming, Destroying, At
    <3>2. Building(p)' => Building(p)
      BY <1>1, <1>2, <2>3 DEF Building, Naming, At
    <3>3. Dom(p)' = Dom(p) /\ OneInv(p)
      BY <1>1, <2>3 DEF Dom, ProcInv
    <3>4. ASSUME NEW d \in Ids, dom'[d].by = p
          PROVE  Finished(d)' \/ (d = Dom(p) /\ ~Free(p)) \/ (d # Dom(p) /\ dom'[d].st = "new")
      BY <2>1, <3>3, <3>4 DEF OneInv, Quiet, Later
    <3>5. ASSUME Building(p), NEW d \in Ids, d = Dom(p) PROVE Finished(d)' \/ dom'[d].st = "new"
      BY <2>1, <3>3, <3>5, IdsFacts DEF OneInv, Quiet, Later
    <3>6. Dom(p) # 0 => Dom(p) \in Ids
      BY <1>1
    <3>7. Dom(p) # 0 => dom'[Dom(p)].by = p
      BY <2>1, <3>3, <3>6 DEF OneInv, Quiet, Later
    <3>8. PICK d : d = Dom(p)
      OBVIOUS
    <3>9. Building(p)' /\ Dom(p)' # 0 => Finished(Dom(p))' \/ dom'[Dom(p)'].st = "new"
      BY <3>2, <3>3, <3>5, <3>6, <3>8 DEF Finished, Suspended
    <3> QED  BY <3>1, <3>3, <3>4, <3>7, <3>9 DEF OneInv
  <2>7. LeftInv(p)'
    BY <1>1, <1>2, <2>1, <2>3 DEF ProcInv, LeftInv, Dom, At, Quiet, Later
  <2>8. LockInv'
    BY <1>1, <1>2, <2>2, <2>3 DEF LockInv, Procs, At, Naming
  <2>9. EventsTyped'
    BY <1>1 DEF EventsTyped
  <2> QED  BY <2>1, <2>2, <2>5, <2>6, <2>7, <2>8, <2>9, XlMoves DEF ProcInv, Quiet
<1> QED  BY <1>3, <1>4 DEF Commit

\* A new domain without a name is discarded; a daemon that cannot rename what it
\* was to replace is through.
LEMMA NotRenamedLives ==
  ASSUME NameInv, LifeInv, NEW p \in Xl, NotRenamed(p) PROVE LifeInv'
<1> USE Member
<1>1. /\ At(p, "not_renamed") /\ UNCHANGED lock /\ proc[p] \in ProcRec /\ p \in Procs
      /\ ProcInv(p) /\ LockInv /\ EventsTyped /\ p # User
  BY ProcsAssumption DEF NotRenamed, LifeInv
<1>2. CASE proc[p].next = "restart" /\ Goto(p, "exited") /\ UNCHANGED <<dom, event>>
  <2>1. proc[p].daemon /\ proc[p].exit = "ok" /\ Free(p)
    BY <1>1, <1>2 DEF ProcInv, WhereInv, Free, Restarts, Naming, At
  <2>2. /\ proc'[p].pc = "exited" /\ proc'[p].d = proc[p].d /\ proc'[p].exit = "ok"
        /\ proc'[p].daemon = FALSE /\ proc'[p].seen = None /\ \A q \in Procs \ {p} : proc'[q] = proc[q]
    BY <1>1, <1>2, <2>1, GotoIs
  <2>3. WhereInv(p)'
    BY <2>2 DEF WhereInv, Restarts, Naming, Destroying
  <2>4. OneInv(p)'
    BY <1>1, <1>2, <2>1, <2>2 DEF ProcInv, OneInv, Building, Naming, Dom, Finished, Suspended
  <2>5. LeftInv(p)'
    BY <1>1, <1>2, <2>1, <2>2 DEF ProcInv, OneInv, Building, Naming, LeftInv, Finished, Unsaved, Up
  <2>6. LockInv'
    BY <1>1, <1>2, <2>2 DEF LockInv, Procs, At, Naming
  <2> QED  BY <1>1, <1>2, <2>2, <2>3, <2>4, <2>5, <2>6, XlGoesOn DEF ProcInv
<1>3. CASE proc[p].next = "build" /\ Discard(p)
  <2>1. proc[p].seen = None
    BY <1>1, <1>3 DEF ProcInv, WhereInv, Restarts, Naming, Destroying, At
  <2>2. /\ ProcInv(p)' /\ proc'[p].pc = "error" /\ \A d \in Ids : Quiet(d)
        /\ \A q \in Procs \ {p} : proc'[q] = proc[q]
    BY <1>1, <1>3, <2>1, DiscardIs DEF At, Building, Naming
  <2>3. LockInv'
    BY <1>1, <2>2 DEF LockInv, Procs
  <2>4. EventsTyped'
    BY <1>1, <1>3 DEF EventsTyped, Discard, Notify
  <2> QED  BY <2>2, <2>3, <2>4, XlMoves DEF Quiet
<1> QED  BY <1>1, <1>2, <1>3 DEF NotRenamed

\* Who destroys does not hold the lock.
LEMMA DestroyingUnlocked ==
  ASSUME LockInv, NEW p \in Procs, proc[p].pc \in Destroying,
         \A q \in Procs \ {p} : proc'[q] = proc[q], UNCHANGED lock
  PROVE  LockInv'
BY NoneAssumption, LockWaits DEF LockInv, Destroying, Naming

\* A process that has destroyed its domain goes on: of what it made nothing will
\* come up again.
LEMMA DestroyedLives ==
  ASSUME NameInv, LifeInv, NEW p \in Xl, proc[p].pc \in Destroying, Goto(p, proc[p].next),
         UNCHANGED lock, EventsTyped', \A d \in Ids : Quiet(d),
         \A d \in Ids : d = Dom(p) => Ended(d)'
  PROVE  LifeInv'
<1> USE Member
<1>1. proc[p] \in ProcRec /\ p \in Procs /\ ProcInv(p) /\ LockInv
  BY DEF LifeInv
<1>2. proc[p].next \in {"exited", "restart"}
  BY <1>1 DEF ProcInv, WhereInv
<1>3. ASSUME NEW d \in Ids, dom'[d].by = p
      PROVE  /\ Finished(d)' \/ d = Dom(p) \/ dom'[d].st = "new"
             /\ ~proc[p].daemon => Ended(d)'
             /\ ~Unsaved(d)'
  <2>1. dom[d].by = p /\ Quiet(d)
    BY <1>3 DEF Quiet, Later
  <2>2. CASE d = Dom(p)
    <3>1. Ended(d)'
      BY <2>2
    <3> QED  BY <2>2, <3>1 DEF Ended, Unsaved, Up
  <2>3. CASE d # Dom(p)
    <3>1. (Finished(d) \/ dom[d].st = "new") /\ (~proc[p].daemon => Ended(d))
      BY <1>1, <2>1, <2>3 DEF ProcInv, OneInv, Building, Naming, LeftInv, Destroying
    <3>2. ~Unsaved(d)
      BY <3>1 DEF Finished, Unsaved, Up
    <3> QED  BY <2>1, <3>1, <3>2 DEF Quiet, Later
  <2> QED  BY <2>2, <2>3
<1>4. Dom(p) # 0 => Dom(p) \in Ids /\ dom'[Dom(p)].by = p
  BY <1>1 DEF ProcInv, OneInv, Building, Naming, Quiet, Later
<1>5. CASE proc[p].next = "exited"
  <2>1. /\ proc'[p].pc = "exited" /\ proc'[p].d = proc[p].d /\ proc'[p].exit = proc[p].exit
        /\ proc'[p].daemon = FALSE /\ proc'[p].seen = None /\ \A q \in Procs \ {p} : proc'[q] = proc[q]
    BY <1>1, <1>5, GotoIs
  <2>2. proc[p].exit = "fail" => ~proc[p].daemon
    BY <1>1 DEF ProcInv, WhereInv
  <2>3. WhereInv(p)'
    BY <2>1 DEF WhereInv, Restarts, Naming, Destroying
  <2>4. OneInv(p)'
    <3>1. ~Free(p)' /\ ~Building(p)' /\ Dom(p)' = Dom(p)
      BY <2>1 DEF Free, Restarts, Building, Naming, Destroying, Dom
    <3> QED  BY <1>3, <1>4, <3>1 DEF OneInv, Building, Naming
  <2>5. LeftInv(p)'
    BY <1>3, <2>1, <2>2 DEF LeftInv
  <2> QED  BY <1>1, <2>1, <2>3, <2>4, <2>5, DestroyingUnlocked, XlMoves DEF ProcInv, Quiet
<1>6. CASE proc[p].next = "restart"
  <2>0. Goto(p, "restart")
    BY <1>6
  <2>1. proc'[p] = [proc[p] EXCEPT !.pc = "restart"] /\ \A q \in Procs \ {p} : proc'[q] = proc[q]
    BY <1>1, <2>0, GotoIs
  <2>2. proc[p].daemon /\ proc[p].exit = "ok"
    BY <1>1, <1>6 DEF ProcInv, WhereInv, Restarts
  <2>3. /\ proc'[p].pc = "restart" /\ proc'[p].d = proc[p].d /\ proc'[p].daemon
        /\ proc'[p].exit = "ok"
    BY <1>1, <2>1, <2>2 DEF ProcRec
  <2>4. WhereInv(p)'
    BY <2>3 DEF WhereInv, Naming, Destroying
  <2>5. OneInv(p)'
    <3>1. Free(p) /\ ~Building(p)' /\ Dom(p)' = Dom(p)
      BY <1>6, <2>3 DEF Free, Restarts, Building, Naming, Destroying, Dom
    <3>2. ASSUME NEW d \in Ids, dom'[d].by = p
          PROVE  Finished(d)' \/ (d # Dom(p) /\ dom'[d].st = "new")
      <4>1. dom[d].by = p /\ Quiet(d)
        BY <3>2 DEF Quiet, Later
      <4>2. Finished(d) \/ (d # Dom(p) /\ dom[d].st = "new")
        BY <1>1, <3>1, <4>1 DEF ProcInv, OneInv, Building, Naming
      <4> QED  BY <4>1, <4>2 DEF Quiet, Later
    <3> QED  BY <1>4, <3>1, <3>2 DEF OneInv, Building, Naming
  <2>6. LeftInv(p)'
    BY <2>3 DEF LeftInv
  <2> QED  BY <1>1, <2>1, <2>4, <2>5, <2>6, DestroyingUnlocked, XlMoves DEF ProcInv, Quiet
<1> QED  BY <1>2, <1>5, <1>6

LEMMA DestroyLives ==
  ASSUME NameInv, LifeInv, NEW p \in Xl, DestroyDevices(p) \/ DestroyDomain(p) PROVE LifeInv'
<1> USE Member
<1>1. /\ proc[p].pc \in Destroying /\ UNCHANGED lock /\ proc[p] \in ProcRec /\ p \in Procs
      /\ ProcInv(p) /\ LockInv /\ EventsTyped
  BY DEF DestroyDevices, DestroyDomain, At, Destroying, LifeInv
<1>2. EventsTyped'
  BY <1>1 DEF DestroyDevices, DestroyDomain, DevicesWait, Notify, EventsTyped
<1>3. CASE DestroyDevices(p) /\ Exists(Dom(p))
  <2>1. /\ dom' = [dom EXCEPT ![Dom(p)].paused = TRUE, ![Dom(p)].name = <<>>]
        /\ Goto(p, "destroy_domain")
    BY <1>3 DEF DestroyDevices
  <2>2. \A d \in Ids : Quiet(d)
    BY <2>1, NameFacts, RenameQuiet, OwnExists
  <2>3. proc'[p] = [proc[p] EXCEPT !.pc = "destroy_domain"] /\ \A q \in Procs \ {p} : proc'[q] = proc[q]
    BY <1>1, <2>1, GotoIs
  <2>4. /\ proc'[p].pc = "destroy_domain" /\ proc'[p].d = proc[p].d /\ proc'[p].next = proc[p].next
        /\ proc'[p].daemon = proc[p].daemon /\ proc'[p].seen = proc[p].seen
        /\ proc'[p].exit = proc[p].exit
    BY <1>1, <2>3 DEF ProcRec
  <2>5. WhereInv(p)'
    BY <1>1, <2>4 DEF ProcInv, WhereInv, Restarts, Naming, Destroying
  <2>6. OneInv(p)'
    <3>1. Free(p)' <=> Free(p)
      BY <1>1, <2>4 DEF Free, Restarts, Naming, Destroying
    <3> QED  BY <1>1, <2>2, <2>4, <3>1 DEF ProcInv, OneInv, Building, Naming, Dom, Quiet, Later
  <2>7. LeftInv(p)'
    BY <1>1, <2>2, <2>4 DEF ProcInv, LeftInv, Dom, Destroying, Quiet, Later
  <2> QED  BY <1>1, <1>2, <2>2, <2>3, <2>5, <2>6, <2>7, DestroyingUnlocked, XlMoves DEF ProcInv, Quiet
<1>4. CASE ~Exists(Dom(p)) /\ UNCHANGED dom /\ Goto(p, proc[p].next)
  <2>1. \A d \in Ids : d = Dom(p) => Ended(d)'
    BY <1>4, IdsFacts, OwnExists DEF Exists, Ended
  <2> QED  BY <1>1, <1>2, <1>4, <2>1, SameQuiet, DestroyedLives
<1>5. CASE DestroyDomain(p) /\ Exists(Dom(p))
  <2>1. Goto(p, proc[p].next)
    BY <1>5 DEF DestroyDomain
  <2>2. \A d \in Ids : Quiet(d)
    BY <1>1, <1>5, DestroyQuiet
  <2>3. \A d \in Ids : d = Dom(p) => Ended(d)'
    BY <1>1, <1>5, DestroyQuiet
  <2> QED  BY <1>1, <1>2, <2>1, <2>2, <2>3, DestroyedLives
<1> QED  BY <1>3, <1>4, <1>5 DEF DestroyDevices, DestroyDomain

-----------------------------------------------------------------------------
(* The user, and the guests *)

\* A command that is carried on, or given up.
LEMMA UserGoes ==
  ASSUME NameInv, LifeInv, NEW pc, Goto(User, pc), pc # "suspended",
         pc \in Naming => proc[User].pc \in Naming,
         UNCHANGED lock, EventsTyped', \A d \in Ids : Quiet(d)
  PROVE  LifeInv'
<1> USE Member
<1>1. proc[User] \in ProcRec /\ UserInv
  BY DEF LifeInv
<1>2. proc'[User].pc = pc /\ \A q \in Xl : proc'[q] = proc[q]
  BY GotoIs, ProcsAssumption
<1>3. proc'[User].d \in {0, Dom(User)} /\ (pc \in Naming => proc'[User].next = proc[User].next)
  <2>1. CASE pc \in {"idle", "exited"}
    BY <2>1, GotoIs DEF Naming, Dom
  <2>2. CASE pc \notin {"idle", "exited"}
    <3>1. proc'[User] = [proc[User] EXCEPT !.pc = pc]
      BY <2>2, GotoIs
    <3> QED  BY <1>1, <3>1 DEF ProcRec, Dom
  <2> QED  BY <2>1, <2>2
<1>4. UserInv'
  <2>1. Dom(User) # 0 => dom'[Dom(User)].st # None
    BY <1>1 DEF UserInv, Quiet, Later
  <2> QED  BY <1>1, <1>2, <1>3, <2>1 DEF UserInv, At, Dom
<1> QED  BY <1>2, <1>4, UserMoves

\* A command that is given for a domain.
LEMMA UserGives ==
  ASSUME NameInv, LifeInv, NEW r, proc' = [proc EXCEPT ![User] = r], r.d \in Ids,
         dom'[r.d].st # None, r.pc \in Naming => r.next = "idle",
         r.pc = "suspended" => dom'[r.d].once_suspended,
         UNCHANGED lock, EventsTyped', \A d \in Ids : Quiet(d)
  PROVE  LifeInv'
<1>1. proc'[User] = r /\ \A q \in Xl : proc'[q] = proc[q]
  BY Member, SetIs, ProcsAssumption
<1>2. UserInv'
  BY <1>1, IdsFacts DEF UserInv, At, Dom
<1> QED  BY <1>1, <1>2, UserMoves

\* A step that only some domain takes.
LEMMA GuestMoves ==
  ASSUME NameInv, LifeInv, UNCHANGED <<proc, lock>>, EventsTyped', \A d \in Ids : Quiet(d)
  PROVE  LifeInv'
<1>1. UserInv'
  BY UserWaits DEF LifeInv, Quiet
<1> QED  BY <1>1, UserMoves

LEMMA UserLibxlLives ==
  ASSUME NameInv, LifeInv, LibxlStep(User) PROVE LifeInv'
<1> USE Member
<1> DEFINE d == Dom(User)
<1>1. /\ proc[User] \in ProcRec /\ UserInv /\ EventsTyped /\ UNCHANGED lock
      /\ (d \in Ids => dom[d].st # None)
  BY IdsFacts DEF LifeInv, UserInv, LibxlStep, CheckName, Commit, NotRenamed, DestroyDevices, DestroyDomain
<1>2. EventsTyped'
  BY <1>1 DEF EventsTyped, LibxlStep, CheckName, Commit, NotRenamed, DestroyDevices, DestroyDomain,
              DevicesWait, Notify, Discard
<1>3. proc[User].next \notin Naming \cup {"suspended"}
  BY <1>1 DEF ProcRec, Nexts, Naming, None
<1>4. CASE CheckName(User)
  <2>1. \E pc \in Naming : Goto(User, pc)
    BY <1>4 DEF CheckName, Naming
  <2> QED  BY <1>1, <1>2, <1>4, <2>1, SameQuiet, UserGoes DEF CheckName, At, Naming
<1>5. CASE Commit(User)
  <2>1. CASE dom' = [dom EXCEPT ![Dom(User)].name = proc[User].to] /\ Goto(User, proc[User].next)
    <3>1. proc[User].to \in Names
      BY <1>1 DEF ProcRec
    <3>2. \A e \in Ids : Quiet(e)
      BY <1>1, <2>1, <3>1, RenameQuiet
    <3> QED  BY <1>1, <1>2, <1>3, <2>1, <3>2, UserGoes
  <2>2. CASE UNCHANGED dom /\ Goto(User, "rename")
    BY <1>1, <1>2, <1>5, <2>2, SameQuiet, UserGoes DEF Commit, At, Naming
  <2> QED  BY <1>5, <2>1, <2>2 DEF Commit
<1>6. CASE NotRenamed(User)
  <2>1. proc[User].next = "idle"
    BY <1>1, <1>6 DEF UserInv, NotRenamed, At, Naming
  <2>2. Goto(User, "idle") /\ UNCHANGED dom
    BY <1>6, <2>1 DEF NotRenamed
  <2> QED  BY <1>1, <1>2, <2>2, SameQuiet, UserGoes DEF Naming
<1>7. CASE DestroyDevices(User)
  <2>1. CASE /\ dom' = [dom EXCEPT ![Dom(User)].paused = TRUE, ![Dom(User)].name = <<>>]
             /\ Goto(User, "destroy_domain")
    <3>1. \A e \in Ids : Quiet(e)
      BY <1>1, <2>1, NameFacts, RenameQuiet
    <3> QED  BY <1>1, <1>2, <2>1, <3>1, UserGoes DEF Naming
  <2>2. CASE Goto(User, proc[User].next) /\ UNCHANGED dom
    BY <1>1, <1>2, <1>3, <2>2, SameQuiet, UserGoes
  <2> QED  BY <1>7, <2>1, <2>2 DEF DestroyDevices
<1>8. CASE DestroyDomain(User)
  <2>1. Goto(User, proc[User].next)
    BY <1>8 DEF DestroyDomain
  <2>2. \A e \in Ids : Quiet(e)
    BY <1>8, DestroyQuiet
  <2> QED  BY <1>1, <1>2, <1>3, <2>1, <2>2, UserGoes
<1> QED  BY <1>4, <1>5, <1>6, <1>7, <1>8 DEF LibxlStep

LEMMA UserStartsLives ==
  ASSUME NameInv, LifeInv, UserStarts PROVE LifeInv'
<1> USE Member
<1>1. PICK d \in Ids :
        \/ PauseCommand(d) \/ UnpauseCommand(d) \/ ShutdownCommand(d) \/ DestroyCommand(d)
        \/ SaveCommand(d)
        \/ \E name \in {<<"g">>, <<"h">>} : RenameCommand(d, name)
  BY DEF UserStarts
<1>2. /\ proc[User] \in ProcRec /\ UserInv /\ EventsTyped /\ UNCHANGED lock
      /\ dom[d] \in DomRec /\ dom[d].st # None
  BY <1>1 DEF LifeInv, NameInv, DomsTyped, PauseCommand, UnpauseCommand, ShutdownCommand, DestroyCommand,
              SaveCommand, Suspend, RenameCommand, StartRename, Command, Exists
<1>3. CASE PauseCommand(d) \/ UnpauseCommand(d)
  <2>1. \E b \in BOOLEAN : dom' = [dom EXCEPT ![d].paused = b]
    BY <1>3 DEF PauseCommand, UnpauseCommand, Unpause
  <2>2. \A e \in Ids : Quiet(e)
    BY <1>2, <2>1, PauseQuiet
  <2>3. UNCHANGED <<proc, lock>> /\ EventsTyped'
    BY <1>2, <1>3 DEF PauseCommand, UnpauseCommand, EventsTyped
  <2> QED  BY <2>2, <2>3, GuestMoves
<1>4. CASE ShutdownCommand(d)
  <2> DEFINE r == [proc[User] EXCEPT !.pc = "wait", !.d = d]
  <2>1. EventsTyped' /\ UNCHANGED dom
    BY <1>2, <1>4 DEF ShutdownCommand, WatchSet, EventsTyped
  <2>2. r.pc = "wait" /\ r.d = d
    BY <1>2 DEF ProcRec
  <2>3. UNCHANGED proc \/ proc' = [proc EXCEPT ![User] = r]
    BY <1>4 DEF ShutdownCommand
  <2> HIDE DEF r
  <2>4. CASE UNCHANGED proc
    BY <1>2, <2>1, <2>4, SameQuiet, GuestMoves
  <2>5. CASE proc' = [proc EXCEPT ![User] = r]
    BY <1>2, <2>1, <2>2, <2>5, SameQuiet, UserGives DEF Naming
  <2> QED  BY <2>3, <2>4, <2>5
<1>5. CASE DestroyCommand(d)
  <2> DEFINE r == [proc[User] EXCEPT !.pc = "destroy", !.d = d, !.next = "idle"]
  <2>1. EventsTyped' /\ UNCHANGED dom
    BY <1>2, <1>5 DEF DestroyCommand, EventsTyped
  <2>2. r.pc = "destroy" /\ r.d = d
    BY <1>2 DEF ProcRec
  <2>3. proc' = [proc EXCEPT ![User] = r]
    BY <1>5 DEF DestroyCommand, StartDestroy
  <2> HIDE DEF r
  <2> QED  BY <1>2, <2>1, <2>2, <2>3, SameQuiet, UserGives DEF Naming
<1>6. CASE SaveCommand(d)
  <2> DEFINE r == [proc[User] EXCEPT !.pc = "suspended", !.d = d]
             asleep == [dom[d] EXCEPT !.st = "shutdown", !.reason = "suspend", !.once_suspended = TRUE]
  <2>1. EventsTyped'
    BY <1>2, <1>6 DEF SaveCommand, Suspend, Notify, EventsTyped
  <2>2. /\ r.pc = "suspended" /\ r.d = d /\ asleep.st = "shutdown" /\ asleep.by = dom[d].by
        /\ asleep.once_suspended /\ asleep.refused = dom[d].refused
    BY <1>2 DEF ProcRec, DomRec
  <2>3. proc' = [proc EXCEPT ![User] = r] /\ dom' = [dom EXCEPT ![d] = asleep] /\ Up(d)
    BY <1>6 DEF SaveCommand, Suspend
  <2> HIDE DEF r, asleep
  <2>4. \A e \in Ids : Quiet(e)
    BY <1>2, <2>2, <2>3, OneQuiet DEF NameInv
  <2>5. dom'[d] = asleep
    BY <2>3 DEF NameInv, DomsTyped
  <2> QED  BY <1>2, <2>1, <2>2, <2>3, <2>4, <2>5, UserGives DEF Naming, None
<1>7. ASSUME NEW name \in {<<"g">>, <<"h">>}, RenameCommand(d, name) PROVE LifeInv'
  <2> DEFINE r == [proc[User] EXCEPT !.pc = "rename", !.d = d, !.to = name,
                       !.old = dom[d].name, !.next = "idle"]
  <2>1. EventsTyped' /\ UNCHANGED dom
    BY <1>2, <1>7 DEF RenameCommand, EventsTyped
  <2>2. r.pc = "rename" /\ r.d = d /\ r.next = "idle"
    BY <1>2 DEF ProcRec
  <2>3. proc' = [proc EXCEPT ![User] = r]
    BY <1>7 DEF RenameCommand, StartRename
  <2> HIDE DEF r
  <2> QED  BY <1>2, <2>1, <2>2, <2>3, SameQuiet, UserGives
<1> QED  BY <1>1, <1>3, <1>4, <1>5, <1>6, <1>7

\* A guest that is resumed was suspended by the user, and is not new any more.
LEMMA UserStepLives ==
  ASSUME NameInv, LifeInv, UserStep PROVE LifeInv'
<1> USE Member
<1>1. /\ proc[User] \in ProcRec /\ UserInv /\ EventsTyped /\ UNCHANGED lock
      /\ (Dom(User) \in Ids => dom[Dom(User)].st # None)
  BY IdsFacts DEF LifeInv, UserInv, UserStep, WaitEvent, SaveEnds, Resume
<1>2. EventsTyped'
  BY <1>1 DEF EventsTyped, UserStep, WaitEvent, SaveEnds, Resume
<1>3. CASE UNCHANGED <<proc, dom>>
  BY <1>1, <1>2, <1>3, SameQuiet, GuestMoves
<1>4. CASE Goto(User, "idle") /\ \A d \in Ids : Quiet(d)
  BY <1>1, <1>2, <1>4, UserGoes DEF Naming
<1>5. CASE StartDestroy(User, Dom(User), "idle") /\ UNCHANGED dom /\ At(User, "suspended")
  <2> DEFINE r == [proc[User] EXCEPT !.pc = "destroy", !.d = Dom(User), !.next = "idle"]
  <2>1. r.pc = "destroy" /\ r.d = Dom(User)
    BY <1>1 DEF ProcRec
  <2>2. proc' = [proc EXCEPT ![User] = r]
    BY <1>5 DEF StartDestroy
  <2> HIDE DEF r
  <2>3. r.d \in Ids /\ dom'[r.d].st # None
    BY <1>1, <1>5, <2>1 DEF UserInv
  <2> QED  BY <1>1, <1>2, <1>5, <2>1, <2>2, <2>3, SameQuiet, UserGives DEF Naming
<1>6. CASE WaitEvent
  BY <1>3, <1>4, <1>6, SameQuiet DEF WaitEvent
<1>7. CASE SaveEnds
  <2>1. Unpause(Dom(User)) => \A d \in Ids : Quiet(d)
    BY <1>1, PauseQuiet DEF Unpause
  <2> QED  BY <1>4, <1>5, <1>7, <2>1, SameQuiet DEF SaveEnds
<1>8. CASE Resume
  <2>1. CASE UNCHANGED dom
    BY <1>4, <1>8, <2>1, SameQuiet DEF Resume
  <2>2. CASE /\ Suspended(Dom(User))
             /\ dom' = [dom EXCEPT ![Dom(User)].st = "up", ![Dom(User)].reason = None]
    <3> DEFINE awake == [dom[Dom(User)] EXCEPT !.st = "up", !.reason = None]
    <3>1. Dom(User) \in Ids /\ dom[Dom(User)] \in DomRec /\ dom[Dom(User)].once_suspended
      BY <1>1, <1>8, <2>2 DEF Resume, UserInv, Suspended, NameInv, DomsTyped
    <3>2. awake.st = "up" /\ awake.by = dom[Dom(User)].by /\ awake.once_suspended
          /\ awake.refused = dom[Dom(User)].refused
      BY <3>1 DEF DomRec
    <3>3. dom' = [dom EXCEPT ![Dom(User)] = awake]
      BY <2>2
    <3> HIDE DEF awake
    <3>4. \A d \in Ids : Quiet(d)
      BY <1>1, <2>2, <3>1, <3>2, <3>3, OneQuiet DEF NameInv
    <3> QED  BY <1>4, <1>8, <3>4 DEF Resume
  <2> QED  BY <1>8, <2>1, <2>2 DEF Resume
<1> QED  BY <1>6, <1>7, <1>8 DEF UserStep

LEMMA GuestsLive ==
  ASSUME NameInv, LifeInv, Guests PROVE LifeInv'
<1>1. PICK d \in Ids : Reap(d) \/ \E r \in Reasons : Shutdown(d, r)
  BY DEF Guests
<1>2. UNCHANGED <<proc, lock>> /\ EventsTyped'
  BY <1>1 DEF LifeInv, EventsTyped, Reap, Shutdown, Notify
<1>3. dom[d] \in DomRec
  BY DEF NameInv, DomsTyped
<1>4. CASE Reap(d)
  <2>1. Gone(d).st = "gone" /\ Gone(d).by = dom[d].by
    BY DEF Gone, NoDomain
  <2>2. dom[d].st # None /\ dom' = [dom EXCEPT ![d] = Gone(d)]
    BY <1>4 DEF Reap, None
  <2>3. \A e \in Ids : Quiet(e)
    BY <2>1, <2>2, OneQuiet DEF NameInv
  <2> QED  BY <1>2, <2>3, GuestMoves
<1>5. ASSUME NEW r \in Reasons, Shutdown(d, r) PROVE LifeInv'
  <2> DEFINE down == [dom[d] EXCEPT !.st = "shutdown", !.reason = r]
  <2>1. /\ down.st = "shutdown" /\ down.by = dom[d].by
        /\ down.once_suspended = dom[d].once_suspended /\ down.refused = dom[d].refused
    BY <1>3 DEF DomRec
  <2>2. dom' = [dom EXCEPT ![d] = down] /\ Up(d)
    BY <1>5 DEF Shutdown
  <2> HIDE DEF down
  <2>3. \A e \in Ids : Quiet(e)
    BY <2>1, <2>2, OneQuiet DEF NameInv, Up, None
  <2> QED  BY <1>2, <2>3, GuestMoves
<1> QED  BY <1>1, <1>4, <1>5

-----------------------------------------------------------------------------
(* The theorems *)

LEMMA InitLives == Init => LifeInv
<1> SUFFICES ASSUME Init PROVE LifeInv
  OBVIOUS
<1>1. \A d \in Ids : dom[d].st = None /\ dom[d].by = None
  BY DEF Init, NoDomain
<1>2. \A p \in Xl : /\ proc[p].pc = "start" /\ proc[p].d = 0 /\ proc[p].daemon = FALSE
                    /\ proc[p].seen = None /\ proc[p].exit = None
  BY ProcsAssumption DEF Init, NewProc, Procs
<1>3. proc[User].pc = "idle" /\ proc[User].d = 0
  BY DEF Init, Idle, NewProc, Procs
<1>4. MakersKnown /\ EventsTyped /\ LockInv
  BY <1>1 DEF Init, MakersKnown, EventsTyped, LockInv
<1>5. UserInv
  BY <1>3 DEF UserInv, Dom, At, Naming
<1>6. ASSUME NEW p \in Xl PROVE ProcInv(p)
  <2>1. WhereInv(p)
    BY <1>2 DEF WhereInv, Naming, Destroying, Restarts, None
  <2>2. \A d \in Ids : dom[d].by # p
    BY <1>1, NoneAssumption DEF Procs
  <2> QED  BY <1>2, <2>1, <2>2 DEF ProcInv, OneInv, Building, Naming, LeftInv, Dom
<1> QED  BY <1>4, <1>5, <1>6 DEF LifeInv

LEMMA LifeInductive == NameInv /\ LifeInv /\ [Next]_vars => LifeInv'
<1> SUFFICES ASSUME NameInv, LifeInv, [Next]_vars PROVE LifeInv'
  OBVIOUS
<1>1. ASSUME NEW p \in Xl, XlRuns(p) PROVE LifeInv'
  BY <1>1, StartLives, LockLives, CreateLives, BuildLives, StoreConfigLives, BootedLives, ForkLives,
     WatchLives, GetEventLives, DeathLives, RestartLives, ErrorLives DEF XlRuns, XlStep
<1>2. ASSUME NEW p \in Xl, LockFails(p) PROVE LifeInv'
  BY <1>2, LockLives
<1>3. ASSUME NEW p \in Procs, LibxlRuns(p) PROVE LifeInv'
  <2>1. CASE p \in Xl
    BY <1>3, <2>1, CheckNameLives, CommitLives, NotRenamedLives, DestroyLives DEF LibxlRuns, LibxlStep
  <2>2. CASE p = User
    BY <1>3, <2>2, UserLibxlLives DEF LibxlRuns
  <2> QED  BY <2>1, <2>2 DEF Procs
<1>4. CASE UserStarts
  BY <1>4, UserStartsLives
<1>5. CASE UserStep
  BY <1>5, UserStepLives
<1>6. CASE Guests
  BY <1>6, GuestsLive
<1>7. CASE UNCHANGED vars
  <2>1. UNCHANGED <<dom, proc, lock, event>>
    BY <1>7 DEF vars
  <2>2. EventsTyped'
    BY <2>1 DEF LifeInv, EventsTyped
  <2> QED  BY <2>1, <2>2, SameQuiet, GuestMoves
<1> QED  BY <1>1, <1>2, <1>3, <1>4, <1>5, <1>6, <1>7 DEF Next, Over

\* Two instances of one configuration never run side by side
\* (xl_cmdimpl.c:1628-1672): a daemon only makes a new domain when the old one has
\* shut down and was not suspended, or is gone.
THEOREM OneInstanceRuns == Spec => []OneInstance
<1>1. LifeInv => OneInstance
  <2> SUFFICES ASSUME LifeInv, NEW d \in Ids, NEW e \in Ids, Up(d), Up(e), dom[d].by = dom[e].by
               PROVE  d = e
    BY DEF OneInstance
  <2>1. dom[d].by \in Xl
    BY DEF LifeInv, MakersKnown, Up, None
  <2>2. OneInv(dom[d].by)
    BY <2>1 DEF LifeInv, ProcInv
  <2> QED  BY <2>1, <2>2 DEF OneInv, Building, Naming, Finished, Up
<1> QED  BY InitNames, NamesInductive, InitLives, LifeInductive, <1>1, PTL DEF Spec

\* Every guest has its daemon, what failed is gone, and the lock is held by
\* somebody on the way to releasing it (xl_cmdimpl.c:1614-1700).
THEOREM NobodyOrphaned == Spec => []NoOrphans
<1>1. NameInv /\ LifeInv => NoOrphans
  <2> SUFFICES ASSUME NameInv, LifeInv PROVE NoOrphans
    OBVIOUS
  <2>1. TypeOK
    <3>1. \A d \in Ids :
            /\ dom[d].st \in {None, "new", "up", "shutdown", "dying", "gone"}
            /\ dom[d].by \in Xl \cup {None} /\ (dom[d].by = None) = (dom[d].st = None)
      BY DEF NameInv, DomsTyped, DomRec, LifeInv, MakersKnown
    <3>2. \A p \in Procs : Dom(p) \in 0..MaxDom /\ event[p] \in {None, "quiet", "pending"}
      BY Member DEF LifeInv, EventsTyped
    <3>3. valid \subseteq {p \in Procs : At(p, "commit")}
      BY DEF NameInv, ValidFresh
    <3>4. lock \in Xl \cup {None} /\ (lock # None => proc[lock].pc \in Locked)
      BY DEF LifeInv, LockInv, Locked, Naming
    <3> QED  BY <3>1, <3>2, <3>3, <3>4 DEF TypeOK
  <2>2. Watched
    <3> SUFFICES ASSUME NEW d \in Ids, Up(d), ~dom[d].once_suspended, ~dom[d].refused,
                        proc[dom[d].by].daemonize
                 PROVE  ~At(dom[d].by, "exited")
      BY DEF Watched
    <3>1. dom[d].by \in Xl
      BY DEF LifeInv, MakersKnown, Up, None
    <3>2. LeftInv(dom[d].by)
      BY <3>1 DEF LifeInv, ProcInv
    <3> QED  BY <3>2 DEF LeftInv, Unsaved, At
  <2>3. NothingLeft
    BY DEF LifeInv, ProcInv, LeftInv, NothingLeft, Ended, At
  <2> QED  BY <2>1, <2>2, <2>3 DEF NoOrphans
<1> QED  BY InitNames, NamesInductive, InitLives, LifeInductive, <1>1, PTL DEF Spec

-----------------------------------------------------------------------------
(* Who takes a suspended guest away *)

\* A daemon that has seen a death has to do with no domain but its own, and with
\* that only if it is finished.
LEMMA DaemonKeeps ==
  ASSUME NameInv, LifeInv, NEW p \in Xl, proc[p].seen # None,
         XlStep(p) \/ LibxlStep(p) \/ LockFails(p)
  PROVE  \A d \in Ids : Suspended(d) => dom'[d] = dom[d]
<1>1. ProcInv(p) /\ dom \in [Ids -> DomRec] /\ p # User
  BY ProcsAssumption DEF LifeInv, NameInv, DomsTyped
<1>2. proc[p].pc \in {"dead", "restart"} \/ Free(p)
  BY <1>1 DEF ProcInv, WhereInv, Free
<1>3. UNCHANGED dom \/ (Free(p) /\ \A d \in Ids : d # Dom(p) => dom'[d] = dom[d])
  <2>1. CASE XlStep(p) \/ LockFails(p)
    BY <1>1, <2>1
    DEF ProcInv, WhereInv, Restarts, Naming, Destroying, XlStep, LockFails, Start, AcquireLock, Create,
        Build, StoreConfig, Booted, Fork, Watch, GetEvent, HandleDomainDeath, Restart, Error, At
  <2>2. CASE LibxlStep(p)
    <3>1. Free(p)
      BY <1>2, <2>2
      DEF LibxlStep, CheckName, Commit, NotRenamed, DestroyDevices, DestroyDomain, At
    <3>2. CASE CheckName(p) \/ NotRenamed(p)
      BY <1>1, <3>2 DEF CheckName, NotRenamed, At, ProcInv, WhereInv, Restarts, Naming, Destroying
    <3>3. CASE Commit(p) \/ DestroyDevices(p) \/ DestroyDomain(p)
      BY <1>1, <3>1, <3>3 DEF Commit, DestroyDevices, DestroyDomain
    <3> QED  BY <2>2, <3>2, <3>3 DEF LibxlStep
  <2> QED  BY <2>1, <2>2
<1>4. Free(p) /\ Dom(p) \in Ids => ~Suspended(Dom(p))
  BY <1>1, IdsFacts DEF ProcInv, OneInv, Finished
<1> QED  BY <1>3, <1>4

\* A step that changes what is kept of a process is a step of that process.
LEMMA OwnStep ==
  ASSUME NameInv, NEW p \in Xl, Next, proc'[p] # proc[p]
  PROVE  XlStep(p) \/ LibxlStep(p) \/ LockFails(p)
<1>1. p # User /\ proc \in [Procs -> ProcRec] /\ p \in Procs
  BY ProcsAssumption, Member DEF NameInv, ProcsTyped
<1>2. ASSUME NEW q \in Procs, q # p, XlStep(q) \/ LockFails(q) PROVE proc'[p] = proc[p]
  <2>1. ASSUME NEW pc, Goto(q, pc) PROVE proc'[p] = proc[p]
    BY <1>1, <1>2, <2>1 DEF Goto
  <2>2. ASSUME Fail(q) \/ Discard(q) \/ \E d, next : StartDestroy(q, d, next) PROVE proc'[p] = proc[p]
    BY <1>1, <1>2, <2>2 DEF Fail, Discard, StartDestroy
  <2>3. CASE Start(q) \/ AcquireLock(q) \/ LockFails(q) \/ Create(q)
    BY <1>1, <1>2, <2>2, <2>3
    DEF LockFails, Start, ReadConfig, AcquireLock, Create, FreeMemFails
  <2>4. CASE Build(q) \/ StoreConfig(q) \/ Booted(q) \/ Fork(q)
    BY <1>1, <1>2, <2>1, <2>2, <2>4 DEF Build, StoreConfig, Booted, Fork
  <2>5. CASE Watch(q) \/ GetEvent(q) \/ Restart(q)
    BY <1>1, <1>2, <2>1, <2>5 DEF Watch, WaitForDeath, GetEvent, Restart
  <2>6. CASE Error(q)
    BY <2>1, <2>2, <2>6 DEF Error, ErrorOut
  <2>7. CASE HandleDomainDeath(q)
    <3>1. Action(proc[q].seen) \in Actions
      BY ConfigAssumption DEF Action, Actions
    <3> HIDE DEF Action
    <3> QED  BY <1>1, <1>2, <2>1, <2>2, <2>7, <3>1
             DEF HandleDomainDeath, PreserveDomain, Preserve, Actions
  <2> QED  BY <1>2, <2>3, <2>4, <2>5, <2>6, <2>7 DEF XlStep
<1>3. ASSUME NEW q \in Procs, q # p, LibxlStep(q) PROVE proc'[p] = proc[p]
  BY <1>1, <1>3
  DEF LibxlStep, CheckName, Commit, NotRenamed, DestroyDevices, DestroyDomain, Discard, Goto
<1>4. ASSUME UserStarts PROVE proc'[p] = proc[p]
  BY <1>1, <1>4
  DEF UserStarts, PauseCommand, UnpauseCommand, ShutdownCommand, DestroyCommand, SaveCommand, Suspend,
      RenameCommand, StartRename, StartDestroy
<1>5. ASSUME UserStep \/ Guests \/ Over PROVE proc'[p] = proc[p]
  BY <1>1, <1>5
  DEF UserStep, WaitEvent, SaveEnds, Resume, StartDestroy, Goto, Guests, Reap, Shutdown, Over, vars
<1>6. CASE \E q \in Xl : XlRuns(q) \/ (LockFails(q) /\ UNCHANGED commands)
  BY <1>2, <1>6, Member DEF XlRuns
<1>7. CASE \E q \in Procs : LibxlRuns(q)
  BY <1>3, <1>7 DEF LibxlRuns
<1> QED  BY <1>4, <1>5, <1>6, <1>7 DEF Next

\* No step of a daemon that woke up because its domain died touches a suspended
\* guest: xl save or xl migrate, and whoever else has to do with it, finds it as it
\* was (SuspendedKept).
THEOREM SuspendedStaysKept == Spec => SuspendedKept
<1>1. ASSUME NameInv, LifeInv, [Next]_vars
      PROVE  [\A p \in Xl : \A d \in Ids :
                proc[p].seen # None /\ proc'[p] # proc[p] /\ Suspended(d) => dom'[d] = dom[d]]_vars
  <2>1. CASE Next
    BY <1>1, <2>1, OwnStep, DaemonKeeps
  <2>2. CASE UNCHANGED vars
    BY <2>2
  <2> QED  BY <1>1, <2>1, <2>2
<1> QED
  BY InitNames, NamesInductive, InitLives, LifeInductive, <1>1, PTL DEF Spec, SuspendedKept
=============================================================================

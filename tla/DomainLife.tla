----------------------------- MODULE DomainLife -----------------------------
(***************************************************************************)
(* The life of guests under xl.  Every xl create or xl restore builds a     *)
(* domain under the lock file and leaves a daemon behind, which waits for   *)
(* the domain to die and then destroys, preserves or restarts it.  Beside   *)
(* them a user runs other commands.  They share Xen, xenstore and the lock. *)
(*                                                                         *)
(* A name is a sequence: <<"g">> is what all configurations say, <<"g", t>> *)
(* what is preserved in minute t, <<>> no name.  Receiving a migrated guest *)
(* is in Migration.                                                         *)
(***************************************************************************)
EXTENDS Naturals, Sequences, FiniteSets

CONSTANTS
  Xl,           \* processes xl create and xl restore, and their daemons
  User,         \* the process of the other commands
  MaxDom,       \* bound: number of domains Xen ever creates
  MaxMinute,    \* bound: the minutes preserved domains are named after
  MaxCommand,   \* bound: commands of the user
  Options,      \* how xl may be called: "create", "create -p", "create -e", "restore"
  Reasons,      \* why guests shut down: "poweroff", "reboot", "crash", "watchdog", or another
  OnPoweroff, OnReboot, OnCrash, OnWatchdog   \* d_config->on_poweroff, ...

Actions == {"destroy", "restart", "rename_restart", "preserve"}
ASSUME ConfigAssumption == {OnPoweroff, OnReboot, OnCrash, OnWatchdog} \subseteq Actions
ASSUME ProcsAssumption == User \notin Xl /\ {MaxDom, MaxMinute, MaxCommand} \subseteq Nat

VARIABLES
  dom,      \* the domains of Xen and their names in xenstore
  proc,     \* the processes
  lock,     \* who holds the lock file
  event,    \* of each process: watches @releaseDomain not, has no event, has one
  valid,    \* whose xenstore transaction will not fail with EAGAIN
  commands  \* number of commands the user gave

vars == <<dom, proc, lock, event, valid, commands>>

Ids == 1..MaxDom
Procs == Xl \cup {User}
None == "none"

ASSUME NoneAssumption == None \notin Procs

\* once_suspended and refused are history: the guest was once suspended, and Xen
\* has refused to destroy it.
NoDomain == [st |-> None, paused |-> FALSE, reason |-> None, name |-> <<>>, by |-> None,
             once_suspended |-> FALSE, refused |-> FALSE]
\* d: domid, 0 if it is -1; to, old: names of a renaming; next: where to go on
\* after a renaming or a destruction; exit: what the caller of xl learns.
NewProc == [pc |-> "start", d |-> 0, to |-> <<>>, old |-> <<>>, next |-> None,
            restore |-> FALSE, spent |-> FALSE, paused |-> FALSE, daemonize |-> FALSE,
            daemon |-> FALSE, seen |-> None, exit |-> None]
Idle == [NewProc EXCEPT !.pc = "idle"]

Init ==
  /\ dom = [d \in Ids |-> NoDomain]
  /\ proc = [p \in Procs |-> IF p = User THEN Idle ELSE NewProc]
  /\ lock = None
  /\ event = [p \in Procs |-> None]
  /\ valid = {}
  /\ commands = 0

-----------------------------------------------------------------------------
(* Xen and xenstore *)

Exists(d) == d # 0 /\ dom[d].st \notin {None, "gone"}
Dead(d) == dom[d].st \in {"shutdown", "dying"}
Up(d) == dom[d].st = "up"   \* built, running or paused
Suspended(d) == dom[d].st = "shutdown" /\ dom[d].reason = "suspend"
Gone(d) == [NoDomain EXCEPT !.st = "gone", !.by = dom[d].by]

\* @releaseDomain fires for whoever watches it.
Notify == event' = [p \in Procs |-> IF event[p] = None THEN None ELSE "pending"]

\* A write to xenstore makes all transactions in progress fail.
StoreWritten == valid' = {}

\* A domain shuts itself down, because it was asked to or not.
Shutdown(d, reason) ==
  /\ Up(d) /\ ~dom[d].paused
  /\ dom' = [dom EXCEPT ![d].st = "shutdown", ![d].reason = reason]
  /\ Notify
  /\ UNCHANGED <<proc, lock, valid>>

\* Xen is through with a dying domain.
Reap(d) ==
  /\ dom[d].st = "dying"
  /\ dom' = [dom EXCEPT ![d] = Gone(d)]
  /\ Notify
  /\ UNCHANGED <<proc, lock, valid>>

-----------------------------------------------------------------------------
(* Steps of a process *)

At(p, pc) == proc[p].pc = pc
Dom(p) == proc[p].d
\* A process that is through keeps what the properties look at.
Goto(p, pc) ==
  proc' = [proc EXCEPT ![p] =
    CASE pc = "idle" -> Idle
      [] pc = "exited" -> [NewProc EXCEPT !.pc = pc, !.d = proc[p].d, !.daemonize = proc[p].daemonize,
                                          !.exit = proc[p].exit]
      [] OTHER -> [@ EXCEPT !.pc = pc]]
\* goto error_out
Fail(p) == proc' = [proc EXCEPT ![p].pc = "error",
                                ![p].exit = IF proc[p].daemon THEN @ ELSE "fail"]

\* A domain that cannot be finished; if Xen refuses, a paused one without a name
\* stays.
Discard(p) ==
  /\ \/ dom' = [dom EXCEPT ![Dom(p)] = Gone(Dom(p))]
     \/ /\ Exists(Dom(p))
        /\ dom' = [dom EXCEPT ![Dom(p)].paused = TRUE, ![Dom(p)].name = <<>>,
                              ![Dom(p)].refused = TRUE]
  /\ Notify
  /\ proc' = [proc EXCEPT ![p].pc = "error", ![p].d = 0,
                          ![p].exit = IF proc[p].daemon THEN @ ELSE "fail"]

-----------------------------------------------------------------------------
(* Renaming.  A transaction is started, the new name looked for outside of it,
   the old one compared, and the new one written. *)

Taken(name, d) == \E e \in Ids \ {d} : Exists(e) /\ dom[e].name = name

StartRename(p, d, name, next) ==
  proc' = [proc EXCEPT ![p].pc = "rename", ![p].d = d, ![p].to = name,
                       ![p].old = dom[d].name, ![p].next = next]

CheckName(p) ==
  LET may == ~Taken(proc[p].to, Dom(p)) /\ dom[Dom(p)].name = proc[p].old IN
  /\ At(p, "rename")
  /\ valid' = IF may THEN valid \cup {p} ELSE valid
  /\ Goto(p, IF may THEN "commit" ELSE "not_renamed")
  /\ UNCHANGED <<dom, lock, event>>

\* Variant: the name is written without a transaction.
CommitsAlways(p) == TRUE
Commits(p) == p \in valid

Commit(p) ==
  /\ At(p, "commit")
  /\ \/ /\ Commits(p)
        /\ dom' = [dom EXCEPT ![Dom(p)].name = proc[p].to]
        /\ Goto(p, proc[p].next)
        /\ StoreWritten
     \/ /\ ~Commits(p)
        /\ Goto(p, "rename")
        /\ UNCHANGED <<dom, valid>>
  /\ UNCHANGED <<lock, event>>

\* The daemon then leaves the old domain in place; an unnamed new domain is
\* destroyed.
NotRenamed(p) ==
  /\ At(p, "not_renamed")
  /\ \/ p = User /\ Goto(p, "idle") /\ UNCHANGED <<dom, event>>
     \/ proc[p].next = "restart" /\ Goto(p, "exited") /\ UNCHANGED <<dom, event>>
     \/ proc[p].next = "build" /\ Discard(p)
  /\ UNCHANGED <<lock, valid>>

-----------------------------------------------------------------------------
(* Destroying *)

StartDestroy(p, d, next) ==
  proc' = [proc EXCEPT ![p].pc = "destroy", ![p].d = d, ![p].next = next]

\* The wait for the devices takes whatever event comes for one of a device: if
\* it is @releaseDomain, that watch is removed.
DevicesWait(p) ==
  \/ UNCHANGED event
  \/ event[p] = "pending" /\ event' = [event EXCEPT ![p] = None]

\* The domain is paused, its devices go, and its paths in xenstore.
DestroyDevices(p) ==
  /\ At(p, "destroy")
  /\ IF Exists(Dom(p))
     THEN /\ dom' = [dom EXCEPT ![Dom(p)].paused = TRUE, ![Dom(p)].name = <<>>]
          /\ StoreWritten
          /\ Goto(p, "destroy_domain")
          /\ DevicesWait(p)
     ELSE Goto(p, proc[p].next) /\ UNCHANGED <<dom, valid, event>>
  /\ UNCHANGED lock

\* xc_domain_destroy: pages of the domain that are still mapped keep it dying.
\* If Xen refuses the domain stays, and the caller goes on all the same: 0 is
\* returned whatever happened.
Destroyed(d) ==
  {Gone(d), [dom[d] EXCEPT !.st = "dying"], [dom[d] EXCEPT !.refused = TRUE]}

DestroyDomain(p) ==
  /\ At(p, "destroy_domain")
  /\ Goto(p, proc[p].next)
  /\ IF Exists(Dom(p))
     THEN /\ \E new \in Destroyed(Dom(p)) : dom' = [dom EXCEPT ![Dom(p)] = new]
          /\ Notify
     ELSE UNCHANGED <<dom, event>>
  /\ UNCHANGED <<lock, valid>>

-----------------------------------------------------------------------------
(* create_domain *)

\* It ends before it has done anything if the configuration, or the header of a
\* saved guest, is no good.
ReadConfig(p, option) ==
  \/ proc' = [proc EXCEPT ![p].pc = "lock", ![p].restore = option = "restore",
                          ![p].paused = option = "create -p", ![p].daemonize = option # "create -e"]
  \/ proc' = [proc EXCEPT ![p].pc = "exited", ![p].exit = "fail"]

Start(p) ==
  /\ At(p, "start")
  /\ \E option \in Options : ReadConfig(p, option)
  /\ UNCHANGED <<dom, lock, event, valid>>

AcquireLock(p) ==
  /\ At(p, "lock") /\ lock = None
  /\ lock' = p
  /\ proc' = [proc EXCEPT ![p].pc = "create", ![p].d = 0]
  /\ UNCHANGED <<dom, event, valid>>

\* ret is still 0: the caller is told that all is well.
LockFails(p) ==
  /\ At(p, "lock")
  /\ proc' = [proc EXCEPT ![p].pc = "error", ![p].d = 0,
                          ![p].exit = IF proc[p].daemon THEN @ ELSE "ok"]
  /\ UNCHANGED <<dom, lock, event, valid>>

\* There is not enough memory, or the domain cannot be made.
FreeMemFails(p) == Fail(p) /\ UNCHANGED <<dom, valid>>

\* A new domain is made, paused and not yet named.  libxl_domain_create_new and
\* libxl_domain_create_restore go on in CheckName and Build; a domain they
\* cannot finish they destroy.
Create(p) ==
  LET new == {d \in Ids : dom[d].st = None} IN
  /\ At(p, "create")
  /\ \/ FreeMemFails(p)
     \/ \E d \in new :
          /\ \A e \in new : d <= e
          /\ dom' = [dom EXCEPT ![d] = [NoDomain EXCEPT !.st = "new", !.paused = TRUE, !.by = p]]
          /\ StoreWritten
          /\ proc' = [proc EXCEPT ![p].pc = "rename", ![p].d = d, ![p].to = <<"g">>,
                                  ![p].old = <<>>, ![p].next = "build"]
  /\ UNCHANGED <<lock, event>>

\* A saved guest can be read from restore_fd once.
Build(p) ==
  /\ At(p, "build")
  /\ \/ /\ Exists(Dom(p)) /\ ~(proc[p].restore /\ proc[p].spent)
        /\ proc' = [proc EXCEPT ![p].pc = "userdata", ![p].spent = proc[p].restore]
        /\ dom' = IF dom[Dom(p)].st = "new" THEN [dom EXCEPT ![Dom(p)].st = "up"] ELSE dom
        /\ UNCHANGED event
     \/ Discard(p)
  /\ UNCHANGED <<lock, valid>>

StoreConfig(p) ==
  /\ At(p, "userdata")
  /\ \/ lock' = None /\ Goto(p, "unpause")
     \/ Fail(p) /\ UNCHANGED lock
  /\ UNCHANGED <<dom, event, valid>>

Unpause(d) == dom' = [dom EXCEPT ![d].paused = FALSE]

Booted(p) ==
  /\ At(p, "unpause")
  /\ IF proc[p].paused \/ ~Exists(Dom(p)) THEN UNCHANGED dom ELSE Unpause(Dom(p))
  /\ proc' = [proc EXCEPT ![p].pc = IF ~proc[p].daemonize THEN "exited"
                                   ELSE IF proc[p].daemon THEN "watch" ELSE "fork",
                          ![p].to = <<>>, ![p].old = <<>>, ![p].next = None,
                          ![p].exit = IF proc[p].daemonize THEN @ ELSE "ok"]
  /\ UNCHANGED <<lock, event, valid>>

\* The child goes on as the daemon, unless it reports a failure to its parent.
Fork(p) ==
  /\ At(p, "fork")
  /\ \/ proc' = [proc EXCEPT ![p].pc = "watch", ![p].daemon = TRUE, ![p].exit = "ok"]
     \/ Fail(p)
  /\ UNCHANGED <<dom, lock, event, valid>>

\* A watch fires once when it is set.  Variant: it does not.
WatchQuiet == "quiet"
WatchSet == "pending"

\* After a restart the old watch, if DevicesWait did not remove it, is still there
\* and the new one is refused.
WaitForDeath(p, pc) ==
  /\ event' = [event EXCEPT ![p] = IF @ = None THEN WatchSet ELSE @]
  /\ Goto(p, pc)

Watch(p) ==
  /\ At(p, "watch")
  /\ WaitForDeath(p, "select")
  /\ UNCHANGED <<dom, lock, valid>>

\* libxl_event_get_domain_death_info.  Variant: a live domain is an error.
DeathInfoStrict(d) == IF Dead(d) THEN "dead" ELSE "error"
DeathInfo(d) == IF ~Exists(d) THEN "error" ELSE IF Dead(d) THEN "dead" ELSE "alive"

\* The shutdown reason of a dying domain that never shut down reads as 0.
ShutdownReason(d) == IF dom[d].reason = None THEN "poweroff" ELSE dom[d].reason

GetEvent(p) ==
  /\ At(p, "select") /\ event[p] = "pending"
  /\ event' = [event EXCEPT ![p] = "quiet"]
  /\ CASE DeathInfo(Dom(p)) = "alive" -> UNCHANGED proc
       [] DeathInfo(Dom(p)) = "error" -> Goto(p, "exited")
       [] OTHER -> proc' = [proc EXCEPT ![p].pc = "dead", ![p].seen = ShutdownReason(Dom(p))]
  /\ UNCHANGED <<dom, lock, valid>>

\* What to do about a domain that shut down.  Variants: a suspended guest is
\* taken for one that crashed, or has no case of its own.
ActionSuspendCrash(reason) ==
  CASE reason = "poweroff" -> OnPoweroff [] reason = "reboot" -> OnReboot [] OTHER -> OnCrash
ActionNoSuspend(reason) ==
  CASE reason = "poweroff" -> OnPoweroff [] reason = "reboot" -> OnReboot
    [] reason = "crash" -> OnCrash [] reason = "watchdog" -> OnWatchdog [] OTHER -> "destroy"
Action(reason) ==
  CASE reason = "poweroff" -> OnPoweroff
    [] reason = "reboot" -> OnReboot
    [] reason = "crash" -> OnCrash
    [] reason = "watchdog" -> OnWatchdog
    [] reason = "suspend" -> "preserve"
    [] OTHER -> "destroy"

\* libxl_domain_preserve renames from the name in the configuration.
Preserve(p, suffix) ==
  proc' = [proc EXCEPT ![p].pc = "rename", ![p].to = <<"g", suffix>>,
                       ![p].old = <<"g">>, ![p].next = "restart"]

\* The new name is of the minute.
PreserveDomain(p) == \E minute \in 0..MaxMinute : Preserve(p, minute)

HandleDomainDeath(p) ==
  LET action == Action(proc[p].seen) IN
  /\ At(p, "dead")
  /\ CASE action = "preserve" -> Goto(p, "exited")
       [] action = "destroy" -> StartDestroy(p, Dom(p), "exited")
       [] action = "restart" -> StartDestroy(p, Dom(p), "restart")
       [] action = "rename_restart" -> PreserveDomain(p)
  /\ UNCHANGED <<dom, lock, event, valid>>

\* "Some settings only make sense on first boot."
Restart(p) ==
  /\ At(p, "restart")
  /\ proc' = [proc EXCEPT ![p].pc = "lock", ![p].paused = FALSE, ![p].seen = None,
                          ![p].to = <<>>, ![p].old = <<>>, ![p].next = None]
  /\ UNCHANGED <<dom, lock, event, valid>>

\* error_out.  Variant: the lock is kept.
ErrorLocked(p) ==
  /\ UNCHANGED lock
  /\ IF Dom(p) # 0 THEN StartDestroy(p, Dom(p), "exited") ELSE Goto(p, "exited")
ErrorOut(p) ==
  /\ lock' = IF lock = p THEN None ELSE lock
  /\ IF Dom(p) # 0 THEN StartDestroy(p, Dom(p), "exited") ELSE Goto(p, "exited")

Error(p) == At(p, "error") /\ ErrorOut(p) /\ UNCHANGED <<dom, event, valid>>

-----------------------------------------------------------------------------
(* The commands of the user; find_domain finds the domain. *)

Command(d) == At(User, "idle") /\ Exists(d)

PauseCommand(d) ==
  /\ Command(d) /\ dom[d].st # "new"
  /\ dom' = [dom EXCEPT ![d].paused = TRUE]
  /\ UNCHANGED <<proc, lock, event, valid>>

UnpauseCommand(d) ==
  /\ Command(d) /\ dom[d].st # "new"
  /\ Unpause(d)
  /\ UNCHANGED <<proc, lock, event, valid>>

\* libxl_domain_shutdown writes to xenstore what the guest may do in Shutdown.
AskGuest == StoreWritten

\* With -w the command waits for it.
ShutdownCommand(d) ==
  /\ Command(d) /\ dom[d].name # <<>>
  /\ AskGuest
  /\ \/ UNCHANGED <<proc, event>>
     \/ /\ event' = [event EXCEPT ![User] = WatchSet]
        /\ proc' = [proc EXCEPT ![User].pc = "wait", ![User].d = d]
  /\ UNCHANGED <<dom, lock>>

WaitEvent ==
  /\ At(User, "wait") /\ event[User] = "pending"
  /\ IF DeathInfo(Dom(User)) = "alive"
     THEN event' = [event EXCEPT ![User] = "quiet"] /\ UNCHANGED proc
     ELSE event' = [event EXCEPT ![User] = None] /\ Goto(User, "idle")
  /\ UNCHANGED <<dom, lock, valid>>

RenameCommand(d, name) ==
  /\ Command(d) /\ dom[d].name # <<>>
  /\ StartRename(User, d, name, "idle")
  /\ UNCHANGED <<dom, lock, event, valid>>

DestroyCommand(d) ==
  /\ Command(d)
  /\ StartDestroy(User, d, "idle")
  /\ UNCHANGED <<dom, lock, event, valid>>

\* libxl_domain_suspend, for xl save (and xl migrate): the guest suspends itself.
Suspend(d) ==
  /\ Command(d) /\ Up(d) /\ ~dom[d].paused
  /\ dom' = [dom EXCEPT ![d].st = "shutdown", ![d].reason = "suspend", ![d].once_suspended = TRUE]
  /\ Notify
  /\ proc' = [proc EXCEPT ![User].pc = "suspended", ![User].d = d]
  /\ UNCHANGED <<lock, valid>>

SaveCommand(d) == Suspend(d)

\* xl save, when the guest is written or when that fails: with -c it is unpaused
\* (and not resumed).
SaveEnds ==
  /\ At(User, "suspended")
  /\ \/ StartDestroy(User, Dom(User), "idle") /\ UNCHANGED dom
     \/ Goto(User, "idle") /\ Unpause(Dom(User))
     \/ Goto(User, "idle") /\ UNCHANGED dom
  /\ UNCHANGED <<lock, event, valid>>

\* The source of a migration that failed.
Resume ==
  /\ At(User, "suspended")
  /\ dom' = IF Suspended(Dom(User)) THEN [dom EXCEPT ![Dom(User)].st = "up", ![Dom(User)].reason = None]
                                    ELSE dom
  /\ Goto(User, "idle")
  /\ UNCHANGED <<lock, event, valid>>

-----------------------------------------------------------------------------
XlStep(p) ==
  \/ Start(p) \/ AcquireLock(p) \/ Create(p) \/ Build(p)
  \/ StoreConfig(p) \/ Booted(p) \/ Fork(p) \/ Watch(p) \/ GetEvent(p)
  \/ HandleDomainDeath(p) \/ Restart(p) \/ Error(p)

LibxlStep(p) ==
  CheckName(p) \/ Commit(p) \/ NotRenamed(p) \/ DestroyDevices(p) \/ DestroyDomain(p)

UserStarts ==
  /\ commands < MaxCommand /\ commands' = commands + 1
  /\ \E d \in Ids :
      \/ PauseCommand(d) \/ UnpauseCommand(d) \/ ShutdownCommand(d) \/ DestroyCommand(d)
      \/ SaveCommand(d)
      \/ \E name \in {<<"g">>, <<"h">>} : RenameCommand(d, name)

UserStep == WaitEvent \/ SaveEnds \/ Resume

Guests ==
  \E d \in Ids : Reap(d) \/ \E r \in Reasons : Shutdown(d, r)

\* All are through, or wait for a guest that may run for ever.
Over ==
  /\ \A p \in Procs : proc[p].pc \in {"exited", "idle"} \/ event[p] = "quiet"
  /\ UNCHANGED vars

XlRuns(p) == XlStep(p) /\ UNCHANGED commands
LibxlRuns(p) == LibxlStep(p) /\ UNCHANGED commands

Next ==
  \/ \E p \in Xl : XlRuns(p) \/ (LockFails(p) /\ UNCHANGED commands)
  \/ \E p \in Procs : LibxlRuns(p)
  \/ UserStarts
  \/ (UserStep \/ Guests) /\ UNCHANGED commands
  \/ Over

Spec == Init /\ [][Next]_vars

\* The xl processes run, the lock is handed on, a user's command is carried to
\* its end, and Xen reaps what is dying.  Guests and the user owe nothing.
FairSpec ==
  /\ Spec
  /\ \A p \in Xl : WF_vars(XlRuns(p) \/ LibxlRuns(p))
  /\ WF_vars(LibxlRuns(User))
-----------------------------------------------------------------------------
(* Properties *)

Locked == {"create", "build", "userdata", "rename", "commit", "not_renamed",
           "error"}

TypeOK ==
  /\ \A d \in Ids :
       /\ dom[d].st \in {None, "new", "up", "shutdown", "dying", "gone"}
       /\ dom[d].by \in Xl \cup {None} /\ (dom[d].by = None) = (dom[d].st = None)
  /\ \A p \in Procs : Dom(p) \in 0..MaxDom /\ event[p] \in {None, "quiet", "pending"}
  /\ valid \subseteq {p \in Procs : At(p, "commit")}
  /\ lock \in Xl \cup {None} /\ (lock # None => proc[lock].pc \in Locked)

\* Two instances of one configuration, with the same disks, never run side by
\* side: a new one is only made when the old has shut down for good
\* (xl_cmdimpl.c:1628-1672).
OneInstance ==
  \A d, e \in Ids : d # e /\ Up(d) /\ Up(e) => dom[d].by # dom[e].by

\* "nonempty names must be unique" (libxl.c:148), whoever renames at the same
\* time.
NamesUnique ==
  \A d, e \in Ids : d # e /\ Exists(d) /\ Exists(e) /\ dom[d].name = dom[e].name
    => dom[d].name = <<>>

\* A guest with a daemon is never left alone while it is up, unless it was once
\* suspended or Xen has refused to destroy it (xl_cmdimpl.c:1614-1695).
Watched ==
  \A d \in Ids :
    Up(d) /\ ~dom[d].once_suspended /\ ~dom[d].refused /\ proc[dom[d].by].daemonize
      => ~At(dom[d].by, "exited")

\* An xl create that fails leaves no domain behind that Xen has not refused to
\* destroy (xl_cmdimpl.c:1697-1700).
NothingLeft ==
  \A p \in Xl : At(p, "exited") /\ proc[p].exit = "fail" =>
    \A d \in Ids : dom[d].by = p => dom[d].st \in {"dying", "gone"} \/ dom[d].refused

\* No guest is left to himself as long as Xen destroys what it is asked to: every
\* guest that was never suspended has its daemon, of what failed each domain was
\* destroyed, and the lock is held by somebody who will release it.
NoOrphans == TypeOK /\ Watched /\ NothingLeft

\* A suspended guest belongs to the command that is saving it.  A daemon that woke
\* up because its domain died may find that it was suspended, or it may be
\* suspended while the daemon acts: no step of such a daemon pauses it, renames
\* it, takes its devices or destroys it (xl_cmdimpl.c:1180-1181).
SuspendedKept ==
  [][\A p \in Xl : \A d \in Ids :
       proc[p].seen # None /\ proc'[p] # proc[p] /\ Suspended(d) => dom'[d] = dom[d]]_vars

\* A restored guest is built anew when it restarts, not read once more from a
\* file that was read to its end ("Some settings only make sense on first boot",
\* xl_cmdimpl.c:1663).
RestoredOnce == \A p \in Xl : At(p, "build") => ~(proc[p].restore /\ proc[p].spent)

\* No definition tells the processes of Xl apart: what is bound to happen to one
\* of them is bound to happen to each.
AnyXl == CHOOSE p \in Xl : TRUE

\* A daemon does not miss the death of its domain, however early it dies
\* (xl_cmdimpl.c:1609-1637).
DeathNoticed ==
  LET p == AnyXl IN
  (proc[p].daemon /\ Dom(p) # 0 /\ Dead(Dom(p)))
    ~> (At(p, "exited") \/ Dom(p) = 0 \/ Up(Dom(p)))

\* Who waits for the lock, to create or to restart a domain, gets through, also
\* after others failed while they held it (xl_cmdimpl.c:1505-1541, 1697-1698).
LockObtained == At(AnyXl, "lock") ~> (At(AnyXl, "select") \/ At(AnyXl, "exited"))
=============================================================================

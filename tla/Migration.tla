------------------------------ MODULE Migration ------------------------------
(***************************************************************************)
(* Live migration of a guest, xl migrate at the source (migrate_domain) and *)
(* xl migrate-receive at the target (migrate_receive), two processes joined *)
(* by two pipes through the command rune.  Either process may be killed and *)
(* the connection may break, at any time.                                   *)
(*                                                                         *)
(* A call into libxl or Xen is a step of its own.  libxl_domain_resume and *)
(* libxl_domain_destroy report success whatever happens, which is modelled. *)
(***************************************************************************)
EXTENDS Naturals, Sequences

VARIABLES
  src, src_name,    \* the guest at the source, and its name
  dst, dst_name,    \* its copy at the target
  spc, rpc,         \* where the sender and the receiver are
  s_exit,           \* exit status of the sender
  rc,               \* rc of migrate_receive
  to_dst, to_src,   \* the pipes
  closed,           \* send_fd is closed
  link,             \* the connection between the hosts is up
  resumable,        \* the guest is not HVM, and xc_domain_resume works for it
  faults            \* a process was killed, or the connection broke

guest == <<src, src_name, dst, dst_name>>
pipes == <<to_dst, to_src, closed, link>>
vars == <<guest, spc, rpc, s_exit, rc, pipes, resumable, faults>>

Ended == {"exited", "killed"}

Init ==
  /\ src = "running" /\ src_name = "own"
  /\ dst = "none" /\ dst_name = "none"
  /\ spc = "banner" /\ rpc = "start"
  /\ s_exit = "none" /\ rc = 0
  /\ to_dst = <<>> /\ to_src = <<>> /\ closed = FALSE /\ link = TRUE
  /\ resumable \in BOOLEAN
  /\ faults = FALSE

-----------------------------------------------------------------------------
(* The pipes.  What is written after the connection broke or the other end is
   gone may still seem to be written. *)

SrcGone == spc \in Ended \/ ~link
DstGone == rpc \in Ended \/ ~link

\* libxl_write_exactly of the sender and of the receiver.
WriteDst(m) == to_dst' = IF DstGone THEN to_dst ELSE Append(to_dst, m)
WriteSrc(m) == to_src' = IF SrcGone THEN to_src ELSE Append(to_src, m)

\* libxl_read_exactly and the comparison of migrate_read_fixedmessage.
GotSrc(m) == to_src # <<>> /\ Head(to_src) = m /\ to_src' = Tail(to_src)
GotDst(m) == to_dst # <<>> /\ Head(to_dst) = m /\ to_dst' = Tail(to_dst)
\* Variant: the sender keeps its copy of the writing end.
FailedSrcHeldOpen(m) == to_src # <<>> /\ Head(to_src) # m /\ to_src' = Tail(to_src)
FailedSrc(m) ==
  \/ to_src # <<>> /\ Head(to_src) # m /\ to_src' = Tail(to_src)
  \/ to_src = <<>> /\ DstGone /\ UNCHANGED to_src
FailedDst(m) ==
  \/ to_dst # <<>> /\ Head(to_dst) # m /\ to_dst' = Tail(to_dst)
  \/ to_dst = <<>> /\ (SrcGone \/ closed) /\ UNCHANGED to_dst

-----------------------------------------------------------------------------
(* The sender *)

SExit(status) == spc' = "exited" /\ s_exit' = status

receiver == <<dst, dst_name, rpc, rc>>
others == <<link, resumable, faults>>

\* libxl_domain_resume
Resume == src' = IF src = "suspended" /\ resumable THEN "running" ELSE src

ReadBanner ==
  /\ spc = "banner"
  /\ \/ GotSrc("banner") /\ spc' = "config" /\ UNCHANGED <<s_exit, closed>>
     \/ FailedSrc("banner") /\ SExit("fail") /\ closed' = TRUE
  /\ UNCHANGED <<src, src_name, receiver, to_dst, others>>

\* save_domain_core_writeconfig
WriteConfig ==
  /\ spc = "config"
  /\ \/ WriteDst("config") /\ spc' = "suspend" /\ UNCHANGED s_exit
     \/ DstGone /\ SExit("fail") /\ UNCHANGED to_dst
  /\ UNCHANGED <<src, src_name, receiver, to_src, closed, others>>

\* Where a failure of libxl_domain_suspend leads.
\* Variant: to failed_suspend, whatever it is.
SuspendFailedAlways == SExit("fail")
SuspendFailed == spc' = "resume" /\ UNCHANGED s_exit

\* libxl_domain_suspend sends the guest while it runs, and then suspends it; it
\* does not fit into the pipe, so the target must be reading it.  If the guest
\* does not answer it keeps running; other failures are met before or after it
\* is suspended.
Suspend ==
  /\ spc = "suspend"
  /\ \/ rpc = "create" /\ link
        /\ src' = "suspended" /\ WriteDst("data") /\ spc' = "ready"
        /\ UNCHANGED <<s_exit, closed>>
     \/ SExit("fail") /\ closed' = TRUE /\ UNCHANGED <<src, to_dst>>
     \/ src' \in {src, "suspended"} /\ SuspendFailed /\ closed' = TRUE
        /\ UNCHANGED to_dst
  /\ UNCHANGED <<src_name, receiver, to_src, others>>

ReadReady ==
  /\ spc = "ready"
  /\ \/ GotSrc("ready") /\ spc' = "rename" /\ UNCHANGED closed
     \/ FailedSrc("ready") /\ spc' = "resume" /\ closed' = TRUE
  /\ UNCHANGED <<src, src_name, receiver, s_exit, to_dst, others>>

\* failed_resume: once the child had its two seconds to exit.
FailedResume ==
  /\ spc = "resume"
  /\ Resume
  /\ SExit("fail")
  /\ UNCHANGED <<src_name, receiver, to_dst, to_src, closed, others>>

RenameAway ==
  /\ spc = "rename"
  /\ \/ src_name' = "away" /\ spc' = "go" /\ UNCHANGED closed
     \/ spc' = "resume" /\ closed' = TRUE /\ UNCHANGED src_name
  /\ UNCHANGED <<src, receiver, s_exit, to_dst, to_src, others>>

\* failed_badly
FailedBadly == SExit("badfail") /\ closed' = TRUE

WriteGo ==
  /\ spc = "go"
  /\ \/ WriteDst("go") /\ spc' = "report" /\ UNCHANGED <<s_exit, closed>>
     \/ DstGone /\ FailedBadly /\ UNCHANGED to_dst
  /\ UNCHANGED <<src, src_name, receiver, to_src, others>>

\* Variant: the report is taken for lost, and the guest resumed.
ReportFailedResume == spc' = "resume" /\ closed' = TRUE /\ UNCHANGED s_exit
ReportFailed == FailedBadly

ReadReport ==
  /\ spc = "report"
  /\ \/ GotSrc("report") /\ spc' = "status" /\ UNCHANGED <<s_exit, closed>>
     \/ FailedSrc("report") /\ ReportFailed
  /\ UNCHANGED <<src, src_name, receiver, to_dst, others>>

ReadStatus ==
  /\ spc = "status"
  /\ \/ GotSrc("zero") /\ spc' = "destroy" /\ UNCHANGED <<s_exit, closed>>
     \/ GotSrc("nonzero") /\ spc' = "permission" /\ UNCHANGED <<s_exit, closed>>
     \/ to_src = <<>> /\ FailedSrc("zero") /\ ReportFailed
  /\ UNCHANGED <<src, src_name, receiver, to_dst, others>>

\* With the permission, the guest gets its name back, if nobody took it.
ReadPermission ==
  /\ spc = "permission"
  /\ \/ /\ GotSrc("permission")
        /\ src_name' \in {"away", "own"}
        /\ Resume
        /\ SExit("fail")
        /\ UNCHANGED closed
     \/ FailedSrc("permission") /\ FailedBadly /\ UNCHANGED <<src, src_name>>
  /\ UNCHANGED <<receiver, to_dst, others>>

\* The sender is through whether or not Xen destroyed the guest: libxl_domain_destroy
\* returns 0 also when it did not, and its result is not looked at.
DestroySource ==
  /\ spc = "destroy"
  /\ src' \in {"gone", src}
  /\ SExit("ok")
  /\ UNCHANGED <<src_name, receiver, to_dst, to_src, closed, others>>

-----------------------------------------------------------------------------
(* The receiver *)

sender == <<src, src_name, spc, s_exit, closed>>

\* A write of the receiver that leads to pc next, or makes it exit.
Write(m, next) ==
  \/ WriteSrc(m) /\ rpc' = next
  \/ SrcGone /\ rpc' = "exited" /\ UNCHANGED to_src

WriteBanner ==
  /\ rpc = "start"
  /\ Write("banner", "create")
  /\ UNCHANGED <<sender, dst, dst_name, rc, to_dst, others>>

\* create_domain reads the configuration and restores the guest, paused, as
\* "--incoming".  Whatever fails, it destroys what there is of it.
Create ==
  /\ rpc = "create"
  /\ \/ /\ Len(to_dst) >= 2
        /\ SubSeq(to_dst, 1, 2) = <<"config", "data">>
        /\ to_dst' = SubSeq(to_dst, 3, Len(to_dst))
        /\ dst' = "paused" /\ dst_name' = "incoming"
        /\ rpc' = "ready"
     \/ /\ Len(to_dst) < 2 /\ (SrcGone \/ closed)
        /\ rpc' = "exited"
        /\ UNCHANGED <<dst, dst_name, to_dst>>
     \/ /\ rpc' = "exited"
        /\ UNCHANGED <<dst, dst_name, to_dst>>
  /\ UNCHANGED <<sender, rc, to_src, others>>

\* When it cannot get the lock it returns 0 all the same, without a domain.
CreateUnlocked ==
  /\ rpc = "create"
  /\ to_dst = <<"config">> /\ to_dst' = <<>>
  /\ rpc' = "ready"
  /\ UNCHANGED <<sender, dst, dst_name, rc, to_src, others>>

WriteReady ==
  /\ rpc = "ready"
  /\ Write("ready", "go")
  /\ UNCHANGED <<sender, dst, dst_name, rc, to_dst, others>>

\* What the target does without a GO.
NoGo == "report"

\* Instead of GO it may read the guest, if Create left it in the pipe.
ReadGo ==
  /\ rpc = "go"
  /\ \/ GotDst("go") /\ rpc' = "rename" /\ UNCHANGED rc
     \/ FailedDst("go") /\ rpc' = NoGo /\ rc' = 1
     \/ dst = "none" /\ spc = "suspend" /\ rpc' = NoGo /\ rc' = 1 /\ UNCHANGED to_dst
  /\ UNCHANGED <<sender, dst, dst_name, to_src, others>>

\* libxl_domain_rename fails if there is no domain, or the name is taken.
RenameIncoming ==
  /\ rpc = "rename"
  /\ \/ dst # "none" /\ dst_name' = "own" /\ rpc' = "unpause" /\ UNCHANGED rc
     \/ rc' = 1 /\ rpc' = "report" /\ UNCHANGED dst_name
  /\ UNCHANGED <<sender, dst, to_dst, to_src, others>>

Unpause ==
  /\ rpc = "unpause"
  /\ rpc' = "report"
  /\ \/ dst' = "running" /\ UNCHANGED rc
     \/ rc' = 1 /\ UNCHANGED dst
  /\ UNCHANGED <<sender, dst_name, to_dst, to_src, others>>

WriteReport ==
  /\ rpc = "report"
  /\ Write("report", "status")
  /\ UNCHANGED <<sender, dst, dst_name, rc, to_dst, others>>

\* Variant: the status byte is rc2, which is 0 here.
StatusZero == "zero"
Status == IF rc = 0 THEN "zero" ELSE "nonzero"

\* What follows on a failure.  Variant: the target just exits.
NoCleanup == "exited"
Cleanup == "destroy"

WriteStatus ==
  /\ rpc = "status"
  /\ Write(Status, IF rc = 0 THEN "exited" ELSE Cleanup)
  /\ UNCHANGED <<sender, dst, dst_name, rc, to_dst, others>>

\* libxl_domain_destroy fails if there is no such domain; if Xen does not
\* destroy it, it does not.
DestroyCopy ==
  /\ rpc = "destroy"
  /\ \/ dst = "none" /\ rpc' = "exited" /\ UNCHANGED dst
     \/ dst # "none" /\ dst' \in {"gone", dst} /\ rpc' = "permission"
  /\ UNCHANGED <<sender, dst_name, rc, to_dst, to_src, others>>

WritePermission ==
  /\ rpc = "permission"
  /\ Write("permission", "exited")
  /\ UNCHANGED <<sender, dst, dst_name, rc, to_dst, others>>

-----------------------------------------------------------------------------
(* What may go wrong around them *)

Prefixes(s) == {SubSeq(s, 1, n) : n \in 0..Len(s)}

KillSender ==
  /\ spc \notin Ended
  /\ spc' = "killed" /\ faults' = TRUE
  /\ UNCHANGED <<guest, rpc, s_exit, rc, pipes, resumable>>

KillReceiver ==
  /\ rpc \notin Ended
  /\ rpc' = "killed" /\ faults' = TRUE
  /\ UNCHANGED <<guest, spc, s_exit, rc, pipes, resumable>>

Break ==
  /\ link
  /\ link' = FALSE /\ faults' = TRUE
  /\ to_dst' \in Prefixes(to_dst) /\ to_src' \in Prefixes(to_src)
  /\ UNCHANGED <<guest, spc, rpc, s_exit, rc, closed, resumable>>

\* Both ends are through.
Over ==
  /\ spc \in Ended /\ rpc \in Ended
  /\ UNCHANGED vars

Sender ==
  \/ ReadBanner \/ WriteConfig \/ Suspend \/ ReadReady \/ FailedResume \/ RenameAway
  \/ WriteGo \/ ReadReport \/ ReadStatus \/ ReadPermission \/ DestroySource
Receiver ==
  \/ WriteBanner \/ Create \/ CreateUnlocked \/ WriteReady \/ ReadGo \/ RenameIncoming
  \/ Unpause \/ WriteReport \/ WriteStatus \/ DestroyCopy \/ WritePermission

Next == Sender \/ Receiver \/ KillSender \/ KillReceiver \/ Break \/ Over

Spec == Init /\ [][Next]_vars

\* Both processes run until they block on a pipe or exit.
FairSpec == Spec /\ WF_vars(Sender) /\ WF_vars(Receiver)
-----------------------------------------------------------------------------
TypeOK ==
  /\ src \in {"running", "suspended", "gone"} /\ src_name \in {"own", "away"}
  /\ dst \in {"none", "paused", "running", "gone"}
  /\ dst_name \in {"none", "incoming", "own"} /\ (dst = "none") = (dst_name = "none")
  /\ s_exit \in {"none", "ok", "fail", "badfail"} /\ (s_exit # "none") = (spc = "exited")
  /\ rc \in {0, 1}
  /\ Len(to_dst) <= 2 /\ Len(to_src) <= 3
  /\ \A k \in DOMAIN to_dst : to_dst[k] \in {"config", "data", "go"}
  /\ \A k \in DOMAIN to_src : to_src[k] \in {"banner", "ready", "report", "permission", "zero", "nonzero"}
  /\ closed \in BOOLEAN /\ link \in BOOLEAN /\ faults \in BOOLEAN

\* "Two simultaneous instances of the domain would probably result in SEVERE
\* DATA LOSS" (xl_cmdimpl.c:2718): whatever is killed, lost or fails, the guest
\* never runs at both ends.
NoTwoRunning == ~(src = "running" /\ dst = "running")

Copies == INSTANCE Handover WITH source <- src, target <- dst

\* Whoever dies and whatever is lost, the copies are only handed over: the target's
\* is started only while the source's is suspended, and is never stopped again; the
\* source's is resumed only if the target's was not started, and destroyed, if at
\* all, only if it was (xl_cmdimpl.c:2672-2698).
ImplementsHandover == Copies!Spec

\* Before the target may start the guest, the source has renamed its own away
\* (xl_cmdimpl.c:2635-2637), and does not rename it back while the target's runs.
RenamedWhenStarted == dst = "running" => src_name = "away"

\* Of the two copies and their names, whatever happens.
OneGuest == TypeOK /\ NoTwoRunning /\ RenamedWhenStarted

\* The exit status of xl migrate tells where the guest runs, unless it is
\* ERROR_BADFAIL (xl_cmdimpl.c:2692-2724).  It does not tell whether the source is
\* rid of its copy: a suspended one may be left behind (libxl.c:753-762).
SenderHonest ==
  /\ s_exit = "ok" => src # "running" /\ dst = "running"
  /\ s_exit = "fail" /\ resumable => src = "running" /\ dst # "running"

\* If nothing is killed and the connection stays up, the guest survives
\* whatever fails at either end (xl_cmdimpl.c:2551-2832).
GuestSurvives ==
  spc \in Ended /\ rpc \in Ended /\ ~faults /\ resumable
    => "running" \in {src, dst}

\* Neither waits for ever for the other.
BothEnd == <>(spc \in Ended /\ rpc \in Ended)
=============================================================================

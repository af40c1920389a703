--------------------------- MODULE MigrationProofs ---------------------------
(* The theorems about a migration: why, with two processes that die and a
   connection that breaks, no guest is ever started twice. *)
EXTENDS Migration, SequenceTheorems, TLAPS

\* What the receiver writes in a whole run, and the part of it from after its first lo
\* messages up to the hi-th.
Script(status) == <<"banner", "ready", "report", status, "permission">>
Part(status, lo, hi) == [n \in 1..(hi - lo) |-> Script(status)[lo + n]]

Said(status) == {Script(status)[n] : n \in 1..5}

\* The sender has read the first lo of them.
HasRead(lo) ==
  \/ lo = 0 /\ spc = "banner"
  \/ lo = 1 /\ spc \in {"config", "suspend", "ready"}
  \/ lo = 2 /\ spc \in {"rename", "go", "report"}
  \/ lo = 3 /\ spc = "status"
  \/ lo = 4 /\ spc \in {"permission", "destroy"}
  \/ lo = 1 /\ spc = "resume"
     /\ (rpc \in Ended \/ ~link \/ (dst = "none" /\ to_dst # <<"config", "data">>))
  \/ lo = 2 /\ spc = "resume"
  \/ spc \in Ended

\* What the receiver has done once it wrote the first hi.
Facts(hi) ==
  /\ hi >= 1 => rpc # "start"
  /\ hi >= 2 => rpc \notin {"start", "create", "ready"} /\ (spc = "ready" => dst # "none")
  /\ hi >= 3 => rpc \in {"status", "destroy", "permission"} \cup Ended
  /\ hi >= 4 => rpc \notin {"status"} /\ (rc = 0 => dst = "running" /\ rpc \in Ended)
  /\ hi >= 5 => rpc \in Ended /\ rc = 1

\* The receiver has written exactly hi, if nothing went wrong around it.
HasWritten(hi) ==
  \/ hi = 0 /\ rpc = "start"
  \/ hi = 1 /\ rpc \in {"create", "ready", "exited"}
  \/ hi = 2 /\ rpc \in {"go", "rename", "unpause", "report"}
  \/ hi = 3 /\ rpc = "status"
  \/ hi = 4 /\ rc = 1 /\ rpc \in {"destroy", "permission"}
  \/ hi = 4 /\ rpc = "exited" /\ (rc = 0 \/ dst = "none")
  \/ hi = 5 /\ rpc = "exited"

\* The pipe to the sender holds what the receiver wrote and the sender did not read,
\* but for what a break of the connection cut off its end.
Window(lo, hi) ==
  /\ lo <= hi /\ hi <= lo + 3 /\ HasRead(lo) /\ Facts(hi) /\ to_src = Part(Status, lo, hi)
  /\ link /\ rpc # "killed" /\ spc \notin Ended => HasWritten(hi)
  /\ link /\ spc \in {"ready", "rename", "go"} => hi <= 2
ToSrcInv == \E lo \in 0..5, hi \in 0..5 : Window(lo, hi)

\* The pipe to the receiver.
ToDstInv ==
  /\ to_dst \in {<<>>, <<"config">>, <<"config", "data">>, <<"go">>}
  /\ rpc \in {"start", "create"} => to_dst # <<"go">>
  /\ rpc \in {"ready", "go"} => to_dst \in {<<>>, <<"go">>}
  /\ rpc \in {"rename", "unpause", "report", "status", "destroy", "permission"} => to_dst = <<>>
  /\ spc \in {"banner", "config"} => to_dst = <<>> /\ rpc \in {"start", "create"} \cup Ended
  /\ spc = "suspend" => to_dst # <<"config", "data">>
  /\ spc = "suspend" /\ link /\ rpc = "create" => to_dst = <<"config">>
  /\ spc \in {"ready", "rename", "go"} /\ link => rpc \in {"create", "ready", "go"} \cup Ended
  /\ spc = "ready" /\ link /\ rpc = "create" => to_dst = <<"config", "data">>
  /\ spc = "ready" /\ link /\ rpc = "ready" => dst # "none"
  /\ rc = 1 => to_dst # <<"go">>
  /\ closed => spc \in {"resume"} \cup Ended

\* The target has been or may be told to start the guest.
Going == to_dst = <<"go">> \/ rpc \in {"rename", "unpause"} \/ dst = "running"

\* From then on the source does not run: it has let go of guest and name, and only
\* an answer of the target decides what becomes of it.
GoInv ==
  Going => /\ src # "running" /\ src_name = "away" /\ s_exit # "fail"
           /\ spc \in {"report", "status", "permission", "destroy"} \cup Ended

SenderInv ==
  /\ spc \in {"banner", "config", "suspend"} => src = "running" /\ dst = "none"
  /\ spc \in {"ready", "rename", "go", "report", "status", "permission", "destroy"} => src = "suspended"
  /\ spc \in {"go", "report", "status", "permission", "destroy"} => src_name = "away"
  /\ spc \in {"rename", "go", "report", "status", "permission", "destroy"} => dst # "none"
  /\ spc = "resume" => src # "gone"
  /\ spc = "permission" => rc = 1 /\ rpc \notin {"report", "status"}
  /\ spc = "destroy" => dst = "running"
  /\ src = "gone" => dst = "running"
  /\ s_exit = "ok" => src # "running" /\ dst = "running"
  /\ s_exit = "fail" /\ resumable => src = "running"

ReceiverInv ==
  /\ rpc \in {"start", "create"} => dst = "none" /\ rc = 0
  /\ rpc \in {"ready", "go", "rename"} => dst \in {"none", "paused"} /\ rc = 0
  /\ rpc = "unpause" => dst = "paused" /\ rc = 0
  /\ rpc \in {"report", "status"} => (IF rc = 0 THEN dst = "running" ELSE dst \in {"none", "paused"})
  /\ rpc = "destroy" => rc = 1 /\ dst \in {"none", "paused"}
  /\ rpc = "permission" => rc = 1 /\ dst \in {"paused", "gone"}
  /\ dst = "running" => rc = 0 /\ rpc \in {"report", "status"} \cup Ended

FaultInv == ~faults => link /\ spc # "killed" /\ rpc # "killed" /\ s_exit # "badfail"

PcsInv ==
  /\ spc \in {"banner", "config", "suspend", "ready", "rename", "go", "report", "status",
              "permission", "destroy", "resume"} \cup Ended
  /\ rpc \in {"start", "create", "ready", "go", "rename", "unpause", "report", "status",
              "destroy", "permission"} \cup Ended
  /\ src \in {"running", "suspended", "gone"} /\ src_name \in {"own", "away"}
  /\ dst \in {"none", "paused", "running", "gone"}
  /\ dst_name \in {"none", "incoming", "own"} /\ (dst = "none" <=> dst_name = "none")
  /\ s_exit \in {"none", "ok", "fail", "badfail"} /\ (s_exit # "none" <=> spc = "exited")
  /\ rc \in {0, 1}

FlagsInv == closed \in BOOLEAN /\ link \in BOOLEAN /\ faults \in BOOLEAN

EndsInv == PcsInv /\ FlagsInv /\ ToDstInv /\ GoInv /\ SenderInv /\ ReceiverInv /\ FaultInv

IInv == EndsInv /\ ToSrcInv

-----------------------------------------------------------------------------
(* Pipes *)

LEMMA PartIs ==
  ASSUME NEW status, NEW lo \in 0..5, NEW hi \in 0..5, lo <= hi
  PROVE  /\ Part(status, lo, hi) \in Seq(Said(status))
         /\ Len(Part(status, lo, hi)) = hi - lo
         /\ \A n \in 1..(hi - lo) : Part(status, lo, hi)[n] = Script(status)[lo + n]
<1>1. Part(status, lo, hi) \in [1..(hi - lo) -> Said(status)]
  BY DEF Part, Said
<1>2. \A n \in 1..(hi - lo) : Part(status, lo, hi)[n] = Script(status)[lo + n]
  BY DEF Part
<1> QED  BY <1>1, <1>2

LEMMA PartEmpty ==
  ASSUME NEW status, NEW lo \in 0..5, NEW hi \in 0..5, lo <= hi
  PROVE  lo = hi <=> Part(status, lo, hi) = <<>>
<1>1. Part(status, lo, hi) \in Seq(Said(status)) /\ Len(Part(status, lo, hi)) = hi - lo
  BY PartIs
<1> QED  BY <1>1

\* Reading takes the first message of a part of the script, ...
LEMMA PartRead ==
  ASSUME NEW status, NEW lo \in 0..5, NEW hi \in 0..5, lo < hi
  PROVE  /\ Head(Part(status, lo, hi)) = Script(status)[lo + 1]
         /\ Tail(Part(status, lo, hi)) = Part(status, lo + 1, hi)
<1> DEFINE S == Said(status)
           p == Part(status, lo, hi)
           q == Part(status, lo + 1, hi)
<1>1. /\ p \in Seq(S) /\ Len(p) = hi - lo
      /\ \A n \in 1..(hi - lo) : p[n] = Script(status)[lo + n]
  <2>1. lo <= hi /\ hi \in 0..5
    OBVIOUS
  <2>2. p \in Seq(S) /\ Len(p) = hi - lo
    BY <2>1, PartIs
  <2>3. \A n \in 1..(hi - lo) : p[n] = Script(status)[lo + n]
    BY <2>1, PartIs
  <2> QED  BY <2>2, <2>3
<1>2. lo + 1 \in 0..5 /\ lo + 1 <= hi /\ hi - (lo + 1) = hi - lo - 1
  OBVIOUS
<1>3. /\ q \in Seq(S) /\ Len(q) = hi - lo - 1
      /\ \A n \in 1..(hi - lo - 1) : q[n] = Script(status)[lo + 1 + n]
  <2>1. q \in Seq(S) /\ Len(q) = hi - (lo + 1)
    BY <1>2, PartIs
  <2>2. \A n \in 1..(hi - (lo + 1)) : q[n] = Script(status)[lo + 1 + n]
    BY <1>2, PartIs
  <2> QED  BY <1>2, <2>1, <2>2
<1> HIDE DEF p, q, S
<1>4. p # <<>> /\ Head(p) = p[1]
  BY <1>1
<1>5. /\ Tail(p) \in Seq(S) /\ Len(Tail(p)) = hi - lo - 1
      /\ \A n \in 1..(hi - lo - 1) : Tail(p)[n] = p[n + 1]
  BY <1>1, <1>4, HeadTailProperties
<1>6. \A n \in 1..(hi - lo - 1) : n + 1 \in 1..(hi - lo) /\ lo + (n + 1) = lo + 1 + n
  OBVIOUS
<1>7. \A n \in 1..(hi - lo - 1) : p[n + 1] = Script(status)[lo + 1 + n]
  BY <1>1, <1>6
<1>8. Tail(p) = q
  BY <1>3, <1>5, <1>7, SeqEqual
<1>9. p[1] = Script(status)[lo + 1]
  BY <1>1
<1> QED  BY <1>4, <1>8, <1>9 DEF p, q

\* ... writing adds the next.
LEMMA PartWrite ==
  ASSUME NEW status, NEW lo \in 0..5, NEW hi \in 0..4, lo <= hi
  PROVE  Append(Part(status, lo, hi), Script(status)[hi + 1]) = Part(status, lo, hi + 1)
<1> DEFINE S == Said(status)
           p == Part(status, lo, hi)
<1>1. /\ p \in Seq(S) /\ Len(p) = hi - lo
      /\ \A n \in 1..(hi - lo) : p[n] = Script(status)[lo + n]
  <2>1. lo <= hi /\ hi \in 0..5
    OBVIOUS
  <2>2. p \in Seq(S) /\ Len(p) = hi - lo
    BY <2>1, PartIs
  <2>3. \A n \in 1..(hi - lo) : p[n] = Script(status)[lo + n]
    BY <2>1, PartIs
  <2> QED  BY <2>2, <2>3
<1>2. Script(status)[hi + 1] \in S
  BY DEF Said
<1>3. PICK m : m = Script(status)[hi + 1]
  OBVIOUS
<1> HIDE DEF p, S
<1>4. Append(p, m) = [n \in 1..(hi - lo + 1) |-> IF n = hi - lo + 1 THEN m ELSE p[n]]
  BY <1>1, <1>2, <1>3
<1>5. \A n \in 1..(hi + 1 - lo) : (IF n = hi - lo + 1 THEN m ELSE p[n]) = Script(status)[lo + n]
  <2>1. \A n \in 1..(hi + 1 - lo) : n # hi - lo + 1 => n \in 1..(hi - lo)
    OBVIOUS
  <2>2. lo + (hi - lo + 1) = hi + 1
    OBVIOUS
  <2> QED  BY <1>1, <1>3, <2>1, <2>2
<1>6. hi - lo + 1 = hi + 1 - lo
  OBVIOUS
<1>7. Append(p, m) = Part(status, lo, hi + 1)
  BY <1>4, <1>5, <1>6 DEF Part
<1> QED  BY <1>3, <1>7 DEF p

\* What is left when the connection breaks.
LEMMA PartPrefix ==
  ASSUME NEW status, NEW lo \in 0..5, NEW hi \in 0..5, lo <= hi,
         NEW s \in Prefixes(Part(status, lo, hi))
  PROVE  \E h \in lo..hi : s = Part(status, lo, h)
<1> DEFINE S == Said(status)
           p == Part(status, lo, hi)
<1>1. p \in Seq(S) /\ Len(p) = hi - lo
  BY PartIs
<1>2. \A n \in 1..(hi - lo) : p[n] = Script(status)[lo + n]
  BY PartIs
<1>3. PICK k \in 0..(hi - lo) : s = SubSeq(p, 1, k)
  BY <1>1 DEF Prefixes
<1>4. s = [n \in 1..k |-> p[n]]
  <2> HIDE DEF p, S
  <2> QED  BY <1>1, <1>3
<1>5. lo + k \in lo..hi /\ (lo + k) - lo = k
  BY <1>3
<1>6. s = Part(status, lo, lo + k)
  <2> HIDE DEF p
  <2> QED  BY <1>2, <1>3, <1>4, <1>5 DEF Part
<1> QED  BY <1>5, <1>6

\* The words of the script.
LEMMA Words ==
  ASSUME NEW status
  PROVE  /\ Script(status)[0 + 1] = "banner" /\ Script(status)[1 + 1] = "ready"
         /\ Script(status)[2 + 1] = "report" /\ Script(status)[3 + 1] = status
         /\ Script(status)[4 + 1] = "permission"
BY DEF Script

\* Before the status is written, the pipe does not depend on it.
LEMMA StatusOpen ==
  ASSUME NEW s, NEW t, NEW lo \in 0..5, NEW hi \in 0..3, lo <= hi
  PROVE  Part(s, lo, hi) = Part(t, lo, hi)
<1>1. \A n \in 1..(hi - lo) : Script(s)[lo + n] = Script(t)[lo + n]
  <2> TAKE n \in 1..(hi - lo)
  <2>1. lo + n \in 1..3
    OBVIOUS
  <2>2. \A m \in 1..3 : Script(s)[m] = Script(t)[m]
    BY DEF Script
  <2> QED  BY <2>1, <2>2
<1> QED  BY <1>1 DEF Part

\* The messages to the receiver.
LEMMA DstWords ==
  /\ Append(<<>>, "config") = <<"config">> /\ Append(<<"config">>, "data") = <<"config", "data">>
  /\ Append(<<>>, "go") = <<"go">> /\ Head(<<"go">>) = "go" /\ Tail(<<"go">>) = <<>>
  /\ SubSeq(<<"config", "data">>, 3, 2) = <<>>
  /\ Len(<<>>) = 0 /\ Len(<<"config">>) = 1 /\ Len(<<"config", "data">>) = 2 /\ Len(<<"go">>) = 1
  /\ <<>> # <<"go">> /\ <<"config">> # <<"go">> /\ <<"config", "data">> # <<"go">>
  /\ <<>> # <<"config">> /\ <<>> # <<"config", "data">> /\ <<"config">> # <<"config", "data">>
<1>1. /\ Append(<<>>, "config") = <<"config">> /\ Append(<<"config">>, "data") = <<"config", "data">>
      /\ Append(<<>>, "go") = <<"go">>
  <2>1. Append(<<"config">>, "data") = <<"config", "data">>
    <3>1. PICK c : c = <<"config">>
      OBVIOUS
    <3>2. c \in Seq({"config", "data"}) /\ Len(c) = 1 /\ c[1] = "config"
      BY <3>1
    <3>3. PICK a : a = Append(c, "data")
      OBVIOUS
    <3>4. a \in Seq({"config", "data"}) /\ Len(a) = 2 /\ a[1] = "config" /\ a[2] = "data"
      <4>1. a \in Seq({"config", "data"}) /\ Len(a) = Len(c) + 1 /\ a[Len(c) + 1] = "data"
            /\ \A i \in 1..Len(c) : a[i] = c[i]
        <5>1. PICK S : S = {"config", "data"}
          OBVIOUS
        <5>2. c \in Seq(S) /\ "data" \in S
          BY <3>2, <5>1
        <5>3. Append(c, "data") \in Seq(S) /\ Len(Append(c, "data")) = Len(c) + 1
          BY <5>2, AppendProperties
        <5>4. Append(c, "data")[Len(c) + 1] = "data" /\ \A i \in 1..Len(c) : Append(c, "data")[i] = c[i]
          BY <5>2, AppendProperties
        <5> QED  BY <3>3, <5>1, <5>3, <5>4
      <4> QED  BY <3>2, <4>1
    <3>5. PICK d : d = <<"config", "data">>
      OBVIOUS
    <3>6. d \in Seq({"config", "data"}) /\ Len(d) = 2 /\ d[1] = "config" /\ d[2] = "data"
      BY <3>5
    <3>7. \A i \in 1..Len(a) : a[i] = d[i]
      <4>1. \A i \in 1..2 : i = 1 \/ i = 2
        OBVIOUS
      <4> QED  BY <3>4, <3>6, <4>1
    <3>8. a = d
      BY <3>4, <3>6, <3>7, SeqEqual
    <3> QED  BY <3>1, <3>3, <3>5, <3>8
  <2>2. \A e : Append(<<>>, e) = <<e>>
    OBVIOUS
  <2> QED  BY <2>1, <2>2
<1>2. Head(<<"go">>) = "go" /\ Tail(<<"go">>) = <<>>
  OBVIOUS
<1>3. SubSeq(<<"config", "data">>, 3, 2) = <<>>
  OBVIOUS
<1>4. Len(<<>>) = 0 /\ Len(<<"config">>) = 1 /\ Len(<<"config", "data">>) = 2 /\ Len(<<"go">>) = 1
  OBVIOUS
<1>5. <<"config">> # <<"go">>
  <2>1. <<"config">>[1] # <<"go">>[1]
    OBVIOUS
  <2> QED  BY <2>1
<1> QED  BY <1>1, <1>2, <1>3, <1>4, <1>5

-----------------------------------------------------------------------------
(* The sender *)

\* What migrate_read_fixedmessage of the sender finds.
LEMMA Reading ==
  ASSUME NEW lo \in 0..5, NEW hi \in 0..5, Window(lo, hi), NEW m
  PROVE  /\ GotSrc(m) => /\ lo < hi /\ m = Script(Status)[lo + 1]
                         /\ to_src' = Part(Status, lo + 1, hi)
         /\ FailedSrc(m) => \/ lo < hi /\ m # Script(Status)[lo + 1]
                            \/ lo = hi /\ DstGone /\ to_src' = to_src
<1>1. lo <= hi /\ to_src = Part(Status, lo, hi)
  BY DEF Window
<1>2. PICK status : status = Status
  OBVIOUS
<1>3. lo = hi <=> Part(status, lo, hi) = <<>>
  BY <1>1, PartEmpty
<1>4. ASSUME lo < hi
      PROVE  /\ Head(Part(status, lo, hi)) = Script(status)[lo + 1]
             /\ Tail(Part(status, lo, hi)) = Part(status, lo + 1, hi)
  BY <1>4, PartRead
<1> QED  BY <1>1, <1>2, <1>3, <1>4 DEF GotSrc, FailedSrc

\* A step of the sender that reads, or not, and writes nothing to the receiver.
LEMMA SenderMoves ==
  ASSUME NEW lo \in 0..5, NEW hi \in 0..5, Window(lo, hi), NEW next \in 0..5, lo <= next, next <= hi,
         to_src' = Part(Status, next, hi), HasRead(next)', UNCHANGED <<rpc, dst, rc, link>>,
         spc \notin Ended,
         spc' \in {"ready", "rename", "go"} /\ link => hi <= 2, spc' = "ready" => hi <= 1
  PROVE  ToSrcInv'
<1>1. Status' = Status
  BY DEF Status
<1>2. Facts(hi)'
  BY DEF Window, Facts
<1>3. HasWritten(hi)' <=> HasWritten(hi)
  BY DEF HasWritten
<1>4. link' /\ rpc' # "killed" /\ spc' \notin Ended => HasWritten(hi)'
  BY <1>3 DEF Window
<1>5. next <= hi /\ hi <= next + 3
  BY DEF Window
<1>6. Window(next, hi)'
  BY <1>1, <1>2, <1>4, <1>5 DEF Window
<1> QED  BY <1>6 DEF ToSrcInv

LEMMA WriteConfigStep == ASSUME IInv, WriteConfig PROVE IInv'
<1>1. PcsInv'
  BY DEF IInv, EndsInv, WriteConfig, SExit, receiver, others, PcsInv, Ended, WriteDst, DstGone
<1>2. FlagsInv'
  BY DEF IInv, EndsInv, WriteConfig, SExit, receiver, others, FlagsInv
<1>3. ToDstInv'
  BY DstWords DEF IInv, EndsInv, WriteConfig, SExit, receiver, others, ToDstInv, Ended, WriteDst, DstGone
<1>4. GoInv'
  BY DstWords DEF IInv, EndsInv, WriteConfig, SExit, receiver, others, GoInv, Going, Ended, WriteDst, DstGone
<1>5. SenderInv'
  BY DEF IInv, EndsInv, WriteConfig, SExit, receiver, others, SenderInv, Ended, WriteDst, DstGone
<1>6. ReceiverInv' /\ FaultInv'
  BY DEF IInv, EndsInv, WriteConfig, SExit, receiver, others, ReceiverInv, FaultInv, Ended
<1>7. ToSrcInv'
  <2>1. PICK lo \in 0..5, hi \in 0..5 : Window(lo, hi)
    BY DEF IInv, ToSrcInv
  <2>2. lo <= hi /\ to_src = Part(Status, lo, hi) /\ HasRead(lo)
    BY <2>1 DEF Window
  <2>3. HasRead(lo)'
    BY <2>2 DEF WriteConfig, SExit, receiver, others, HasRead, Ended, IInv, EndsInv, ToDstInv, SenderInv
  <2>4. (spc' \in {"ready", "rename", "go"} /\ link => hi <= 2) /\ (spc' = "ready" => hi <= 1)
    BY <2>1 DEF WriteConfig, SExit, receiver, others, Window, HasWritten, Ended, IInv, EndsInv, ToDstInv
  <2>5. to_src' = Part(Status, lo, hi) /\ UNCHANGED <<rpc, dst, rc, link>> /\ spc \notin Ended
    BY <2>2 DEF WriteConfig, SExit, receiver, others, Ended
  <2> QED  BY <2>1, <2>2, <2>3, <2>4, <2>5, SenderMoves
<1> QED  BY <1>1, <1>2, <1>3, <1>4, <1>5, <1>6, <1>7 DEF IInv, EndsInv

LEMMA SuspendStep == ASSUME IInv, Suspend PROVE IInv'
<1>1. PcsInv'
  BY DEF IInv, EndsInv, Suspend, SExit, receiver, others, SuspendFailed, PcsInv, Ended
<1>2. FlagsInv'
  BY DEF IInv, EndsInv, Suspend, SExit, receiver, others, SuspendFailed, FlagsInv
<1>3. ToDstInv'
  <2>1. CASE spc' = "ready"
    <3>1. rpc = "create" /\ rpc' = "create" /\ link /\ to_dst = <<"config">> /\ rc' = 0 /\ ~closed'
      BY <2>1 DEF IInv, EndsInv, Suspend, SExit, receiver, others, SuspendFailed, ToDstInv, ReceiverInv, Ended
    <3>2. to_dst' = <<"config", "data">>
      BY <2>1, <3>1, DstWords DEF Suspend, SExit, receiver, others, SuspendFailed, WriteDst, DstGone, Ended
    <3> QED  BY <2>1, <3>1, <3>2, DstWords DEF ToDstInv, Ended
  <2>2. CASE spc' # "ready"
    BY <2>2 DEF IInv, EndsInv, Suspend, SExit, receiver, others, SuspendFailed, ToDstInv, Ended
  <2> QED  BY <2>1, <2>2
<1>4. GoInv'
  BY DstWords DEF IInv, EndsInv, Suspend, SExit, receiver, others, SuspendFailed, GoInv, Going, Ended, WriteDst, DstGone, ToDstInv, SenderInv
<1>5. SenderInv'
  <2>1. src = "running" /\ dst = "none" /\ spc = "suspend" /\ s_exit = "none" /\ UNCHANGED <<dst, rpc, rc, resumable>>
    BY DEF IInv, EndsInv, Suspend, SExit, receiver, others, SuspendFailed, SenderInv, PcsInv, Ended
  <2>2. \/ spc' = "ready" /\ src' = "suspended" /\ s_exit' = "none"
        \/ spc' = "exited" /\ src' = "running" /\ s_exit' = "fail"
        \/ spc' = "resume" /\ src' \in {"running", "suspended"} /\ s_exit' = "none"
    BY <2>1 DEF Suspend, SExit, receiver, others, SuspendFailed
  <2> QED  BY <2>1, <2>2 DEF SenderInv, Ended
<1>6. ReceiverInv' /\ FaultInv'
  BY DEF IInv, EndsInv, Suspend, SExit, receiver, others, SuspendFailed, ReceiverInv, FaultInv, Ended
<1>7. ToSrcInv'
  <2>1. PICK lo \in 0..5, hi \in 0..5 : Window(lo, hi)
    BY DEF IInv, ToSrcInv
  <2>2. lo <= hi /\ to_src = Part(Status, lo, hi) /\ HasRead(lo)
    BY <2>1 DEF Window
  <2>3. HasRead(lo)'
    BY <2>2, DstWords DEF Suspend, SExit, receiver, others, SuspendFailed, WriteDst, DstGone, HasRead, Ended, IInv, EndsInv, ToDstInv, SenderInv
  <2>4. (spc' \in {"ready", "rename", "go"} /\ link => hi <= 2) /\ (spc' = "ready" => hi <= 1)
    BY <2>1 DEF Suspend, SExit, receiver, others, SuspendFailed, WriteDst, DstGone, Window, HasWritten, Ended, IInv, EndsInv, ToDstInv
  <2>5. to_src' = Part(Status, lo, hi) /\ UNCHANGED <<rpc, dst, rc, link>> /\ spc \notin Ended
    BY <2>2 DEF Suspend, SExit, receiver, others, SuspendFailed, WriteDst, DstGone, Ended
  <2> QED  BY <2>1, <2>2, <2>3, <2>4, <2>5, SenderMoves
<1> QED  BY <1>1, <1>2, <1>3, <1>4, <1>5, <1>6, <1>7 DEF IInv, EndsInv

LEMMA FailedResumeStep == ASSUME IInv, FailedResume PROVE IInv'
<1>1. PcsInv'
  BY DEF IInv, EndsInv, FailedResume, SExit, receiver, others, Resume, PcsInv, Ended
<1>2. FlagsInv'
  BY DEF IInv, EndsInv, FailedResume, SExit, receiver, others, Resume, FlagsInv
<1>3. ToDstInv'
  BY DEF IInv, EndsInv, FailedResume, SExit, receiver, others, Resume, ToDstInv, Ended
<1>4. GoInv'
  BY DEF IInv, EndsInv, FailedResume, SExit, receiver, others, Resume, GoInv, Going, Ended
<1>5. SenderInv'
  BY DEF IInv, EndsInv, FailedResume, SExit, receiver, others, Resume, SenderInv, Ended, PcsInv
<1>6. ReceiverInv' /\ FaultInv'
  BY DEF IInv, EndsInv, FailedResume, SExit, receiver, others, Resume, ReceiverInv, FaultInv, Ended
<1>7. ToSrcInv'
  <2>1. PICK lo \in 0..5, hi \in 0..5 : Window(lo, hi)
    BY DEF IInv, ToSrcInv
  <2>2. lo <= hi /\ to_src = Part(Status, lo, hi) /\ HasRead(lo)
    BY <2>1 DEF Window
  <2>3. HasRead(lo)'
    BY <2>2 DEF FailedResume, SExit, receiver, others, HasRead, Ended, IInv, EndsInv, ToDstInv, SenderInv
  <2>4. (spc' \in {"ready", "rename", "go"} /\ link => hi <= 2) /\ (spc' = "ready" => hi <= 1)
    BY <2>1 DEF FailedResume, SExit, receiver, others, Window, HasWritten, Ended, IInv, EndsInv, ToDstInv
  <2>5. to_src' = Part(Status, lo, hi) /\ UNCHANGED <<rpc, dst, rc, link>> /\ spc \notin Ended
    BY <2>2 DEF FailedResume, SExit, receiver, others, Ended
  <2> QED  BY <2>1, <2>2, <2>3, <2>4, <2>5, SenderMoves
<1> QED  BY <1>1, <1>2, <1>3, <1>4, <1>5, <1>6, <1>7 DEF IInv, EndsInv

LEMMA RenameAwayStep == ASSUME IInv, RenameAway PROVE IInv'
<1>1. PcsInv'
  BY DEF IInv, EndsInv, RenameAway, SExit, receiver, others, PcsInv, Ended
<1>2. FlagsInv'
  BY DEF IInv, EndsInv, RenameAway, SExit, receiver, others, FlagsInv
<1>3. ToDstInv'
  BY DEF IInv, EndsInv, RenameAway, SExit, receiver, others, ToDstInv, Ended
<1>4. GoInv'
  BY DEF IInv, EndsInv, RenameAway, SExit, receiver, others, GoInv, Going, Ended
<1>5. SenderInv'
  BY DEF IInv, EndsInv, RenameAway, SExit, receiver, others, SenderInv, Ended
<1>6. ReceiverInv' /\ FaultInv'
  BY DEF IInv, EndsInv, RenameAway, SExit, receiver, others, ReceiverInv, FaultInv, Ended
<1>7. ToSrcInv'
  <2>1. PICK lo \in 0..5, hi \in 0..5 : Window(lo, hi)
    BY DEF IInv, ToSrcInv
  <2>2. lo <= hi /\ to_src = Part(Status, lo, hi) /\ HasRead(lo)
    BY <2>1 DEF Window
  <2>3. HasRead(lo)'
    BY <2>2 DEF RenameAway, SExit, receiver, others, HasRead, Ended, IInv, EndsInv, ToDstInv, SenderInv
  <2>4. (spc' \in {"ready", "rename", "go"} /\ link => hi <= 2) /\ (spc' = "ready" => hi <= 1)
    BY <2>1 DEF RenameAway, SExit, receiver, others, Window, HasWritten, Ended, IInv, EndsInv, ToDstInv
  <2>5. to_src' = Part(Status, lo, hi) /\ UNCHANGED <<rpc, dst, rc, link>> /\ spc \notin Ended
    BY <2>2 DEF RenameAway, SExit, receiver, others, Ended
  <2> QED  BY <2>1, <2>2, <2>3, <2>4, <2>5, SenderMoves
<1> QED  BY <1>1, <1>2, <1>3, <1>4, <1>5, <1>6, <1>7 DEF IInv, EndsInv

LEMMA WriteGoStep == ASSUME IInv, WriteGo PROVE IInv'
<1>1. PcsInv'
  BY DEF IInv, EndsInv, WriteGo, SExit, receiver, others, FailedBadly, PcsInv, Ended
<1>2. FlagsInv'
  BY DEF IInv, EndsInv, WriteGo, SExit, receiver, others, FailedBadly, FlagsInv
<1>3. ToDstInv'
  <2>1. CASE ~DstGone
    <3>1. rpc \in {"ready", "go"} /\ rc = 0 /\ to_dst = <<>> /\ link
      BY <2>1 DEF IInv, EndsInv, WriteGo, ToDstInv, ReceiverInv, SenderInv, GoInv, Going, DstGone, Ended
    <3>2. to_dst' = <<"go">> /\ spc' = "report" /\ UNCHANGED <<rpc, rc, closed>>
      BY <2>1, <3>1, DstWords DEF WriteGo, SExit, receiver, others, FailedBadly, WriteDst
    <3> QED  BY <3>1, <3>2, DstWords DEF IInv, EndsInv, WriteGo, ToDstInv, Ended
  <2>2. CASE DstGone
    BY <2>2 DEF IInv, EndsInv, WriteGo, SExit, receiver, others, FailedBadly, WriteDst, ToDstInv, Ended
  <2> QED  BY <2>1, <2>2
<1>4. GoInv'
  <2>1. src = "suspended" /\ src' = src /\ src_name = "away" /\ src_name' = src_name /\ s_exit = "none"
    BY DEF IInv, EndsInv, WriteGo, SExit, receiver, others, FailedBadly, SenderInv, PcsInv
  <2>2. spc' \in {"report", "exited"} /\ s_exit' \in {"none", "badfail"}
    BY <2>1 DEF WriteGo, SExit, receiver, others, FailedBadly
  <2> QED  BY <2>1, <2>2 DEF GoInv, Ended
<1>5. SenderInv'
  BY DEF IInv, EndsInv, WriteGo, SExit, receiver, others, FailedBadly, SenderInv, Ended, WriteDst, DstGone
<1>6. ReceiverInv' /\ FaultInv'
  <2>1. ReceiverInv'
    BY DEF IInv, EndsInv, WriteGo, SExit, receiver, others, FailedBadly, ReceiverInv, Ended
  <2>2. ~faults => ~DstGone
    <3> SUFFICES ASSUME ~faults PROVE ~DstGone
      OBVIOUS
    <3>1. PICK lo \in 0..5, hi \in 0..5 : Window(lo, hi)
      BY DEF IInv, ToSrcInv
    <3>2. link /\ rpc # "killed" /\ spc = "go"
      BY DEF IInv, EndsInv, FaultInv, WriteGo
    <3>3. lo = 2 /\ hi = 2 /\ HasWritten(hi)
      BY <3>1, <3>2 DEF Window, HasRead, Ended
    <3> QED  BY <3>2, <3>3 DEF HasWritten, DstGone, Ended
  <2>3. FaultInv'
    BY <2>2 DEF IInv, EndsInv, WriteGo, SExit, receiver, others, FailedBadly, FaultInv
  <2> QED  BY <2>1, <2>3
<1>7. ToSrcInv'
  <2>1. PICK lo \in 0..5, hi \in 0..5 : Window(lo, hi)
    BY DEF IInv, ToSrcInv
  <2>2. lo <= hi /\ to_src = Part(Status, lo, hi) /\ HasRead(lo)
    BY <2>1 DEF Window
  <2>3. HasRead(lo)'
    BY <2>2 DEF WriteGo, SExit, receiver, others, FailedBadly, HasRead, Ended, IInv, EndsInv, ToDstInv, SenderInv
  <2>4. (spc' \in {"ready", "rename", "go"} /\ link => hi <= 2) /\ (spc' = "ready" => hi <= 1)
    BY <2>1 DEF WriteGo, SExit, receiver, others, FailedBadly, Window, HasWritten, Ended, IInv, EndsInv, ToDstInv
  <2>5. to_src' = Part(Status, lo, hi) /\ UNCHANGED <<rpc, dst, rc, link>> /\ spc \notin Ended
    BY <2>2 DEF WriteGo, SExit, receiver, others, FailedBadly, Ended
  <2> QED  BY <2>1, <2>2, <2>3, <2>4, <2>5, SenderMoves
<1> QED  BY <1>1, <1>2, <1>3, <1>4, <1>5, <1>6, <1>7 DEF IInv, EndsInv

LEMMA DestroySourceStep == ASSUME IInv, DestroySource PROVE IInv'
<1>1. PcsInv'
  BY DEF IInv, EndsInv, DestroySource, SExit, receiver, others, PcsInv, Ended
<1>2. FlagsInv'
  BY DEF IInv, EndsInv, DestroySource, SExit, receiver, others, FlagsInv
<1>3. ToDstInv'
  BY DEF IInv, EndsInv, DestroySource, SExit, receiver, others, ToDstInv, Ended
<1>4. GoInv'
  BY DEF IInv, EndsInv, DestroySource, SExit, receiver, others, GoInv, Going, Ended
<1>5. SenderInv'
  BY DEF IInv, EndsInv, DestroySource, SExit, receiver, others, SenderInv, Ended
<1>6. ReceiverInv' /\ FaultInv'
  BY DEF IInv, EndsInv, DestroySource, SExit, receiver, others, ReceiverInv, FaultInv, Ended
<1>7. ToSrcInv'
  <2>1. PICK lo \in 0..5, hi \in 0..5 : Window(lo, hi)
    BY DEF IInv, ToSrcInv
  <2>2. lo <= hi /\ to_src = Part(Status, lo, hi) /\ HasRead(lo)
    BY <2>1 DEF Window
  <2>3. HasRead(lo)'
    BY <2>2 DEF DestroySource, SExit, receiver, others, HasRead, Ended, IInv, EndsInv, ToDstInv, SenderInv
  <2>4. (spc' \in {"ready", "rename", "go"} /\ link => hi <= 2) /\ (spc' = "ready" => hi <= 1)
    BY <2>1 DEF DestroySource, SExit, receiver, others, Window, HasWritten, Ended, IInv, EndsInv, ToDstInv
  <2>5. to_src' = Part(Status, lo, hi) /\ UNCHANGED <<rpc, dst, rc, link>> /\ spc \notin Ended
    BY <2>2 DEF DestroySource, SExit, receiver, others, Ended
  <2> QED  BY <2>1, <2>2, <2>3, <2>4, <2>5, SenderMoves
<1> QED  BY <1>1, <1>2, <1>3, <1>4, <1>5, <1>6, <1>7 DEF IInv, EndsInv

LEMMA ReadBannerStep == ASSUME IInv, ReadBanner PROVE IInv'
<1>1. PICK hi \in 0..5 : Window(0, hi)
  <2>1. PICK lo \in 0..5, hi \in 0..5 : Window(lo, hi)
    BY DEF IInv, ToSrcInv
  <2>2. lo = 0
    BY <2>1 DEF Window, HasRead, ReadBanner, Ended
  <2> QED  BY <2>1, <2>2
<1>2. TRUE
  OBVIOUS
<1>3. FailedSrc("banner") => DstGone /\ to_src' = to_src
  <2> SUFFICES ASSUME FailedSrc("banner") PROVE DstGone /\ to_src' = to_src
    OBVIOUS
  <2>1. PICK status : status = Status
    OBVIOUS
  <2>2. Script(status)[0 + 1] = "banner"
    BY Words
  <2> QED  BY <1>1, <2>1, <2>2, Reading
<1>4. PcsInv'
  BY DEF IInv, EndsInv, ReadBanner, SExit, receiver, others, PcsInv, Ended
<1>5. FlagsInv'
  BY DEF IInv, EndsInv, ReadBanner, SExit, receiver, others, FlagsInv
<1>6. ToDstInv'
  BY DEF IInv, EndsInv, ReadBanner, SExit, receiver, others, ToDstInv, Ended
<1>7. GoInv'
  BY DEF IInv, EndsInv, ReadBanner, SExit, receiver, others, GoInv, Going, Ended
<1>8. SenderInv'
  BY DEF IInv, EndsInv, ReadBanner, SExit, receiver, others, SenderInv, Ended
<1>9. ReceiverInv' /\ FaultInv'
  BY DEF IInv, EndsInv, ReadBanner, SExit, receiver, others, ReceiverInv, FaultInv, Ended
<1>10. ToSrcInv'
  <2>1. UNCHANGED <<rpc, dst, rc, link>> /\ spc \notin Ended
    BY DEF ReadBanner, SExit, receiver, others, Ended
  <2>2. CASE GotSrc("banner")
    <3>1. 1 <= hi /\ to_src' = Part(Status, 1, hi)
      BY <1>1, <2>2, Reading
    <3>2. HasRead(1)'
      BY <2>2 DEF ReadBanner, SExit, receiver, others, HasRead, Ended
    <3>3. (spc' \in {"ready", "rename", "go"} /\ link => hi <= 2) /\ (spc' = "ready" => hi <= 1)
      BY <1>1, <2>2 DEF ReadBanner, SExit, receiver, others, Window
    <3> QED  BY <1>1, <2>1, <3>1, <3>2, <3>3, SenderMoves
  <2>3. CASE ~(GotSrc("banner"))
    <3>1. 0 <= hi /\ to_src' = Part(Status, 0, hi)
      BY <1>1, <1>3, <2>3 DEF Window, ReadBanner, SExit, receiver, others
    <3>2. HasRead(0)'
      BY <1>1, <1>3, <2>1, <2>3 DEF ReadBanner, SExit, receiver, others, HasRead, DstGone, Ended
    <3>3. spc' \notin {"ready", "rename", "go"}
      BY <2>3 DEF ReadBanner, SExit, receiver, others
    <3> QED  BY <1>1, <2>1, <3>1, <3>2, <3>3, SenderMoves
  <2> QED  BY <2>2, <2>3
<1> QED  BY <1>4, <1>5, <1>6, <1>7, <1>8, <1>9, <1>10 DEF IInv, EndsInv

LEMMA ReadReadyStep == ASSUME IInv, ReadReady PROVE IInv'
<1>1. PICK hi \in 0..5 : Window(1, hi)
  <2>1. PICK lo \in 0..5, hi \in 0..5 : Window(lo, hi)
    BY DEF IInv, ToSrcInv
  <2>2. lo = 1
    BY <2>1 DEF Window, HasRead, ReadReady, Ended
  <2> QED  BY <2>1, <2>2
<1>2. GotSrc("ready") => dst # "none"
  <2>1. GotSrc("ready") => 2 <= hi
    BY <1>1, Reading
  <2> QED  BY <1>1, <2>1 DEF Window, Facts, ReadReady
<1>3. FailedSrc("ready") => DstGone /\ to_src' = to_src
  <2> SUFFICES ASSUME FailedSrc("ready") PROVE DstGone /\ to_src' = to_src
    OBVIOUS
  <2>1. PICK status : status = Status
    OBVIOUS
  <2>2. Script(status)[1 + 1] = "ready"
    BY Words
  <2> QED  BY <1>1, <2>1, <2>2, Reading
<1>4. PcsInv'
  BY DEF IInv, EndsInv, ReadReady, SExit, receiver, others, PcsInv, Ended
<1>5. FlagsInv'
  BY DEF IInv, EndsInv, ReadReady, SExit, receiver, others, FlagsInv
<1>6. ToDstInv'
  BY DEF IInv, EndsInv, ReadReady, SExit, receiver, others, ToDstInv, Ended
<1>7. GoInv'
  BY DEF IInv, EndsInv, ReadReady, SExit, receiver, others, GoInv, Going, Ended
<1>8. SenderInv'
  BY <1>2 DEF IInv, EndsInv, ReadReady, SExit, receiver, others, SenderInv, Ended
<1>9. ReceiverInv' /\ FaultInv'
  BY DEF IInv, EndsInv, ReadReady, SExit, receiver, others, ReceiverInv, FaultInv, Ended
<1>10. ToSrcInv'
  <2>1. UNCHANGED <<rpc, dst, rc, link>> /\ spc \notin Ended
    BY DEF ReadReady, SExit, receiver, others, Ended
  <2>2. CASE GotSrc("ready")
    <3>1. 2 <= hi /\ to_src' = Part(Status, 2, hi)
      BY <1>1, <2>2, Reading
    <3>2. HasRead(2)'
      BY <2>2 DEF ReadReady, SExit, receiver, others, HasRead, Ended
    <3>3. (spc' \in {"ready", "rename", "go"} /\ link => hi <= 2) /\ (spc' = "ready" => hi <= 1)
      BY <1>1, <2>2 DEF ReadReady, SExit, receiver, others, Window
    <3> QED  BY <1>1, <2>1, <3>1, <3>2, <3>3, SenderMoves
  <2>3. CASE ~(GotSrc("ready"))
    <3>1. 1 <= hi /\ to_src' = Part(Status, 1, hi)
      BY <1>1, <1>3, <2>3 DEF Window, ReadReady, SExit, receiver, others
    <3>2. HasRead(1)'
      BY <1>1, <1>3, <2>1, <2>3 DEF ReadReady, SExit, receiver, others, HasRead, DstGone, Ended
    <3>3. spc' \notin {"ready", "rename", "go"}
      BY <2>3 DEF ReadReady, SExit, receiver, others
    <3> QED  BY <1>1, <2>1, <3>1, <3>2, <3>3, SenderMoves
  <2> QED  BY <2>2, <2>3
<1> QED  BY <1>4, <1>5, <1>6, <1>7, <1>8, <1>9, <1>10 DEF IInv, EndsInv

LEMMA ReadReportStep == ASSUME IInv, ReadReport PROVE IInv'
<1>1. PICK hi \in 0..5 : Window(2, hi)
  <2>1. PICK lo \in 0..5, hi \in 0..5 : Window(lo, hi)
    BY DEF IInv, ToSrcInv
  <2>2. lo = 2
    BY <2>1 DEF Window, HasRead, ReadReport, Ended
  <2> QED  BY <2>1, <2>2
<1>2. TRUE
  OBVIOUS
<1>3. FailedSrc("report") => DstGone /\ to_src' = to_src /\ faults
  <2> SUFFICES ASSUME FailedSrc("report") PROVE DstGone /\ to_src' = to_src /\ faults
    OBVIOUS
  <2>1. PICK status : status = Status
    OBVIOUS
  <2>2. Script(status)[2 + 1] = "report"
    BY Words
  <2>3. hi = 2 /\ DstGone /\ to_src' = to_src
    BY <1>1, <2>1, <2>2, Reading
  <2>4. ~faults => link /\ rpc = "exited" /\ HasWritten(2)
    BY <1>1, <2>3 DEF IInv, EndsInv, FaultInv, Window, DstGone, Ended, ReadReport
  <2>5. faults \in BOOLEAN
    BY DEF IInv, EndsInv, FlagsInv
  <2> QED  BY <2>3, <2>4 DEF HasWritten, IInv, EndsInv, SenderInv, ReadReport
<1>4. PcsInv'
  BY DEF IInv, EndsInv, ReadReport, SExit, receiver, others, ReportFailed, FailedBadly, PcsInv, Ended
<1>5. FlagsInv'
  BY DEF IInv, EndsInv, ReadReport, SExit, receiver, others, ReportFailed, FailedBadly, FlagsInv
<1>6. ToDstInv'
  BY DEF IInv, EndsInv, ReadReport, SExit, receiver, others, ReportFailed, FailedBadly, ToDstInv, Ended
<1>7. GoInv'
  BY DEF IInv, EndsInv, ReadReport, SExit, receiver, others, ReportFailed, FailedBadly, GoInv, Going, Ended
<1>8. SenderInv'
  BY DEF IInv, EndsInv, ReadReport, SExit, receiver, others, ReportFailed, FailedBadly, SenderInv, Ended
<1>9. ReceiverInv' /\ FaultInv'
  BY <1>3 DEF IInv, EndsInv, ReadReport, SExit, receiver, others, ReportFailed, FailedBadly, ReceiverInv, FaultInv, Ended
<1>10. ToSrcInv'
  <2>1. UNCHANGED <<rpc, dst, rc, link>> /\ spc \notin Ended
    BY DEF ReadReport, SExit, receiver, others, ReportFailed, FailedBadly, Ended
  <2>2. CASE GotSrc("report")
    <3>1. 3 <= hi /\ to_src' = Part(Status, 3, hi)
      BY <1>1, <2>2, Reading
    <3>2. HasRead(3)'
      BY <2>2 DEF ReadReport, SExit, receiver, others, ReportFailed, FailedBadly, HasRead, Ended
    <3>3. (spc' \in {"ready", "rename", "go"} /\ link => hi <= 2) /\ (spc' = "ready" => hi <= 1)
      BY <1>1, <2>2 DEF ReadReport, SExit, receiver, others, ReportFailed, FailedBadly, Window
    <3> QED  BY <1>1, <2>1, <3>1, <3>2, <3>3, SenderMoves
  <2>3. CASE ~(GotSrc("report"))
    <3>1. 2 <= hi /\ to_src' = Part(Status, 2, hi)
      BY <1>1, <1>3, <2>3 DEF Window, ReadReport, SExit, receiver, others, ReportFailed, FailedBadly
    <3>2. HasRead(2)'
      BY <1>1, <1>3, <2>1, <2>3 DEF ReadReport, SExit, receiver, others, ReportFailed, FailedBadly, HasRead, DstGone, Ended
    <3>3. spc' \notin {"ready", "rename", "go"}
      BY <2>3 DEF ReadReport, SExit, receiver, others, ReportFailed, FailedBadly
    <3> QED  BY <1>1, <2>1, <3>1, <3>2, <3>3, SenderMoves
  <2> QED  BY <2>2, <2>3
<1> QED  BY <1>4, <1>5, <1>6, <1>7, <1>8, <1>9, <1>10 DEF IInv, EndsInv

LEMMA ReadStatusStep == ASSUME IInv, ReadStatus PROVE IInv'
<1>1. PICK hi \in 0..5 : Window(3, hi)
  <2>1. PICK lo \in 0..5, hi \in 0..5 : Window(lo, hi)
    BY DEF IInv, ToSrcInv
  <2>2. lo = 3
    BY <2>1 DEF Window, HasRead, ReadStatus, Ended
  <2> QED  BY <2>1, <2>2
<1>2. (GotSrc("zero") => dst = "running") /\ (GotSrc("nonzero") => rc = 1 /\ rpc \notin {"report", "status"})
  <2>1. PICK status : status = Status
    OBVIOUS
  <2>2. Script(status)[3 + 1] = status
    BY Words
  <2>3. GotSrc("zero") => hi >= 4 /\ Status = "zero"
    BY <1>1, <2>1, <2>2, Reading
  <2>4. GotSrc("nonzero") => hi >= 4 /\ Status = "nonzero"
    BY <1>1, <2>1, <2>2, Reading
  <2>5. hi >= 4 => hi >= 3
    OBVIOUS
  <2>6. Facts(hi)
    BY <1>1 DEF Window
  <2>7. rc \in {0, 1}
    BY DEF IInv, EndsInv, PcsInv
  <2> QED  BY <2>3, <2>4, <2>5, <2>6, <2>7 DEF Facts, Status, Ended
<1>3. to_src = <<>> /\ FailedSrc("zero") => DstGone /\ to_src' = to_src /\ faults
  <2> SUFFICES ASSUME to_src = <<>>, FailedSrc("zero") PROVE DstGone /\ to_src' = to_src /\ faults
    OBVIOUS
  <2>1. DstGone /\ to_src' = to_src
    BY DEF FailedSrc
  <2>2. PICK status : status = Status
    OBVIOUS
  <2>3. hi = 3
    BY <1>1, <2>2, PartEmpty DEF Window
  <2>4. ~faults => link /\ rpc = "exited" /\ HasWritten(3)
    BY <1>1, <2>1, <2>3 DEF IInv, EndsInv, FaultInv, Window, DstGone, Ended, ReadStatus
  <2> QED  BY <2>1, <2>4 DEF HasWritten
<1>4. PcsInv'
  BY DEF IInv, EndsInv, ReadStatus, SExit, receiver, others, ReportFailed, FailedBadly, PcsInv, Ended
<1>5. FlagsInv'
  BY DEF IInv, EndsInv, ReadStatus, SExit, receiver, others, ReportFailed, FailedBadly, FlagsInv
<1>6. ToDstInv'
  BY DEF IInv, EndsInv, ReadStatus, SExit, receiver, others, ReportFailed, FailedBadly, ToDstInv, Ended
<1>7. GoInv'
  BY DEF IInv, EndsInv, ReadStatus, SExit, receiver, others, ReportFailed, FailedBadly, GoInv, Going, Ended
<1>8. SenderInv'
  BY <1>2 DEF IInv, EndsInv, ReadStatus, SExit, receiver, others, ReportFailed, FailedBadly, SenderInv, Ended
<1>9. ReceiverInv' /\ FaultInv'
  BY <1>3 DEF IInv, EndsInv, ReadStatus, SExit, receiver, others, ReportFailed, FailedBadly, ReceiverInv, FaultInv, Ended
<1>10. ToSrcInv'
  <2>1. UNCHANGED <<rpc, dst, rc, link>> /\ spc \notin Ended
    BY DEF ReadStatus, SExit, receiver, others, ReportFailed, FailedBadly, Ended
  <2>2. CASE GotSrc("zero") \/ GotSrc("nonzero")
    <3>1. 4 <= hi /\ to_src' = Part(Status, 4, hi)
      BY <1>1, <2>2, Reading
    <3>2. HasRead(4)'
      BY <2>2 DEF ReadStatus, SExit, receiver, others, ReportFailed, FailedBadly, HasRead, Ended
    <3>3. (spc' \in {"ready", "rename", "go"} /\ link => hi <= 2) /\ (spc' = "ready" => hi <= 1)
      BY <1>1, <2>2 DEF ReadStatus, SExit, receiver, others, ReportFailed, FailedBadly, Window
    <3> QED  BY <1>1, <2>1, <3>1, <3>2, <3>3, SenderMoves
  <2>3. CASE ~(GotSrc("zero") \/ GotSrc("nonzero"))
    <3>1. 3 <= hi /\ to_src' = Part(Status, 3, hi)
      BY <1>1, <1>3, <2>3 DEF Window, ReadStatus, SExit, receiver, others, ReportFailed, FailedBadly
    <3>2. HasRead(3)'
      BY <1>1, <1>3, <2>1, <2>3 DEF ReadStatus, SExit, receiver, others, ReportFailed, FailedBadly, HasRead, DstGone, Ended
    <3>3. spc' \notin {"ready", "rename", "go"}
      BY <2>3 DEF ReadStatus, SExit, receiver, others, ReportFailed, FailedBadly
    <3> QED  BY <1>1, <2>1, <3>1, <3>2, <3>3, SenderMoves
  <2> QED  BY <2>2, <2>3
<1> QED  BY <1>4, <1>5, <1>6, <1>7, <1>8, <1>9, <1>10 DEF IInv, EndsInv

LEMMA ReadPermissionStep == ASSUME IInv, ReadPermission PROVE IInv'
<1>1. PICK hi \in 0..5 : Window(4, hi)
  <2>1. PICK lo \in 0..5, hi \in 0..5 : Window(lo, hi)
    BY DEF IInv, ToSrcInv
  <2>2. lo = 4
    BY <2>1 DEF Window, HasRead, ReadPermission, Ended
  <2> QED  BY <2>1, <2>2
<1>2. GotSrc("permission") => rc = 1 /\ dst # "running" /\ rpc \in Ended
  <2>1. GotSrc("permission") => 5 <= hi
    BY <1>1, Reading
  <2> QED  BY <1>1, <2>1 DEF Window, Facts, IInv, EndsInv, ReceiverInv
<1>3. FailedSrc("permission") => DstGone /\ to_src' = to_src /\ faults
  <2> SUFFICES ASSUME FailedSrc("permission") PROVE DstGone /\ to_src' = to_src /\ faults
    OBVIOUS
  <2>1. PICK status : status = Status
    OBVIOUS
  <2>2. Script(status)[4 + 1] = "permission"
    BY Words
  <2>3. hi = 4 /\ DstGone /\ to_src' = to_src
    BY <1>1, <2>1, <2>2, Reading
  <2>4. ~faults => link /\ rpc = "exited" /\ HasWritten(4)
    BY <1>1, <2>3 DEF IInv, EndsInv, FaultInv, Window, DstGone, Ended, ReadPermission
  <2>5. faults \in BOOLEAN
    BY DEF IInv, EndsInv, FlagsInv
  <2> QED  BY <2>3, <2>4 DEF HasWritten, IInv, EndsInv, SenderInv, ReadPermission
<1>4. PcsInv'
  BY DEF IInv, EndsInv, ReadPermission, SExit, receiver, others, FailedBadly, Resume, PcsInv, Ended
<1>5. FlagsInv'
  BY DEF IInv, EndsInv, ReadPermission, SExit, receiver, others, FailedBadly, Resume, FlagsInv
<1>6. ToDstInv'
  BY DEF IInv, EndsInv, ReadPermission, SExit, receiver, others, FailedBadly, Resume, ToDstInv, Ended
<1>7. GoInv'
  BY <1>2 DEF IInv, EndsInv, ReadPermission, SExit, receiver, others, FailedBadly, Resume, GoInv, Going, Ended, ToDstInv, SenderInv
<1>8. SenderInv'
  BY <1>2 DEF IInv, EndsInv, ReadPermission, SExit, receiver, others, FailedBadly, Resume, SenderInv, Ended
<1>9. ReceiverInv' /\ FaultInv'
  BY <1>3 DEF IInv, EndsInv, ReadPermission, SExit, receiver, others, FailedBadly, Resume, ReceiverInv, FaultInv, Ended
<1>10. ToSrcInv'
  <2>1. UNCHANGED <<rpc, dst, rc, link>> /\ spc \notin Ended
    BY DEF ReadPermission, SExit, receiver, others, FailedBadly, Resume, Ended
  <2>2. CASE GotSrc("permission")
    <3>1. 5 <= hi /\ to_src' = Part(Status, 5, hi)
      BY <1>1, <2>2, Reading
    <3>2. HasRead(5)'
      BY <2>2 DEF ReadPermission, SExit, receiver, others, FailedBadly, Resume, HasRead, Ended
    <3>3. (spc' \in {"ready", "rename", "go"} /\ link => hi <= 2) /\ (spc' = "ready" => hi <= 1)
      BY <1>1, <2>2 DEF ReadPermission, SExit, receiver, others, FailedBadly, Resume, Window
    <3> QED  BY <1>1, <2>1, <3>1, <3>2, <3>3, SenderMoves
  <2>3. CASE ~(GotSrc("permission"))
    <3>1. 4 <= hi /\ to_src' = Part(Status, 4, hi)
      BY <1>1, <1>3, <2>3 DEF Window, ReadPermission, SExit, receiver, others, FailedBadly, Resume
    <3>2. HasRead(4)'
      BY <1>1, <1>3, <2>1, <2>3 DEF ReadPermission, SExit, receiver, others, FailedBadly, Resume, HasRead, DstGone, Ended
    <3>3. spc' \notin {"ready", "rename", "go"}
      BY <2>3 DEF ReadPermission, SExit, receiver, others, FailedBadly, Resume
    <3> QED  BY <1>1, <2>1, <3>1, <3>2, <3>3, SenderMoves
  <2> QED  BY <2>2, <2>3
<1> QED  BY <1>4, <1>5, <1>6, <1>7, <1>8, <1>9, <1>10 DEF IInv, EndsInv

-----------------------------------------------------------------------------
(* The receiver *)

LEMMA WriteBannerStep == ASSUME IInv, WriteBanner PROVE IInv'
<1>1. PcsInv'
  BY DEF IInv, EndsInv, WriteBanner, sender, others, Write, PcsInv, Ended
<1>2. FlagsInv'
  BY DEF IInv, EndsInv, WriteBanner, sender, others, Write, FlagsInv
<1>3. ToDstInv'
  <2>1. PICK lo \in 0..5, hi \in 0..5 : Window(lo, hi)
    BY DEF IInv, ToSrcInv
  <2>2. hi = 0
    BY <2>1 DEF Window, Facts, WriteBanner
  <2>3. lo = 0
    BY <2>1, <2>2 DEF Window
  <2>4. spc \notin {"suspend", "ready"}
    BY <2>1, <2>3 DEF Window, HasRead, Ended
  <2> QED  BY <2>4 DEF IInv, EndsInv, WriteBanner, sender, others, Write, ToDstInv, Ended
<1>4. GoInv'
  BY DEF IInv, EndsInv, WriteBanner, sender, others, Write, GoInv, Going, Ended
<1>5. SenderInv'
  BY DEF IInv, EndsInv, WriteBanner, sender, others, Write, SenderInv, Ended, ReceiverInv
<1>6. ReceiverInv' /\ FaultInv'
  BY DEF IInv, EndsInv, WriteBanner, sender, others, Write, ReceiverInv, FaultInv, Ended, PcsInv
<1>7. ToSrcInv'
  <2>1. PICK lo \in 0..5, hi \in 0..5 : Window(lo, hi)
    BY DEF IInv, ToSrcInv
  <2>2. PICK status : status = Status
    OBVIOUS
  <2>3. Status' = Status
    BY DEF WriteBanner, Status
  <2>4. lo <= hi /\ to_src = Part(status, lo, hi) /\ hi <= lo + 3 /\ HasRead(lo)'
    BY <2>1, <2>2 DEF Window, HasRead, WriteBanner, sender, others, Write, Ended
  <2>5. CASE SrcGone
    <3>1. to_src' = to_src /\ ~(link' /\ spc' \notin Ended)
      BY <2>5 DEF WriteBanner, sender, others, Write, WriteSrc, SrcGone
    <3>2. Facts(hi)'
      BY <2>1 DEF Window, Facts, WriteBanner, sender, others, Write, Ended
    <3>3. link' /\ spc' \in {"ready", "rename", "go"} => hi <= 2
      BY <3>1 DEF Ended
    <3> QED  BY <2>2, <2>3, <2>4, <3>1, <3>2, <3>3 DEF Window, ToSrcInv
  <2>6. CASE ~SrcGone
    <3>1. hi = 0
      BY <2>1, <2>6 DEF Window, HasWritten, SrcGone, WriteBanner, Ended
    <3>2. 0 + 1 <= lo + 3
      BY <2>1, <2>6, <3>1 DEF Window, HasRead, SrcGone, WriteBanner, Ended, IInv, EndsInv, ToDstInv, SenderInv, ReceiverInv
    <3>3. to_src' = Append(Part(status, lo, 0), "banner") /\ rpc' = "create"
      BY <2>4, <2>6, <3>1 DEF WriteBanner, sender, others, Write, WriteSrc
    <3>4. Script(status)[0 + 1] = "banner"
      BY <2>2, Words
    <3>5. to_src' = Part(status, lo, 1)
      <4>1. 0 \in 0..4 /\ lo <= 0 /\ 0 + 1 = 1
        BY <2>4, <3>1
      <4>2. Append(Part(status, lo, 0), Script(status)[0 + 1]) = Part(status, lo, 0 + 1)
        BY <4>1, PartWrite
      <4> QED  BY <3>3, <3>4, <4>1, <4>2
    <3>6. Facts(1)' /\ HasWritten(1)'
      BY <2>6, <3>3 DEF Facts, HasWritten, SrcGone, WriteBanner, sender, others, Write, Cleanup, Ended, IInv, EndsInv, ToDstInv, ReceiverInv, PcsInv
    <3>7. link' /\ spc' \in {"ready", "rename", "go"} => 1 <= 2
      BY DEF WriteBanner, sender, others, Write, Ended, IInv, EndsInv, ToDstInv
    <3>8. Window(lo, 1)'
      BY <2>2, <2>3, <2>4, <3>1, <3>2, <3>5, <3>6, <3>7 DEF Window
    <3> QED  BY <3>8 DEF ToSrcInv
  <2> QED  BY <2>5, <2>6
<1> QED  BY <1>1, <1>2, <1>3, <1>4, <1>5, <1>6, <1>7 DEF IInv, EndsInv

LEMMA CreateStep == ASSUME IInv, Create PROVE IInv'
<1>0. \/ to_dst = <<"config", "data">> /\ to_dst' = <<>> /\ dst' = "paused" /\ rpc' = "ready"
      \/ to_dst' = to_dst /\ dst' = dst /\ rpc' = "exited"
  <2>1. Len(to_dst) >= 2 => to_dst = <<"config", "data">>
    BY DstWords DEF IInv, EndsInv, ToDstInv
  <2>2. SubSeq(<<"config", "data">>, 3, Len(<<"config", "data">>)) = <<>>
    BY DstWords
  <2> QED  BY <2>1, <2>2 DEF Create
<1>1. PcsInv'
  BY DEF IInv, EndsInv, Create, sender, others, PcsInv, Ended
<1>2. FlagsInv'
  BY DEF IInv, EndsInv, Create, sender, others, FlagsInv
<1>3. ToDstInv'
  BY <1>0, DstWords DEF IInv, EndsInv, Create, sender, others, ToDstInv, Ended, GoInv, Going
<1>4. GoInv'
  BY <1>0, DstWords DEF IInv, EndsInv, Create, sender, others, GoInv, Going, Ended
<1>5. SenderInv'
  BY <1>0, DstWords DEF IInv, EndsInv, Create, sender, others, SenderInv, Ended, ToDstInv, ReceiverInv
<1>6. ReceiverInv' /\ FaultInv'
  BY DEF IInv, EndsInv, Create, sender, others, ReceiverInv, FaultInv, Ended
<1>7. ToSrcInv'
  <2>1. PICK lo \in 0..5, hi \in 0..5 : Window(lo, hi)
    BY DEF IInv, ToSrcInv
  <2>2. Status' = Status
    BY DEF Create, sender, others, Status
  <2>3. lo <= hi /\ hi <= lo + 3 /\ to_src' = Part(Status', lo, hi)
    BY <2>1, <2>2 DEF Window, Create, sender, others
  <2>4. HasRead(lo)'
    BY <2>1, <1>0, DstWords DEF Window, HasRead, Create, sender, others, Ended, IInv, EndsInv, ReceiverInv
  <2>5. Facts(hi)'
    BY <2>1 DEF Window, Facts, Create, sender, others, Ended, IInv, EndsInv, ReceiverInv
  <2>6. link' /\ rpc' # "killed" /\ spc' \notin Ended => HasWritten(hi)'
    BY <2>1 DEF Window, HasWritten, Create, sender, others, Ended, IInv, EndsInv, ReceiverInv
  <2>7. link' /\ spc' \in {"ready", "rename", "go"} => hi <= 2
    BY <2>1 DEF Window, Create, sender, others
  <2> QED  BY <2>3, <2>4, <2>5, <2>6, <2>7 DEF Window, ToSrcInv
<1> QED  BY <1>1, <1>2, <1>3, <1>4, <1>5, <1>6, <1>7 DEF IInv, EndsInv

LEMMA CreateUnlockedStep == ASSUME IInv, CreateUnlocked PROVE IInv'
<1>1. PcsInv'
  BY DEF IInv, EndsInv, CreateUnlocked, sender, others, PcsInv, Ended
<1>2. FlagsInv'
  BY DEF IInv, EndsInv, CreateUnlocked, sender, others, FlagsInv
<1>3. ToDstInv'
  BY DstWords DEF IInv, EndsInv, CreateUnlocked, sender, others, ToDstInv, Ended
<1>4. GoInv'
  BY DEF IInv, EndsInv, CreateUnlocked, sender, others, GoInv, Going, Ended
<1>5. SenderInv'
  BY DEF IInv, EndsInv, CreateUnlocked, sender, others, SenderInv, Ended
<1>6. ReceiverInv' /\ FaultInv'
  BY DEF IInv, EndsInv, CreateUnlocked, sender, others, ReceiverInv, FaultInv, Ended
<1>7. ToSrcInv'
  <2>1. PICK lo \in 0..5, hi \in 0..5 : Window(lo, hi)
    BY DEF IInv, ToSrcInv
  <2>2. Status' = Status
    BY DEF CreateUnlocked, sender, others, Status
  <2>3. lo <= hi /\ hi <= lo + 3 /\ to_src' = Part(Status', lo, hi)
    BY <2>1, <2>2 DEF Window, CreateUnlocked, sender, others
  <2>4. HasRead(lo)'
    BY <2>1 DEF Window, HasRead, CreateUnlocked, sender, others, Ended, IInv, EndsInv, ReceiverInv
  <2>5. Facts(hi)'
    BY <2>1 DEF Window, Facts, CreateUnlocked, sender, others, Ended, IInv, EndsInv, ReceiverInv
  <2>6. link' /\ rpc' # "killed" /\ spc' \notin Ended => HasWritten(hi)'
    BY <2>1 DEF Window, HasWritten, CreateUnlocked, sender, others, Ended, IInv, EndsInv, ReceiverInv
  <2>7. link' /\ spc' \in {"ready", "rename", "go"} => hi <= 2
    BY <2>1 DEF Window, CreateUnlocked, sender, others
  <2> QED  BY <2>3, <2>4, <2>5, <2>6, <2>7 DEF Window, ToSrcInv
<1> QED  BY <1>1, <1>2, <1>3, <1>4, <1>5, <1>6, <1>7 DEF IInv, EndsInv

LEMMA WriteReadyStep == ASSUME IInv, WriteReady PROVE IInv'
<1>1. PcsInv'
  BY DEF IInv, EndsInv, WriteReady, sender, others, Write, PcsInv, Ended
<1>2. FlagsInv'
  BY DEF IInv, EndsInv, WriteReady, sender, others, Write, FlagsInv
<1>3. ToDstInv'
  BY DEF IInv, EndsInv, WriteReady, sender, others, Write, ToDstInv, Ended
<1>4. GoInv'
  BY DEF IInv, EndsInv, WriteReady, sender, others, Write, GoInv, Going, Ended
<1>5. SenderInv'
  BY DEF IInv, EndsInv, WriteReady, sender, others, Write, SenderInv, Ended, ReceiverInv
<1>6. ReceiverInv' /\ FaultInv'
  BY DEF IInv, EndsInv, WriteReady, sender, others, Write, ReceiverInv, FaultInv, Ended, PcsInv
<1>7. ToSrcInv'
  <2>1. PICK lo \in 0..5, hi \in 0..5 : Window(lo, hi)
    BY DEF IInv, ToSrcInv
  <2>2. PICK status : status = Status
    OBVIOUS
  <2>3. Status' = Status
    BY DEF WriteReady, Status
  <2>4. lo <= hi /\ to_src = Part(status, lo, hi) /\ hi <= lo + 3 /\ HasRead(lo)'
    BY <2>1, <2>2 DEF Window, HasRead, WriteReady, sender, others, Write, Ended
  <2>5. CASE SrcGone
    <3>1. to_src' = to_src /\ ~(link' /\ spc' \notin Ended)
      BY <2>5 DEF WriteReady, sender, others, Write, WriteSrc, SrcGone
    <3>2. Facts(hi)'
      BY <2>1 DEF Window, Facts, WriteReady, sender, others, Write, Ended
    <3>3. link' /\ spc' \in {"ready", "rename", "go"} => hi <= 2
      BY <3>1 DEF Ended
    <3> QED  BY <2>2, <2>3, <2>4, <3>1, <3>2, <3>3 DEF Window, ToSrcInv
  <2>6. CASE ~SrcGone
    <3>1. hi = 1
      BY <2>1, <2>6 DEF Window, HasWritten, SrcGone, WriteReady, Ended
    <3>2. 1 + 1 <= lo + 3
      BY <2>1, <2>6, <3>1 DEF Window, HasRead, SrcGone, WriteReady, Ended, IInv, EndsInv, ToDstInv, SenderInv, ReceiverInv
    <3>3. to_src' = Append(Part(status, lo, 1), "ready") /\ rpc' = "go"
      BY <2>4, <2>6, <3>1 DEF WriteReady, sender, others, Write, WriteSrc
    <3>4. Script(status)[1 + 1] = "ready"
      BY <2>2, Words
    <3>5. to_src' = Part(status, lo, 2)
      <4>1. 1 \in 0..4 /\ lo <= 1 /\ 1 + 1 = 2
        BY <2>4, <3>1
      <4>2. Append(Part(status, lo, 1), Script(status)[1 + 1]) = Part(status, lo, 1 + 1)
        BY <4>1, PartWrite
      <4> QED  BY <3>3, <3>4, <4>1, <4>2
    <3>6. Facts(2)' /\ HasWritten(2)'
      BY <2>6, <3>3 DEF Facts, HasWritten, SrcGone, WriteReady, sender, others, Write, Cleanup, Ended, IInv, EndsInv, ToDstInv, ReceiverInv, PcsInv
    <3>7. link' /\ spc' \in {"ready", "rename", "go"} => 2 <= 2
      BY DEF WriteReady, sender, others, Write, Ended, IInv, EndsInv, ToDstInv
    <3>8. Window(lo, 2)'
      BY <2>2, <2>3, <2>4, <3>1, <3>2, <3>5, <3>6, <3>7 DEF Window
    <3> QED  BY <3>8 DEF ToSrcInv
  <2> QED  BY <2>5, <2>6
<1> QED  BY <1>1, <1>2, <1>3, <1>4, <1>5, <1>6, <1>7 DEF IInv, EndsInv

LEMMA ReadGoStep == ASSUME IInv, ReadGo PROVE IInv'
<1>0. /\ to_dst' = <<>>
      /\ \/ to_dst = <<"go">> /\ rpc' = "rename" /\ rc' = rc
         \/ /\ to_dst = <<>> /\ rpc' = "report" /\ rc' = 1
            /\ spc = "suspend" \/ SrcGone \/ closed
  <2>1. to_dst = <<>> \/ to_dst = <<"go">>
    BY DEF IInv, EndsInv, ReadGo, ToDstInv
  <2>2. spc = "suspend" => to_dst = <<>>
    BY <2>1 DEF IInv, EndsInv, GoInv, Going, Ended
  <2> QED  BY <2>1, <2>2, DstWords DEF ReadGo, NoGo, GotDst, FailedDst
<1>1. PcsInv'
  BY DEF IInv, EndsInv, ReadGo, sender, others, NoGo, PcsInv, Ended
<1>2. FlagsInv'
  BY DEF IInv, EndsInv, ReadGo, sender, others, NoGo, FlagsInv
<1>3. ToDstInv'
  BY <1>0, DstWords DEF IInv, EndsInv, ReadGo, sender, others, NoGo, ToDstInv, Ended, GoInv, Going, SrcGone
<1>4. GoInv'
  BY <1>0, DstWords DEF IInv, EndsInv, ReadGo, sender, others, NoGo, GoInv, Going, Ended
<1>5. SenderInv'
  BY DEF IInv, EndsInv, ReadGo, sender, others, NoGo, SenderInv, Ended, ReceiverInv
<1>6. ReceiverInv' /\ FaultInv'
  BY DEF IInv, EndsInv, ReadGo, sender, others, NoGo, ReceiverInv, FaultInv, Ended
<1>7. ToSrcInv'
  <2>1. PICK lo \in 0..5, hi \in 0..5 : Window(lo, hi)
    BY DEF IInv, ToSrcInv
  <2>2. hi \in 0..3
    BY <2>1 DEF Window, Facts, ReadGo, Ended
  <2>3. lo <= hi /\ hi <= lo + 3 /\ to_src' = Part(Status', lo, hi)
    <3>1. PICK old : old = Status
      OBVIOUS
    <3>2. PICK new : new = Status'
      OBVIOUS
    <3>3. lo <= hi /\ hi <= lo + 3 /\ to_src' = Part(old, lo, hi)
      BY <2>1, <3>1 DEF Window, ReadGo, sender, others, NoGo
    <3>4. Part(old, lo, hi) = Part(new, lo, hi)
      BY <2>2, <3>3, StatusOpen
    <3> QED  BY <3>2, <3>3, <3>4
  <2>4. HasRead(lo)'
    BY <2>1, <1>0, DstWords DEF Window, HasRead, ReadGo, sender, others, NoGo, Ended, IInv, EndsInv, ReceiverInv
  <2>5. Facts(hi)'
    BY <2>1 DEF Window, Facts, ReadGo, sender, others, NoGo, Ended, IInv, EndsInv, ReceiverInv
  <2>6. link' /\ rpc' # "killed" /\ spc' \notin Ended => HasWritten(hi)'
    BY <2>1 DEF Window, HasWritten, ReadGo, sender, others, NoGo, Ended, IInv, EndsInv, ReceiverInv
  <2>7. link' /\ spc' \in {"ready", "rename", "go"} => hi <= 2
    BY <2>1 DEF Window, ReadGo, sender, others, NoGo
  <2> QED  BY <2>3, <2>4, <2>5, <2>6, <2>7 DEF Window, ToSrcInv
<1> QED  BY <1>1, <1>2, <1>3, <1>4, <1>5, <1>6, <1>7 DEF IInv, EndsInv

LEMMA RenameIncomingStep == ASSUME IInv, RenameIncoming PROVE IInv'
<1>1. PcsInv'
  BY DEF IInv, EndsInv, RenameIncoming, sender, others, PcsInv, Ended
<1>2. FlagsInv'
  BY DEF IInv, EndsInv, RenameIncoming, sender, others, FlagsInv
<1>3. ToDstInv'
  BY DEF IInv, EndsInv, RenameIncoming, sender, others, ToDstInv, Ended
<1>4. GoInv'
  BY DEF IInv, EndsInv, RenameIncoming, sender, others, GoInv, Going, Ended
<1>5. SenderInv'
  BY DEF IInv, EndsInv, RenameIncoming, sender, others, SenderInv, Ended, ReceiverInv
<1>6. ReceiverInv' /\ FaultInv'
  BY DEF IInv, EndsInv, RenameIncoming, sender, others, ReceiverInv, FaultInv, Ended
<1>7. ToSrcInv'
  <2>1. PICK lo \in 0..5, hi \in 0..5 : Window(lo, hi)
    BY DEF IInv, ToSrcInv
  <2>2. hi \in 0..3
    BY <2>1 DEF Window, Facts, RenameIncoming, Ended
  <2>3. lo <= hi /\ hi <= lo + 3 /\ to_src' = Part(Status', lo, hi)
    <3>1. PICK old : old = Status
      OBVIOUS
    <3>2. PICK new : new = Status'
      OBVIOUS
    <3>3. lo <= hi /\ hi <= lo + 3 /\ to_src' = Part(old, lo, hi)
      BY <2>1, <3>1 DEF Window, RenameIncoming, sender, others
    <3>4. Part(old, lo, hi) = Part(new, lo, hi)
      BY <2>2, <3>3, StatusOpen
    <3> QED  BY <3>2, <3>3, <3>4
  <2>4. HasRead(lo)'
    BY <2>1 DEF Window, HasRead, RenameIncoming, sender, others, Ended, IInv, EndsInv, ReceiverInv
  <2>5. Facts(hi)'
    BY <2>1 DEF Window, Facts, RenameIncoming, sender, others, Ended, IInv, EndsInv, ReceiverInv
  <2>6. link' /\ rpc' # "killed" /\ spc' \notin Ended => HasWritten(hi)'
    BY <2>1 DEF Window, HasWritten, RenameIncoming, sender, others, Ended, IInv, EndsInv, ReceiverInv
  <2>7. link' /\ spc' \in {"ready", "rename", "go"} => hi <= 2
    BY <2>1 DEF Window, RenameIncoming, sender, others
  <2> QED  BY <2>3, <2>4, <2>5, <2>6, <2>7 DEF Window, ToSrcInv
<1> QED  BY <1>1, <1>2, <1>3, <1>4, <1>5, <1>6, <1>7 DEF IInv, EndsInv

LEMMA UnpauseStep == ASSUME IInv, Unpause PROVE IInv'
<1>1. PcsInv'
  BY DEF IInv, EndsInv, Unpause, sender, others, PcsInv, Ended, ReceiverInv
<1>2. FlagsInv'
  BY DEF IInv, EndsInv, Unpause, sender, others, FlagsInv
<1>3. ToDstInv'
  BY DEF IInv, EndsInv, Unpause, sender, others, ToDstInv, Ended
<1>4. GoInv'
  BY DEF IInv, EndsInv, Unpause, sender, others, GoInv, Going, Ended
<1>5. SenderInv'
  BY DEF IInv, EndsInv, Unpause, sender, others, SenderInv, Ended, ReceiverInv
<1>6. ReceiverInv' /\ FaultInv'
  BY DEF IInv, EndsInv, Unpause, sender, others, ReceiverInv, FaultInv, Ended
<1>7. ToSrcInv'
  <2>1. PICK lo \in 0..5, hi \in 0..5 : Window(lo, hi)
    BY DEF IInv, ToSrcInv
  <2>2. hi \in 0..3
    BY <2>1 DEF Window, Facts, Unpause, Ended
  <2>3. lo <= hi /\ hi <= lo + 3 /\ to_src' = Part(Status', lo, hi)
    <3>1. PICK old : old = Status
      OBVIOUS
    <3>2. PICK new : new = Status'
      OBVIOUS
    <3>3. lo <= hi /\ hi <= lo + 3 /\ to_src' = Part(old, lo, hi)
      BY <2>1, <3>1 DEF Window, Unpause, sender, others
    <3>4. Part(old, lo, hi) = Part(new, lo, hi)
      BY <2>2, <3>3, StatusOpen
    <3> QED  BY <3>2, <3>3, <3>4
  <2>4. HasRead(lo)'
    BY <2>1 DEF Window, HasRead, Unpause, sender, others, Ended, IInv, EndsInv, ReceiverInv
  <2>5. Facts(hi)'
    BY <2>1 DEF Window, Facts, Unpause, sender, others, Ended, IInv, EndsInv, ReceiverInv
  <2>6. link' /\ rpc' # "killed" /\ spc' \notin Ended => HasWritten(hi)'
    BY <2>1 DEF Window, HasWritten, Unpause, sender, others, Ended, IInv, EndsInv, ReceiverInv
  <2>7. link' /\ spc' \in {"ready", "rename", "go"} => hi <= 2
    BY <2>1 DEF Window, Unpause, sender, others
  <2> QED  BY <2>3, <2>4, <2>5, <2>6, <2>7 DEF Window, ToSrcInv
<1> QED  BY <1>1, <1>2, <1>3, <1>4, <1>5, <1>6, <1>7 DEF IInv, EndsInv

LEMMA WriteReportStep == ASSUME IInv, WriteReport PROVE IInv'
<1>1. PcsInv'
  BY DEF IInv, EndsInv, WriteReport, sender, others, Write, PcsInv, Ended
<1>2. FlagsInv'
  BY DEF IInv, EndsInv, WriteReport, sender, others, Write, FlagsInv
<1>3. ToDstInv'
  BY DEF IInv, EndsInv, WriteReport, sender, others, Write, ToDstInv, Ended
<1>4. GoInv'
  BY DEF IInv, EndsInv, WriteReport, sender, others, Write, GoInv, Going, Ended
<1>5. SenderInv'
  BY DEF IInv, EndsInv, WriteReport, sender, others, Write, SenderInv, Ended, ReceiverInv
<1>6. ReceiverInv' /\ FaultInv'
  BY DEF IInv, EndsInv, WriteReport, sender, others, Write, ReceiverInv, FaultInv, Ended, PcsInv
<1>7. ToSrcInv'
  <2>1. PICK lo \in 0..5, hi \in 0..5 : Window(lo, hi)
    BY DEF IInv, ToSrcInv
  <2>2. PICK status : status = Status
    OBVIOUS
  <2>3. Status' = Status
    BY DEF WriteReport, Status
  <2>4. lo <= hi /\ to_src = Part(status, lo, hi) /\ hi <= lo + 3 /\ HasRead(lo)'
    BY <2>1, <2>2 DEF Window, HasRead, WriteReport, sender, others, Write, Ended
  <2>5. CASE SrcGone
    <3>1. to_src' = to_src /\ ~(link' /\ spc' \notin Ended)
      BY <2>5 DEF WriteReport, sender, others, Write, WriteSrc, SrcGone
    <3>2. Facts(hi)'
      BY <2>1 DEF Window, Facts, WriteReport, sender, others, Write, Ended
    <3>3. link' /\ spc' \in {"ready", "rename", "go"} => hi <= 2
      BY <3>1 DEF Ended
    <3> QED  BY <2>2, <2>3, <2>4, <3>1, <3>2, <3>3 DEF Window, ToSrcInv
  <2>6. CASE ~SrcGone
    <3>1. hi = 2
      BY <2>1, <2>6 DEF Window, HasWritten, SrcGone, WriteReport, Ended
    <3>2. 2 + 1 <= lo + 3
      BY <2>1, <2>6, <3>1 DEF Window, HasRead, SrcGone, WriteReport, Ended, IInv, EndsInv, ToDstInv, SenderInv, ReceiverInv
    <3>3. to_src' = Append(Part(status, lo, 2), "report") /\ rpc' = "status"
      BY <2>4, <2>6, <3>1 DEF WriteReport, sender, others, Write, WriteSrc
    <3>4. Script(status)[2 + 1] = "report"
      BY <2>2, Words
    <3>5. to_src' = Part(status, lo, 3)
      <4>1. 2 \in 0..4 /\ lo <= 2 /\ 2 + 1 = 3
        BY <2>4, <3>1
      <4>2. Append(Part(status, lo, 2), Script(status)[2 + 1]) = Part(status, lo, 2 + 1)
        BY <4>1, PartWrite
      <4> QED  BY <3>3, <3>4, <4>1, <4>2
    <3>6. Facts(3)' /\ HasWritten(3)'
      BY <2>6, <3>3 DEF Facts, HasWritten, SrcGone, WriteReport, sender, others, Write, Cleanup, Ended, IInv, EndsInv, ToDstInv, ReceiverInv, PcsInv
    <3>7. link' /\ spc' \in {"ready", "rename", "go"} => 3 <= 2
      BY DEF WriteReport, sender, others, Write, Ended, IInv, EndsInv, ToDstInv
    <3>8. Window(lo, 3)'
      BY <2>2, <2>3, <2>4, <3>1, <3>2, <3>5, <3>6, <3>7 DEF Window
    <3> QED  BY <3>8 DEF ToSrcInv
  <2> QED  BY <2>5, <2>6
<1> QED  BY <1>1, <1>2, <1>3, <1>4, <1>5, <1>6, <1>7 DEF IInv, EndsInv

LEMMA WriteStatusStep == ASSUME IInv, WriteStatus PROVE IInv'
<1>1. PcsInv'
  BY DEF IInv, EndsInv, WriteStatus, sender, others, Write, Cleanup, PcsInv, Ended
<1>2. FlagsInv'
  BY DEF IInv, EndsInv, WriteStatus, sender, others, Write, Cleanup, FlagsInv
<1>3. ToDstInv'
  BY DEF IInv, EndsInv, WriteStatus, sender, others, Write, Cleanup, ToDstInv, Ended
<1>4. GoInv'
  BY DEF IInv, EndsInv, WriteStatus, sender, others, Write, Cleanup, GoInv, Going, Ended
<1>5. SenderInv'
  BY DEF IInv, EndsInv, WriteStatus, sender, others, Write, Cleanup, SenderInv, Ended, ReceiverInv
<1>6. ReceiverInv' /\ FaultInv'
  BY DEF IInv, EndsInv, WriteStatus, sender, others, Write, Cleanup, ReceiverInv, FaultInv, Ended, PcsInv
<1>7. ToSrcInv'
  <2>1. PICK lo \in 0..5, hi \in 0..5 : Window(lo, hi)
    BY DEF IInv, ToSrcInv
  <2>2. PICK status : status = Status
    OBVIOUS
  <2>3. Status' = Status
    BY DEF WriteStatus, Status
  <2>4. lo <= hi /\ to_src = Part(status, lo, hi) /\ hi <= lo + 3 /\ HasRead(lo)'
    BY <2>1, <2>2 DEF Window, HasRead, WriteStatus, sender, others, Write, Cleanup, Ended
  <2>5. CASE SrcGone
    <3>1. to_src' = to_src /\ ~(link' /\ spc' \notin Ended)
      BY <2>5 DEF WriteStatus, sender, others, Write, Cleanup, WriteSrc, SrcGone
    <3>2. Facts(hi)'
      BY <2>1 DEF Window, Facts, WriteStatus, sender, others, Write, Cleanup, Ended
    <3>3. link' /\ spc' \in {"ready", "rename", "go"} => hi <= 2
      BY <3>1 DEF Ended
    <3> QED  BY <2>2, <2>3, <2>4, <3>1, <3>2, <3>3 DEF Window, ToSrcInv
  <2>6. CASE ~SrcGone
    <3>1. hi = 3
      BY <2>1, <2>6 DEF Window, HasWritten, SrcGone, WriteStatus, Ended
    <3>2. 3 + 1 <= lo + 3
      BY <2>1, <2>6, <3>1 DEF Window, HasRead, SrcGone, WriteStatus, Ended, IInv, EndsInv, ToDstInv, SenderInv, ReceiverInv
    <3>3. to_src' = Append(Part(status, lo, 3), Status) /\ rpc' = (IF rc = 0 THEN "exited" ELSE "destroy")
      BY <2>4, <2>6, <3>1 DEF WriteStatus, sender, others, Write, Cleanup, WriteSrc
    <3>4. Script(status)[3 + 1] = Status
      BY <2>2, Words
    <3>5. to_src' = Part(status, lo, 4)
      <4>1. 3 \in 0..4 /\ lo <= 3 /\ 3 + 1 = 4
        BY <2>4, <3>1
      <4>2. Append(Part(status, lo, 3), Script(status)[3 + 1]) = Part(status, lo, 3 + 1)
        BY <4>1, PartWrite
      <4> QED  BY <3>3, <3>4, <4>1, <4>2
    <3>6. Facts(4)' /\ HasWritten(4)'
      BY <2>6, <3>3 DEF Facts, HasWritten, SrcGone, WriteStatus, sender, others, Write, Cleanup, Cleanup, Ended, IInv, EndsInv, ToDstInv, ReceiverInv, PcsInv
    <3>7. link' /\ spc' \in {"ready", "rename", "go"} => 4 <= 2
      BY DEF WriteStatus, sender, others, Write, Cleanup, Ended, IInv, EndsInv, ToDstInv
    <3>8. Window(lo, 4)'
      BY <2>2, <2>3, <2>4, <3>1, <3>2, <3>5, <3>6, <3>7 DEF Window
    <3> QED  BY <3>8 DEF ToSrcInv
  <2> QED  BY <2>5, <2>6
<1> QED  BY <1>1, <1>2, <1>3, <1>4, <1>5, <1>6, <1>7 DEF IInv, EndsInv

LEMMA DestroyCopyStep == ASSUME IInv, DestroyCopy PROVE IInv'
<1>1. PcsInv'
  BY DEF IInv, EndsInv, DestroyCopy, sender, others, PcsInv, Ended
<1>2. FlagsInv'
  BY DEF IInv, EndsInv, DestroyCopy, sender, others, FlagsInv
<1>3. ToDstInv'
  BY DEF IInv, EndsInv, DestroyCopy, sender, others, ToDstInv, Ended
<1>4. GoInv'
  BY DEF IInv, EndsInv, DestroyCopy, sender, others, GoInv, Going, Ended
<1>5. SenderInv'
  BY DEF IInv, EndsInv, DestroyCopy, sender, others, SenderInv, Ended, ReceiverInv
<1>6. ReceiverInv' /\ FaultInv'
  BY DEF IInv, EndsInv, DestroyCopy, sender, others, ReceiverInv, FaultInv, Ended
<1>7. ToSrcInv'
  <2>1. PICK lo \in 0..5, hi \in 0..5 : Window(lo, hi)
    BY DEF IInv, ToSrcInv
  <2>2. Status' = Status
    BY DEF DestroyCopy, sender, others, Status
  <2>3. lo <= hi /\ hi <= lo + 3 /\ to_src' = Part(Status', lo, hi)
    BY <2>1, <2>2 DEF Window, DestroyCopy, sender, others
  <2>4. HasRead(lo)'
    BY <2>1 DEF Window, HasRead, DestroyCopy, sender, others, Ended, IInv, EndsInv, ReceiverInv
  <2>5. Facts(hi)'
    BY <2>1 DEF Window, Facts, DestroyCopy, sender, others, Ended, IInv, EndsInv, ReceiverInv
  <2>6. link' /\ rpc' # "killed" /\ spc' \notin Ended => HasWritten(hi)'
    BY <2>1 DEF Window, HasWritten, DestroyCopy, sender, others, Ended, IInv, EndsInv, ReceiverInv
  <2>7. link' /\ spc' \in {"ready", "rename", "go"} => hi <= 2
    BY <2>1 DEF Window, DestroyCopy, sender, others
  <2> QED  BY <2>3, <2>4, <2>5, <2>6, <2>7 DEF Window, ToSrcInv
<1> QED  BY <1>1, <1>2, <1>3, <1>4, <1>5, <1>6, <1>7 DEF IInv, EndsInv

LEMMA WritePermissionStep == ASSUME IInv, WritePermission PROVE IInv'
<1>1. PcsInv'
  BY DEF IInv, EndsInv, WritePermission, sender, others, Write, PcsInv, Ended
<1>2. FlagsInv'
  BY DEF IInv, EndsInv, WritePermission, sender, others, Write, FlagsInv
<1>3. ToDstInv'
  BY DEF IInv, EndsInv, WritePermission, sender, others, Write, ToDstInv, Ended
<1>4. GoInv'
  BY DEF IInv, EndsInv, WritePermission, sender, others, Write, GoInv, Going, Ended
<1>5. SenderInv'
  BY DEF IInv, EndsInv, WritePermission, sender, others, Write, SenderInv, Ended, ReceiverInv
<1>6. ReceiverInv' /\ FaultInv'
  BY DEF IInv, EndsInv, WritePermission, sender, others, Write, ReceiverInv, FaultInv, Ended, PcsInv
<1>7. ToSrcInv'
  <2>1. PICK lo \in 0..5, hi \in 0..5 : Window(lo, hi)
    BY DEF IInv, ToSrcInv
  <2>2. PICK status : status = Status
    OBVIOUS
  <2>3. Status' = Status
    BY DEF WritePermission, Status
  <2>4. lo <= hi /\ to_src = Part(status, lo, hi) /\ hi <= lo + 3 /\ HasRead(lo)'
    BY <2>1, <2>2 DEF Window, HasRead, WritePermission, sender, others, Write, Ended
  <2>5. CASE SrcGone
    <3>1. to_src' = to_src /\ ~(link' /\ spc' \notin Ended)
      BY <2>5 DEF WritePermission, sender, others, Write, WriteSrc, SrcGone
    <3>2. Facts(hi)'
      BY <2>1 DEF Window, Facts, WritePermission, sender, others, Write, Ended
    <3>3. link' /\ spc' \in {"ready", "rename", "go"} => hi <= 2
      BY <3>1 DEF Ended
    <3> QED  BY <2>2, <2>3, <2>4, <3>1, <3>2, <3>3 DEF Window, ToSrcInv
  <2>6. CASE ~SrcGone
    <3>1. hi = 4
      BY <2>1, <2>6 DEF Window, HasWritten, SrcGone, WritePermission, Ended
    <3>2. 4 + 1 <= lo + 3
      BY <2>1, <2>6, <3>1 DEF Window, HasRead, SrcGone, WritePermission, Ended, IInv, EndsInv, ToDstInv, SenderInv, ReceiverInv
    <3>3. to_src' = Append(Part(status, lo, 4), "permission") /\ rpc' = "exited"
      BY <2>4, <2>6, <3>1 DEF WritePermission, sender, others, Write, WriteSrc
    <3>4. Script(status)[4 + 1] = "permission"
      BY <2>2, Words
    <3>5. to_src' = Part(status, lo, 5)
      <4>1. 4 \in 0..4 /\ lo <= 4 /\ 4 + 1 = 5
        BY <2>4, <3>1
      <4>2. Append(Part(status, lo, 4), Script(status)[4 + 1]) = Part(status, lo, 4 + 1)
        BY <4>1, PartWrite
      <4> QED  BY <3>3, <3>4, <4>1, <4>2
    <3>6. Facts(5)' /\ HasWritten(5)'
      BY <2>6, <3>3 DEF Facts, HasWritten, SrcGone, WritePermission, sender, others, Write, Cleanup, Ended, IInv, EndsInv, ToDstInv, ReceiverInv, PcsInv
    <3>7. link' /\ spc' \in {"ready", "rename", "go"} => 5 <= 2
      BY DEF WritePermission, sender, others, Write, Ended, IInv, EndsInv, ToDstInv
    <3>8. Window(lo, 5)'
      BY <2>2, <2>3, <2>4, <3>1, <3>2, <3>5, <3>6, <3>7 DEF Window
    <3> QED  BY <3>8 DEF ToSrcInv
  <2> QED  BY <2>5, <2>6
<1> QED  BY <1>1, <1>2, <1>3, <1>4, <1>5, <1>6, <1>7 DEF IInv, EndsInv

-----------------------------------------------------------------------------
(* What goes wrong around them, and the invariant *)

LEMMA DstSeqs ==
  \A s \in {<<>>, <<"config">>, <<"config", "data">>, <<"go">>} : s \in Seq({"config", "data", "go"})
<1> DEFINE M == {"config", "data", "go"}
<1>1. \A e, f \in M : <<>> \in Seq(M) /\ <<e>> \in Seq(M) /\ <<e, f>> \in Seq(M)
  <2> HIDE DEF M
  <2> QED  OBVIOUS
<1> QED  BY <1>1

\* What is left of what was sent to the target.
LEMMA DstPrefixes ==
  ASSUME NEW s \in {<<>>, <<"config">>, <<"config", "data">>, <<"go">>}, NEW p \in Prefixes(s)
  PROVE  p = <<>> \/ p = s \/ (s = <<"config", "data">> /\ p = <<"config">>)
<1> DEFINE M == {"config", "data", "go"}
<1>1. s \in Seq(M) /\ Len(s) \in 0..2
  <2>2. s \in Seq(M)
    BY DstSeqs
  <2>3. Len(s) = 0 \/ Len(s) = 1 \/ Len(s) = 2
    BY DstWords
  <2> QED  BY <2>2, <2>3
<1>2. PICK n \in 0..Len(s) : p = SubSeq(s, 1, n)
  BY DEF Prefixes
<1>3. p \in Seq(M) /\ Len(p) = n /\ \A i \in 1..n : p[i] = s[i]
  <2> HIDE DEF M
  <2> QED  BY <1>1, <1>2
<1>4. CASE n = 0
  <2> HIDE DEF M
  <2> QED  BY <1>3, <1>4
<1>5. CASE n = Len(s)
  <2> HIDE DEF M
  <2>1. p = s
    BY <1>1, <1>3, <1>5, SeqEqual
  <2> QED  BY <2>1
<1>6. CASE n # 0 /\ n # Len(s)
  <2>1. n = 1 /\ Len(s) = 2
    BY <1>1, <1>2, <1>6
  <2>2. s = <<"config", "data">>
    BY <2>1, DstWords
  <2>3. p[1] = "config"
    BY <1>3, <2>1, <2>2
  <2>4. PICK c : c = <<"config">>
    OBVIOUS
  <2>5. c \in Seq(M) /\ Len(c) = 1 /\ c[1] = "config"
    BY <2>4
  <2>6. \A i \in 1..Len(p) : p[i] = c[i]
    <3>1. \A i \in 1..Len(p) : i = 1
      BY <1>3, <2>1
    <3> QED  BY <2>3, <2>5, <3>1
  <2>7. Len(p) = Len(c)
    BY <1>3, <2>1, <2>5
  <2>8. p = c
    <3> HIDE DEF M
    <3> QED  BY <1>3, <2>5, <2>6, <2>7, SeqEqual
  <2> QED  BY <2>2, <2>4, <2>8
<1> QED  BY <1>4, <1>5, <1>6

LEMMA KillSenderStep == ASSUME IInv, KillSender PROVE IInv'
<1>1. PcsInv'
  BY DEF IInv, EndsInv, KillSender, guest, pipes, PcsInv, Ended
<1>2. FlagsInv'
  BY DEF IInv, EndsInv, KillSender, guest, pipes, FlagsInv
<1>3. ToDstInv'
  BY DEF IInv, EndsInv, KillSender, guest, pipes, ToDstInv, Ended
<1>4. GoInv'
  BY DEF IInv, EndsInv, KillSender, guest, pipes, GoInv, Going, Ended
<1>5. SenderInv'
  BY DEF IInv, EndsInv, KillSender, guest, pipes, SenderInv, Ended
<1>6. ReceiverInv' /\ FaultInv'
  BY DEF IInv, EndsInv, KillSender, guest, pipes, ReceiverInv, FaultInv, Ended, FlagsInv
<1>7. ToSrcInv'
  <2>1. PICK lo \in 0..5, hi \in 0..5 : Window(lo, hi)
    BY DEF IInv, ToSrcInv
  <2>2. Status' = Status
    BY DEF KillSender, Status
  <2>3. HasRead(lo)' /\ Facts(hi)'
    BY <2>1 DEF Window, HasRead, Facts, KillSender, guest, pipes, Ended
  <2>4. /\ link' /\ rpc' # "killed" /\ spc' \notin Ended => HasWritten(hi)'
        /\ link' /\ spc' \in {"ready", "rename", "go"} => hi <= 2
    BY <2>1 DEF Window, HasWritten, KillSender, guest, pipes, Ended
  <2> QED  BY <2>1, <2>2, <2>3, <2>4 DEF Window, ToSrcInv, KillSender, guest, pipes
<1> QED  BY <1>1, <1>2, <1>3, <1>4, <1>5, <1>6, <1>7 DEF IInv, EndsInv

LEMMA KillReceiverStep == ASSUME IInv, KillReceiver PROVE IInv'
<1>1. PcsInv'
  BY DEF IInv, EndsInv, KillReceiver, guest, pipes, PcsInv, Ended
<1>2. FlagsInv'
  BY DEF IInv, EndsInv, KillReceiver, guest, pipes, FlagsInv
<1>3. ToDstInv'
  BY DEF IInv, EndsInv, KillReceiver, guest, pipes, ToDstInv, Ended
<1>4. GoInv'
  BY DEF IInv, EndsInv, KillReceiver, guest, pipes, GoInv, Going, Ended
<1>5. SenderInv'
  BY DEF IInv, EndsInv, KillReceiver, guest, pipes, SenderInv, Ended
<1>6. ReceiverInv' /\ FaultInv'
  BY DEF IInv, EndsInv, KillReceiver, guest, pipes, ReceiverInv, FaultInv, Ended, FlagsInv
<1>7. ToSrcInv'
  <2>1. PICK lo \in 0..5, hi \in 0..5 : Window(lo, hi)
    BY DEF IInv, ToSrcInv
  <2>2. Status' = Status
    BY DEF KillReceiver, Status
  <2>3. HasRead(lo)' /\ Facts(hi)'
    BY <2>1 DEF Window, HasRead, Facts, KillReceiver, guest, pipes, Ended
  <2>4. /\ link' /\ rpc' # "killed" /\ spc' \notin Ended => HasWritten(hi)'
        /\ link' /\ spc' \in {"ready", "rename", "go"} => hi <= 2
    BY <2>1 DEF Window, HasWritten, KillReceiver, guest, pipes, Ended
  <2> QED  BY <2>1, <2>2, <2>3, <2>4 DEF Window, ToSrcInv, KillReceiver, guest, pipes
<1> QED  BY <1>1, <1>2, <1>3, <1>4, <1>5, <1>6, <1>7 DEF IInv, EndsInv

LEMMA BreakStep == ASSUME IInv, Break PROVE IInv'
<1>1. PcsInv'
  BY DEF IInv, EndsInv, Break, guest, PcsInv, Ended
<1>2. FlagsInv'
  BY DEF IInv, EndsInv, Break, guest, FlagsInv
<1>3. ToDstInv'
  <2>1. to_dst' = <<>> \/ to_dst' = to_dst \/ (to_dst = <<"config", "data">> /\ to_dst' = <<"config">>)
    BY DstPrefixes DEF IInv, EndsInv, Break, ToDstInv
  <2>2. ~link' /\ UNCHANGED <<spc, rpc, rc, closed>>
    BY DEF Break
  <2> QED  BY <2>1, <2>2, DstWords DEF IInv, EndsInv, ToDstInv, Ended
<1>4. GoInv'
  <2>1. to_dst' = <<"go">> => to_dst = <<"go">>
    BY DstPrefixes, DstWords DEF IInv, EndsInv, Break, ToDstInv
  <2> QED  BY <2>1 DEF IInv, EndsInv, Break, guest, GoInv, Going, Ended
<1>5. SenderInv'
  BY DEF IInv, EndsInv, Break, guest, SenderInv, Ended
<1>6. ReceiverInv' /\ FaultInv'
  BY DEF IInv, EndsInv, Break, guest, ReceiverInv, FaultInv, Ended
<1>7. ToSrcInv'
  <2>1. PICK lo \in 0..5, hi \in 0..5 : Window(lo, hi)
    BY DEF IInv, ToSrcInv
  <2>2. PICK status : status = Status
    OBVIOUS
  <2>3. PICK pipe : pipe = to_src'
    OBVIOUS
  <2>4. lo <= hi /\ pipe \in Prefixes(Part(status, lo, hi))
    BY <2>1, <2>2, <2>3 DEF Window, Break
  <2>5. PICK h \in lo..hi : pipe = Part(status, lo, h)
    BY <2>4, PartPrefix
  <2>6. Status' = Status
    BY DEF Break, Status
  <2>7. h \in 0..5 /\ lo <= h /\ h <= hi /\ h <= lo + 3
    <3>1. hi <= lo + 3
      BY <2>1 DEF Window
    <3> QED  BY <2>4, <2>5, <3>1
  <2>8. HasRead(lo)' /\ ~link'
    BY <2>1 DEF Window, HasRead, Break, guest, Ended
  <2>9. \A n \in 1..5 : h >= n => hi >= n
    BY <2>7
  <2>10. Facts(hi)
    BY <2>1 DEF Window
  <2>11. Facts(h)'
    BY <2>9, <2>10 DEF Facts, Break, guest, Ended
  <2> QED  BY <2>2, <2>3, <2>5, <2>6, <2>7, <2>8, <2>11 DEF Window, ToSrcInv
<1> QED  BY <1>1, <1>2, <1>3, <1>4, <1>5, <1>6, <1>7 DEF IInv, EndsInv

LEMMA StutterStep == ASSUME IInv, UNCHANGED vars PROVE IInv'
<1>1. PcsInv' /\ GoInv'
  BY DEF IInv, EndsInv, vars, guest, pipes, PcsInv, GoInv, Going, Ended
<1>2. FlagsInv'
  BY DEF IInv, EndsInv, vars, pipes, FlagsInv
<1>3. ToDstInv'
  BY DEF IInv, EndsInv, vars, guest, pipes, ToDstInv, Ended
<1>4. SenderInv' /\ ReceiverInv' /\ FaultInv'
  BY DEF IInv, EndsInv, vars, guest, pipes, SenderInv, ReceiverInv, FaultInv, Ended
<1>5. ToSrcInv'
  <2>1. PICK lo \in 0..5, hi \in 0..5 : Window(lo, hi)
    BY DEF IInv, ToSrcInv
  <2>2. Window(lo, hi)'
    BY <2>1 DEF Window, HasRead, Facts, HasWritten, Status, Ended, vars, guest, pipes
  <2> QED  BY <2>2 DEF ToSrcInv
<1> QED  BY <1>1, <1>2, <1>3, <1>4, <1>5 DEF IInv, EndsInv

LEMMA InitIInv == ASSUME Init PROVE IInv
<1>1. PcsInv /\ GoInv
  BY DstWords DEF Init, PcsInv, GoInv, Going, Ended
<1>2. FlagsInv
  BY DEF Init, FlagsInv
<1>3. ToDstInv
  BY DstWords DEF Init, ToDstInv, Ended
<1>4. SenderInv /\ ReceiverInv /\ FaultInv
  BY DEF Init, SenderInv, ReceiverInv, FaultInv, Ended
<1>5. ToSrcInv
  <2>1. PICK status : status = Status
    OBVIOUS
  <2>2. 0 \in 0..5 /\ 0 <= 0
    OBVIOUS
  <2>3. Part(status, 0, 0) = <<>>
    BY <2>2, PartEmpty
  <2>4. Window(0, 0)
    BY <2>1, <2>3 DEF Init, Window, HasRead, Facts, HasWritten, Ended
  <2> QED  BY <2>4 DEF ToSrcInv
<1> QED  BY <1>1, <1>2, <1>3, <1>4, <1>5 DEF IInv, EndsInv

THEOREM Invariant == Spec => []IInv
<1>1. Init => IInv
  BY InitIInv
<1>2. IInv /\ [Next]_vars => IInv'
  <2> SUFFICES ASSUME IInv, [Next]_vars PROVE IInv'
    OBVIOUS
  <2>1. CASE Sender
    BY <2>1, ReadBannerStep, WriteConfigStep, SuspendStep, ReadReadyStep, FailedResumeStep,
       RenameAwayStep, WriteGoStep, ReadReportStep, ReadStatusStep, ReadPermissionStep,
       DestroySourceStep DEF Sender
  <2>2. CASE Receiver
    BY <2>2, WriteBannerStep, CreateStep, CreateUnlockedStep, WriteReadyStep, ReadGoStep,
       RenameIncomingStep, UnpauseStep, WriteReportStep, WriteStatusStep, DestroyCopyStep,
       WritePermissionStep DEF Receiver
  <2>3. CASE KillSender \/ KillReceiver \/ Break
    BY <2>3, KillSenderStep, KillReceiverStep, BreakStep
  <2>4. CASE Over \/ UNCHANGED vars
    BY <2>4, StutterStep DEF Over
  <2> QED  BY <2>1, <2>2, <2>3, <2>4 DEF Next
<1> QED  BY <1>1, <1>2, PTL DEF Spec

-----------------------------------------------------------------------------
LEMMA InvariantGivesTypeOK == IInv => TypeOK
<1> SUFFICES ASSUME IInv PROVE TypeOK
  OBVIOUS
<1>1. /\ src \in {"running", "suspended", "gone"} /\ src_name \in {"own", "away"}
      /\ dst \in {"none", "paused", "running", "gone"}
      /\ dst_name \in {"none", "incoming", "own"}
      /\ s_exit \in {"none", "ok", "fail", "badfail"}
      /\ rc \in {0, 1}
  BY DEF IInv, EndsInv, PcsInv
<1>2. (dst = "none") = (dst_name = "none") /\ (s_exit # "none") = (spc = "exited")
  BY DEF IInv, EndsInv, PcsInv
<1>3. closed \in BOOLEAN /\ link \in BOOLEAN /\ faults \in BOOLEAN
  BY DEF IInv, EndsInv, FlagsInv
<1>4. Len(to_dst) <= 2 /\ \A k \in DOMAIN to_dst : to_dst[k] \in {"config", "data", "go"}
  <2>1. to_dst \in {<<>>, <<"config">>, <<"config", "data">>, <<"go">>}
    BY DEF IInv, EndsInv, ToDstInv
  <2>2. Len(to_dst) = 0 \/ Len(to_dst) = 1 \/ Len(to_dst) = 2
    BY <2>1, DstWords
  <2>3. to_dst \in Seq({"config", "data", "go"})
    BY <2>1, DstSeqs
  <2>4. \A k \in DOMAIN to_dst : to_dst[k] \in {"config", "data", "go"}
    BY <2>3
  <2>5. Len(to_dst) <= 2
    <3>1. \A n \in {0, 1, 2} : n <= 2
      OBVIOUS
    <3> QED  BY <2>2, <3>1
  <2> QED  BY <2>4, <2>5
<1>5. Len(to_src) <= 3 /\ \A k \in DOMAIN to_src : to_src[k] \in {"banner", "ready", "report", "permission", "zero", "nonzero"}
  <2>1. PICK lo \in 0..5, hi \in 0..5 : Window(lo, hi)
    BY DEF IInv, ToSrcInv
  <2>2. PICK status : status = Status
    OBVIOUS
  <2>3. lo <= hi /\ hi <= lo + 3 /\ to_src = Part(status, lo, hi)
    BY <2>1, <2>2 DEF Window
  <2>4. to_src \in Seq(Said(status)) /\ Len(to_src) = hi - lo
    BY <2>3, PartIs
  <2>5. Said(status) \subseteq {"banner", "ready", "report", "permission", "zero", "nonzero"}
    <3>1. \A n \in 1..5 : n = 1 \/ n = 2 \/ n = 3 \/ n = 4 \/ n = 5
      OBVIOUS
    <3>2. status \in {"zero", "nonzero"}
      BY <2>2 DEF Status
    <3> QED  BY <3>1, <3>2 DEF Said, Script
  <2>6. \A k \in DOMAIN to_src : to_src[k] \in Said(status)
    BY <2>4
  <2> QED  BY <2>3, <2>4, <2>5, <2>6
<1> QED  BY <1>1, <1>2, <1>3, <1>4, <1>5 DEF TypeOK

\* Whatever is killed, lost or fails, the two ends never both run the guest, and the one that
\* the target runs has the name to itself (xl_cmdimpl.c:2635-2637, 2718).
THEOREM OneGuestAlways == Spec => []OneGuest
<1>1. IInv => NoTwoRunning /\ RenamedWhenStarted
  BY DEF IInv, EndsInv, GoInv, Going, NoTwoRunning, RenamedWhenStarted
<1> QED  BY <1>1, InvariantGivesTypeOK, Invariant, PTL DEF OneGuest

\* The exit status of xl migrate tells where the guest runs (xl_cmdimpl.c:2692-2724): after
\* success at the target only, where the source may be left with a suspended copy if Xen did
\* not destroy it (libxl.c:753-762), and after an ordinary failure at the source only.
THEOREM SenderHonestAlways == Spec => []SenderHonest
<1>1. IInv => SenderHonest
  BY DEF IInv, EndsInv, SenderInv, GoInv, Going, SenderHonest
<1> QED  BY <1>1, Invariant, PTL

\* While no process is killed and the connection stays up, no failure of a call at either end
\* loses the guest (xl_cmdimpl.c:2551-2832).
THEOREM GuestSurvivesAlways == Spec => []GuestSurvives
<1>1. IInv => GuestSurvives
  <2> SUFFICES ASSUME IInv, spc \in Ended, ~faults, resumable PROVE "running" \in {src, dst}
    BY DEF GuestSurvives
  <2>1. spc = "exited" /\ s_exit # "badfail"
    BY DEF IInv, EndsInv, FaultInv, Ended
  <2>2. s_exit = "ok" \/ s_exit = "fail"
    BY <2>1 DEF IInv, EndsInv, PcsInv
  <2> QED  BY <2>2 DEF IInv, EndsInv, SenderInv
<1> QED  BY <1>1, Invariant, PTL

\* A migration is a handover of the guest: every step of either process, every death and every
\* break is a step of Handover, or leaves both copies as they are (xl_cmdimpl.c:2672-2698).
THEOREM MigrationImplementsHandover == Spec => ImplementsHandover
<1> DEFINE same == UNCHANGED <<src, dst>>
<1>1. Init => Copies!Init
  BY DEF Init, Copies!Init
<1>2. ASSUME IInv, Next PROVE Copies!Next \/ same
  <2>1. CASE ReadBanner \/ WriteConfig \/ ReadReady \/ RenameAway \/ WriteGo \/ ReadReport \/ ReadStatus
    BY <2>1 DEF ReadBanner, WriteConfig, ReadReady, RenameAway, WriteGo, ReadReport, ReadStatus, receiver
  <2>2. CASE Suspend
    <3>1. src = "running" /\ dst # "running"
      BY <1>2, <2>2 DEF Suspend, IInv, EndsInv, SenderInv, GoInv, Going
    <3> QED  BY <2>2, <3>1 DEF Suspend, receiver, Copies!Next, Copies!Suspend
  <2>3. CASE FailedResume
    <3>1. dst # "running"
      BY <1>2, <2>3 DEF FailedResume, IInv, EndsInv, GoInv, Going, Ended
    <3> QED  BY <2>3, <3>1 DEF FailedResume, Resume, receiver, Copies!Next, Copies!Resume
  <2>4. CASE ReadPermission
    <3>1. dst # "running"
      BY <1>2, <2>4 DEF ReadPermission, IInv, EndsInv, SenderInv, ReceiverInv
    <3> QED  BY <2>4, <3>1 DEF ReadPermission, Resume, receiver, Copies!Next, Copies!Resume
  <2>5. CASE DestroySource
    <3>1. src = "suspended" /\ dst = "running"
      BY <1>2, <2>5 DEF DestroySource, IInv, EndsInv, SenderInv
    <3> QED  BY <2>5, <3>1 DEF DestroySource, receiver, Copies!Next, Copies!DestroySource
  <2>6. CASE WriteBanner \/ CreateUnlocked \/ WriteReady \/ ReadGo \/ RenameIncoming \/ WriteReport \/ WriteStatus \/ WritePermission
    BY <2>6 DEF WriteBanner, CreateUnlocked, WriteReady, ReadGo, RenameIncoming, WriteReport, WriteStatus, WritePermission, sender
  <2>7. CASE Create
    <3>1. dst = "none"
      BY <1>2, <2>7 DEF Create, IInv, EndsInv, ReceiverInv
    <3> QED  BY <2>7, <3>1 DEF Create, sender, Copies!Next, Copies!Restore
  <2>8. CASE Unpause
    <3>1. dst = "paused" /\ src # "running" /\ src # "gone"
      BY <1>2, <2>8 DEF Unpause, IInv, EndsInv, ReceiverInv, GoInv, Going, SenderInv
    <3>2. src = "suspended"
      BY <1>2, <3>1 DEF IInv, EndsInv, PcsInv
    <3> QED  BY <2>8, <3>1, <3>2 DEF Unpause, sender, Copies!Next, Copies!Start
  <2>9. CASE DestroyCopy
    <3>1. dst \in {"none", "paused"}
      BY <1>2, <2>9 DEF DestroyCopy, IInv, EndsInv, ReceiverInv
    <3> QED  BY <2>9, <3>1 DEF DestroyCopy, sender, Copies!Next, Copies!DiscardTarget
  <2>10. CASE KillSender \/ KillReceiver \/ Break \/ Over
    BY <2>10 DEF KillSender, KillReceiver, Break, Over, guest, vars
  <2> QED  BY <1>2, <2>1, <2>2, <2>3, <2>4, <2>5, <2>6, <2>7, <2>8, <2>9, <2>10 DEF Next, Sender, Receiver
<1>3. UNCHANGED vars => same
  BY DEF vars, guest
<1>4. IInv /\ [Next]_vars => [Copies!Next]_(Copies!copies)
  BY <1>2, <1>3 DEF Copies!copies
<1> QED  BY <1>1, <1>4, Invariant, PTL DEF Spec, ImplementsHandover, Copies!Spec

=============================================================================

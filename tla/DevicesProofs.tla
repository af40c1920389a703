---------------------------- MODULE DevicesProofs ----------------------------
(* The theorems about the devices of a guest, for any disks, interfaces and
   specifications of disks.  A device is found again because a directory of its
   backend says in its type where it is; a connected backend is never replaced
   because interfaces are numbered upwards; and an image is opened by the driver
   that was named because the tables agree. *)
EXTENDS Devices, TLAPS, FiniteSetTheorems

Mediums == Media \cup {NoDisk} \cup {EjectedDisk(b) : b \in DiskDirs}
Formats == {"raw", "vhd", "preservation", "qcow", "qcow2", "empty", "unknown"}
Numbers == 0..MaxNic

BackRec ==
  [state : {0, 1, 4, 5, 6}, type : {"phy", "tap", "qdisk", None}, image : Specs \cup {None},
   tapdisk : {NoDriver} \cup {DriverOf(FormatName(f)) : f \in Formats}]
CmdRec ==
  [pc : {"idle", "wait_once", "remove", "insert", "destroy"}, dev : Devs, medium : Mediums,
   todo : SUBSET Dirs, n : Nat, at : Dirs \cup {<<>>}, seen : {0, 1, 4, 5, 6}]

\* Interfaces are numbered upwards.
Increasing(list) == \A i, j \in DOMAIN list : i < j => list[i] < list[j]
NicsInv ==
  /\ nics \in [Nets -> [dir : BOOLEAN, list : Seq(Numbers)]]
  /\ \A k \in Nets :
       /\ Increasing(nics[k].list)
       /\ \A n \in Numbers :
            Attached(<<k, n>>) <=> \E i \in DOMAIN nics[k].list : nics[k].list[i] = n

FrontInv ==
  /\ front \in [Devs -> Dirs \cup {<<>>}]
  /\ \A d \in Devs : Attached(d) => front[d][2] = d

\* A disk in directory "vbd" has the type "phy", and no other.  An image is open
\* with the driver it names.
BackInv ==
  /\ back \in [Dirs -> BackRec]
  /\ \A b \in DiskDirs : Exists(b) => (b[1] = "vbd" <=> back[b].type = "phy")
  /\ OpenedAsNamed

WatchInv ==
  /\ IsFiniteSet(watches) /\ watches \subseteq Dirs /\ events \subseteq watches
  /\ cmd.pc = "idle" => watches = {}
  /\ cmd.pc = "destroy" =>
       /\ cmd.todo \cap watches = {} /\ cmd.at \notin watches \cup cmd.todo
       /\ cmd.n <= Cardinality(watches)

Deleting == cmd.pc \in {"wait_once", "remove"}

\* A backend whose state was read stays, or stays away.
Examining ==
  cmd.at # <<>> => cmd.pc \in {"wait_once", "destroy"} /\ (cmd.seen # 0 <=> Exists(cmd.at))

\* A command on one device has to do with its backend only, which will not be
\* connected again once it was told or removed; when it inserts a medium, the drive
\* has no device.
CmdInv ==
  /\ cmd \in CmdRec /\ (cmd.pc # "destroy" => cmd.n = 0) /\ Examining
  /\ Deleting =>
       /\ guest = "up" /\ Attached(cmd.dev) /\ watches \subseteq cmd.todo
       /\ \E dir \in Dirs :
            /\ dir[2] = cmd.dev /\ cmd.todo = {dir}
            /\ cmd.at = dir \/ (cmd.at = <<>> /\ back[dir].state \in {0, 5, 6})
       /\ \A b \in DiskDirs :
            b[2] = cmd.dev /\ Exists(b) /\ b[1] # "qdisk" /\ b[2] \notin over => b \in cmd.todo
       /\ cmd.medium # NoDisk => cmd.dev = CD
  /\ cmd.pc = "insert" => guest = "up" /\ cmd.dev = CD /\ ~Attached(CD) /\ cmd.medium # NoDisk
  /\ cmd.pc = "destroy" => guest = "paused"

\* Where the backends are, but for the device that is being taken away.
MatchInv ==
  guest = "up" =>
    /\ \A b \in DiskDirs :
         Exists(b) /\ b[1] # "qdisk" /\ b[2] \notin over
           => front[b[2]] = b \/ (Deleting /\ b[2] = cmd.dev)
    /\ \A d \in Devs : Attached(d) => Exists(front[d]) \/ (Deleting /\ d = cmd.dev)

RestInv ==
  /\ driver \subseteq Dirs /\ guest \in {"new", "up", "paused", "gone"} /\ left \in 0..MaxCommand
  /\ over \subseteq Devs
  /\ guest = "new" =>
       /\ cmd.pc = "idle"
       /\ (\A d \in Devs : ~Attached(d)) /\ (\A b \in Dirs : ~Exists(b))

IInv == FrontInv /\ NicsInv /\ BackInv /\ WatchInv /\ CmdInv /\ MatchInv /\ RestInv

-----------------------------------------------------------------------------
(* Devices and directories *)

LEMMA DevFacts ==
  /\ CD \in Devs /\ Fixed \subseteq Devs
  /\ \A d \in Devs : d = <<d[1], d[2]>>
  /\ \A k \in Nets, n \in Numbers : <<k, n>> \in Devs /\ <<k, n>> \notin Fixed /\ <<k, n>>[1] # "vbd"
  /\ \A n \in Disks : <<"vbd", n>> \in Devs /\ <<"vbd", n>> \notin Fixed
<1>1. CD \in Devs /\ Fixed \subseteq Devs
  BY DEF Devs, Fixed
<1>2. \A d \in Devs : d = <<d[1], d[2]>>
  BY DEF Devs, Fixed, CD
<1>3. ASSUME NEW k \in Nets, NEW n \in Numbers
      PROVE  <<k, n>> \in Devs /\ <<k, n>> \notin Fixed /\ <<k, n>>[1] # "vbd"
  <2>1. k \in {"vif", "vif2"} /\ k # "vbd" /\ k \notin Consoles
    BY DevicesAssumption
  <2> QED  BY <2>1 DEF Devs, Fixed, CD, Numbers
<1>4. ASSUME NEW n \in Disks PROVE <<"vbd", n>> \in Devs /\ <<"vbd", n>> \notin Fixed
  <2>1. n # 0 /\ "vbd" \notin Consoles
    BY DevicesAssumption
  <2> QED  BY <2>1 DEF Devs, Fixed, CD
<1> QED  BY <1>1, <1>2, <1>3, <1>4

LEMMA DirFacts ==
  /\ DiskDirs \subseteq Dirs
  /\ \A b \in Dirs : b = <<b[1], b[2]>> /\ b[2] \in Devs /\ b # <<>>
  /\ \A b \in DiskDirs : b[1] \in {"vbd", "tap", "qdisk"} /\ b[2][1] = "vbd"
  /\ \A d \in Devs : <<d[1], d>> \in Dirs
  /\ \A d \in Devs : d[1] = "vbd" => \A w \in {"vbd", "tap", "qdisk"} : <<w, d>> \in DiskDirs
  /\ \A b \in Dirs : b[2][1] = "vbd" => b \in DiskDirs
BY DEF Dirs, DiskDirs

-----------------------------------------------------------------------------
(* What a specification of a disk becomes *)

\* The three types of image that tapdisk serves have a driver of their name, and
\* what has no type has none.
LEMMA Drivers3 ==
  /\ \A name \in {"aio", "vhd", "preservation"} : DriverOf(name) = name
  /\ DriverOf("(null)") = NoDriver
<1>1. TypeNumbers = {0, 1, 2, 3, 4, 5, 6, 7, 8, 9, 10, 11}
  BY DEF TypeNumbers
<1>2. /\ DiskDriver(0) = "aio" /\ DiskDriver(4) = "vhd" /\ DiskDriver(10) = "preservation"
      /\ NoDriver \notin {"aio", "vhd", "preservation"}
  BY DEF DiskDriver, NoDriver
<1>3. \A i \in TypeNumbers : /\ TypeName(i) = "aio" <=> i = 0
                             /\ TypeName(i) = "vhd" <=> i = 4
                             /\ TypeName(i) = "preservation" <=> i = 10
                             /\ TypeName(i) # "(null)"
  BY <1>1 DEF TypeName
<1>4. Find("aio") = {0}
  BY <1>1, <1>2, <1>3 DEF Find
<1>5. Find("vhd") = {4}
  BY <1>1, <1>2, <1>3 DEF Find
<1>6. Find("preservation") = {10}
  BY <1>1, <1>2, <1>3 DEF Find
<1>7. Find("(null)") = {}
  BY <1>3 DEF Find
<1> QED  BY <1>2, <1>4, <1>5, <1>6, <1>7 DEF DriverOf

\* A disk whose format is that of its image, or unknown.
GoodDisk(disk) ==
  /\ disk.backend \in {"phy", "tap", "qdisk"} /\ disk.format \in Formats
  /\ disk.image \in Specs \cup {None}
  /\ disk.backend = "tap" /\ disk.format # "empty" =>
       /\ disk.format \in {"raw", "vhd", "preservation", "unknown"}
       /\ disk.format # "unknown" => NamedDriver(disk.image) = FormatName(disk.format)
  /\ ~(disk.backend = "tap" /\ disk.format # "empty") => NamedDriver(disk.image) = NoDriver

\* Tapdisk is asked for a driver that it has.
Served(disk) == OnTapdisk(disk) => disk.format # "unknown"

LEMMA ParsedGood ==
  ASSUME NEW spec \in Specs
  PROVE  GoodDisk(ParseDisk(spec)) /\ ParseDisk(spec).format # "unknown"
<1>1. spec \in {"", "phy", "file", "tap", "tap:aio", "tap:raw", "tap:vhd", "tap:qcow", "tap:qcow2",
               "tap:preservation", "no colon"}
  BY DevicesAssumption
<1> QED  BY <1>1 DEF ParseDisk, Disk, GoodDisk, Formats, NamedDriver, FormatName

LEMMA AttachedGood ==
  ASSUME NEW spec \in Specs,
         spec \in {"phy", "file", "tap:aio", "tap:vhd", "tap:qcow", "tap:qcow2"}
  PROVE  GoodDisk(AttachedDisk(spec))
<1>1. CASE spec \in {"phy", "file", "tap:aio"}
  <2>1. AttachedDisk(spec) = [ParseDisk(spec) EXCEPT !.format = "unknown"]
    BY <1>1 DEF AttachedDisk
  <2>2. /\ AttachedDisk(spec).format = "unknown" /\ AttachedDisk(spec).image = spec
        /\ AttachedDisk(spec).backend = IF spec = "phy" THEN "phy" ELSE "tap"
    BY <1>1, <2>1 DEF ParseDisk, Disk
  <2> QED  BY <1>1, <2>2 DEF GoodDisk, Formats, NamedDriver
<1>2. CASE spec \notin {"phy", "file", "tap:aio"}
  <2>1. AttachedDisk(spec) = ParseDisk(spec)
    BY <1>2 DEF AttachedDisk
  <2> QED  BY <2>1, ParsedGood
<1> QED  BY <1>1, <1>2

LEMMA EjectedGood == \A b : GoodDisk(EjectedDisk(b))
<1> SUFFICES ASSUME NEW b PROVE GoodDisk(EjectedDisk(b))
  OBVIOUS
<1>1. /\ EjectedDisk(b).backend \in {"qdisk", "tap"} /\ EjectedDisk(b).format = "empty"
      /\ EjectedDisk(b).image = None
  BY DEF EjectedDisk, NoDisk
<1> QED  BY <1>1 DEF GoodDisk, Formats, None, NamedDriver

LEMMA MediumGood == ASSUME NEW disk \in Mediums, disk # NoDisk PROVE GoodDisk(disk)
BY ParsedGood, EjectedGood DEF Mediums, Media

\* What OpenedAsNamed says of one backend.
Named(e) == e.tapdisk = IF BlktapEnabled THEN NamedDriver(e.image) ELSE NoDriver

\* What libxl_device_disk_add writes for a good disk.
LEMMA EntryGood ==
  ASSUME NEW disk, GoodDisk(disk), Served(disk)
  PROVE  /\ DiskEntry(disk) \in BackRec /\ DiskEntry(disk).state = 1
         /\ DiskBackend(disk) \in {"vbd", "tap", "qdisk"}
         /\ DiskBackend(disk) = "vbd" <=> DiskEntry(disk).type = "phy"
         /\ Named(DiskEntry(disk))
<1>1. BlktapEnabled \in BOOLEAN
  BY DevicesAssumption
<1>2. Tapdisk(disk) \in {NoDriver} \cup {DriverOf(FormatName(f)) : f \in Formats}
  BY DEF Tapdisk, GoodDisk
<1>3. DiskType(disk) \in {"phy", "tap", "qdisk", None}
  BY DEF DiskType, GoodDisk
<1>4. DiskBackend(disk) \in {"vbd", "tap", "qdisk"} /\ (DiskBackend(disk) = "vbd" <=> DiskType(disk) = "phy")
  <2> DEFINE vbd == disk.backend = "phy" \/ OnTapdisk(disk)
             tap == disk.backend = "tap" /\ BlktapEnabled /\ disk.format = "empty"
  <2>1. DiskType(disk) = "phy" <=> vbd
    BY DEF DiskType
  <2>2. DiskBackend(disk) = CASE vbd -> "vbd" [] tap -> "tap" [] OTHER -> "qdisk"
    BY DEF DiskBackend
  <2>3. vbd => ~tap
    BY DEF OnTapdisk
  <2> HIDE DEF vbd, tap
  <2> QED  BY <2>1, <2>2, <2>3
<1>5. Tapdisk(disk) = IF BlktapEnabled THEN NamedDriver(disk.image) ELSE NoDriver
  <2>1. CASE OnTapdisk(disk)
    <3>1. /\ BlktapEnabled /\ disk.format \in {"raw", "vhd", "preservation"}
          /\ NamedDriver(disk.image) = FormatName(disk.format)
      BY <2>1 DEF OnTapdisk, GoodDisk, Served
    <3>2. FormatName(disk.format) \in {"aio", "vhd", "preservation"}
      BY <3>1 DEF FormatName
    <3>3. Tapdisk(disk) = DriverOf(FormatName(disk.format))
      BY <2>1 DEF Tapdisk
    <3> QED  BY <3>1, <3>2, <3>3, Drivers3
  <2>2. CASE ~OnTapdisk(disk)
    <3>1. Tapdisk(disk) = NoDriver
      BY <2>2 DEF Tapdisk
    <3>2. BlktapEnabled => NamedDriver(disk.image) = NoDriver
      BY <2>2 DEF OnTapdisk, GoodDisk
    <3> QED  BY <3>1, <3>2
  <2> QED  BY <2>1, <2>2
<1>7. /\ DiskEntry(disk).state = 1 /\ DiskEntry(disk).type = DiskType(disk)
      /\ DiskEntry(disk).image = disk.image /\ DiskEntry(disk).tapdisk = Tapdisk(disk)
  BY DEF DiskEntry
<1>8. DiskEntry(disk) \in BackRec
  BY <1>2, <1>3 DEF DiskEntry, BackRec, GoodDisk
<1> QED  BY <1>4, <1>5, <1>7, <1>8 DEF Named

-----------------------------------------------------------------------------
(* What writing to a backend directory leaves as it is *)

\* A record that may stand in directory b.
GoodEntry(b, e) ==
  /\ e \in BackRec
  /\ b \in DiskDirs => (e.state # 0 => (b[1] = "vbd" <=> e.type = "phy")) /\ Named(e)

LEMMA BackIsGood ==
  BackInv <=> back = [b \in Dirs |-> back[b]] /\ \A b \in Dirs : GoodEntry(b, back[b])
BY DirFacts DEF BackInv, OpenedAsNamed, GoodEntry, Exists, Named

LEMMA BackIsGoodNext ==
  (BackInv <=> back = [b \in Dirs |-> back[b]] /\ \A b \in Dirs : GoodEntry(b, back[b]))'
BY BackIsGood, PTL

LEMMA NoDirGood == \A b : GoodEntry(b, NoDir)
BY DEF GoodEntry, NoDir, BackRec, None, NoDriver, Named, NamedDriver

LEMMA NewBackendGood == \A b : b \notin DiskDirs => GoodEntry(b, NewBackend)
BY DEF GoodEntry, NewBackend, NoDir, BackRec, None, NoDriver

LEMMA SetStateKeeps ==
  ASSUME BackInv, NEW b \in Dirs, NEW s \in {1, 4, 5, 6}, Exists(b), SetState(b, s)
  PROVE  /\ BackInv'
         /\ back'[b].state = s
         /\ \A x \in Dirs : (Exists(x)' <=> Exists(x)) /\ (x # b => back'[x] = back[x])
<1>1. back \in [Dirs -> BackRec] /\ back[b].state # 0 /\ GoodEntry(b, back[b])
  BY BackIsGood DEF BackInv, Exists
<1>2. back' = [back EXCEPT ![b] = [back[b] EXCEPT !.state = s]]
  BY <1>1 DEF SetState
<1> DEFINE e == [back[b] EXCEPT !.state = s]
<1>3. /\ e \in BackRec /\ e.state = s /\ e.type = back[b].type
      /\ e.image = back[b].image /\ e.tapdisk = back[b].tapdisk
  BY <1>1 DEF BackRec
<1>4. GoodEntry(b, e)
  BY <1>1, <1>3 DEF GoodEntry, Named
<1>5. back' = [back EXCEPT ![b] = e] /\ s # 0
  BY <1>2
<1> HIDE DEF e
<1>6. back' = [x \in Dirs |-> back'[x]] /\ \A x \in Dirs : back'[x] = IF x = b THEN e ELSE back[x]
  BY <1>1, <1>5
<1>7. \A x \in Dirs : GoodEntry(x, back'[x])
  BY <1>4, <1>6, BackIsGood
<1> QED  BY <1>1, <1>3, <1>5, <1>6, <1>7, BackIsGoodNext DEF Exists

LEMMA RemovedKeeps ==
  ASSUME BackInv, NEW bs, back' = Removed(bs)
  PROVE  /\ BackInv'
         /\ \A x \in Dirs : IF x \in bs THEN back'[x].state = 0 ELSE back'[x] = back[x]
         /\ \A x \in Dirs : Exists(x)' <=> Exists(x) /\ x \notin bs
<1>1. \A x \in Dirs : back'[x] = IF x \in bs THEN NoDir ELSE back[x]
  BY DEF Removed
<1>2. back' = [x \in Dirs |-> back'[x]] /\ \A x \in Dirs : GoodEntry(x, back'[x])
  BY <1>1, BackIsGood, NoDirGood DEF Removed
<1> QED  BY <1>1, <1>2, BackIsGoodNext DEF Exists, NoDir

\* A device gets the backend e in the directory <<w, d>>.
AddOne(w, d, e) == GenericAdd([x \in {d} |-> <<w, d>>], [x \in {d} |-> e])

LEMMA AddKeeps ==
  ASSUME FrontInv, BackInv, NEW d \in Devs, NEW w, NEW e,
         <<w, d>> \in Dirs, GoodEntry(<<w, d>>, e), e.state = 1, AddOne(w, d, e)
  PROVE  /\ FrontInv' /\ BackInv'
         /\ front'[d] = <<w, d>> /\ Attached(d)' /\ Exists(<<w, d>>)'
         /\ \A x \in Devs : x # d => front'[x] = front[x] /\ (Attached(x)' <=> Attached(x))
         /\ \A b \in Dirs : b # <<w, d>> => back'[b] = back[b] /\ (Exists(b)' <=> Exists(b))
<1>1. \A x \in Devs : front'[x] = IF x = d THEN <<w, d>> ELSE front[x]
  BY DEF AddOne, GenericAdd
<1>2. front' \in [Devs -> Dirs \cup {<<>>}] /\ <<w, d>> # <<>> /\ <<w, d>>[2] = d
  BY <1>1, DirFacts DEF AddOne, GenericAdd, FrontInv
<1>3. \A x \in Devs : Attached(x)' <=> Attached(x) \/ x = d
  BY <1>1, <1>2 DEF Attached
<1>4. FrontInv'
  BY <1>1, <1>2, <1>3 DEF FrontInv
<1>5. \A b \in Dirs : back'[b] = IF b = <<w, d>> THEN e ELSE back[b]
  BY <1>2 DEF AddOne, GenericAdd
<1>6. back' = [b \in Dirs |-> back'[b]]
  BY DEF AddOne, GenericAdd
<1>7. \A b \in Dirs : GoodEntry(b, back'[b])
  BY <1>5, BackIsGood
<1> QED  BY <1>1, <1>3, <1>4, <1>5, <1>6, <1>7, BackIsGoodNext DEF Exists

\* libxl_device_disk_add does that, or fails.
LEMMA DiskAddIsAdd ==
  ASSUME NEW d \in Devs, d[1] = "vbd", NEW disk, GoodDisk(disk), DiskAdd(d, disk)
  PROVE  /\ AddOne(DiskBackend(disk), d, DiskEntry(disk)) /\ DiskEntry(disk).state = 1
         /\ <<DiskBackend(disk), d>> \in DiskDirs
         /\ GoodEntry(<<DiskBackend(disk), d>>, DiskEntry(disk))
<1>1. AddOne(DiskBackend(disk), d, DiskEntry(disk))
  <2>1. GenericAdd([x \in {d} |-> <<DiskBackend(disk), d>>], [x \in {d} |-> DiskEntry(disk)])
    BY DEF DiskAdd
  <2>2. \A x \in {d} : x = d
    OBVIOUS
  <2> QED  BY <2>1, <2>2 DEF AddOne
<1>2. Served(disk)
  BY Drivers3 DEF DiskAdd, Served, Tapdisk, FormatName
<1>3. <<DiskBackend(disk), d>> \in DiskDirs
  BY <1>2, EntryGood, DirFacts
<1> QED  BY <1>1, <1>2, <1>3, EntryGood DEF GoodEntry

\* Where the backends are, after a device was added, perhaps in place of another.
LEMMA AddMatches ==
  ASSUME FrontInv, BackInv, MatchInv, ~Deleting, guest = "up", NEW d \in Devs,
         over \subseteq over', Attached(d) => d \in over',
         NEW w, NEW e, <<w, d>> \in Dirs, GoodEntry(<<w, d>>, e), e.state = 1, AddOne(w, d, e)
  PROVE  MatchInv'
<1>1. /\ front'[d] = <<w, d>> /\ Exists(<<w, d>>)'
      /\ \A x \in Devs : x # d => front'[x] = front[x] /\ (Attached(x)' <=> Attached(x))
      /\ \A b \in Dirs : b # <<w, d>> => (Exists(b)' <=> Exists(b))
  BY AddKeeps
<1>2. ASSUME NEW b \in DiskDirs, Exists(b)', b[1] # "qdisk", b[2] \notin over' PROVE front'[b[2]] = b
  <2>1. CASE b = <<w, d>>
    BY <1>1, <2>1
  <2>2. CASE b # <<w, d>>
    <3>1. Exists(b) /\ b # <<>> /\ b[2] \in Devs /\ b[2] \notin over
      BY <1>1, <1>2, <2>2, DirFacts
    <3>2. front[b[2]] = b
      BY <1>2, <3>1 DEF MatchInv
    <3>3. b[2] # d
      BY <1>2, <3>1, <3>2 DEF Attached
    <3> QED  BY <1>1, <3>1, <3>2, <3>3
  <2> QED  BY <2>1, <2>2
<1>3. ASSUME NEW x \in Devs, Attached(x)' PROVE Exists(front[x])'
  <2>1. CASE x = d
    BY <1>1, <2>1 DEF Exists
  <2>2. CASE x # d
    <3>1. Attached(x) /\ Exists(front[x]) /\ front[x] \in Dirs /\ front[x][2] = x /\ front'[x] = front[x]
      BY <1>1, <1>3, <2>2 DEF MatchInv, FrontInv, Attached
    <3>2. front[x] # <<w, d>>
      BY <2>2, <3>1
    <3> QED  BY <1>1, <3>1, <3>2 DEF Exists
  <2> QED  BY <2>1, <2>2
<1> QED  BY <1>2, <1>3 DEF MatchInv

-----------------------------------------------------------------------------
(* The numbers of interfaces *)

LEMMA NicsKeep ==
  ASSUME NicsInv, nics' = nics,
         \A k \in Nets, n \in Numbers : Attached(<<k, n>>)' <=> Attached(<<k, n>>)
  PROVE  NicsInv'
BY DEF NicsInv

LEMMA NextNicIsNew ==
  ASSUME NEW list \in Seq(Numbers), Increasing(list)
  PROVE  NextNic(list) \in Nat /\ \A i \in DOMAIN list : list[i] < NextNic(list)
<1>0. MaxNic \in Nat
  BY DevicesAssumption
<1>1. CASE list = <<>>
  BY <1>1 DEF NextNic
<1>2. CASE list # <<>>
  <2>1. Len(list) \in DOMAIN list /\ DOMAIN list = 1..Len(list) /\ Len(list) \in Nat
    BY <1>2
  <2>2. \A i \in DOMAIN list : list[i] \in Nat
    BY <1>0, <2>1 DEF Numbers
  <2>3. NextNic(list) = list[Len(list)] + 1
    BY <1>2 DEF NextNic
  <2>4. \A i \in DOMAIN list : i = Len(list) \/ list[i] < list[Len(list)]
    BY <2>1 DEF Increasing
  <2> QED  BY <2>1, <2>2, <2>3, <2>4
<1> QED  BY <1>1, <1>2

LEMMA AppendedNic ==
  ASSUME NEW list \in Seq(Numbers), Increasing(list), NEW n \in Numbers,
         \A i \in DOMAIN list : list[i] < n
  PROVE  /\ Append(list, n) \in Seq(Numbers) /\ Increasing(Append(list, n))
         /\ \A m \in Numbers : (\E i \in DOMAIN Append(list, n) : Append(list, n)[i] = m)
                                <=> (\E i \in DOMAIN list : list[i] = m) \/ m = n
<1> DEFINE new == Append(list, n)
<1>1. /\ new \in Seq(Numbers) /\ Len(list) \in Nat
      /\ DOMAIN list = 1..Len(list) /\ DOMAIN new = 1..(Len(list) + 1)
      /\ \A i \in 1..Len(list) : new[i] = list[i]
      /\ new[Len(list) + 1] = n
  OBVIOUS
<1> HIDE DEF new
<1>2. Increasing(new)
  BY <1>1 DEF Increasing
<1>3. ASSUME NEW m \in Numbers
      PROVE  (\E i \in DOMAIN new : new[i] = m) <=> (\E i \in DOMAIN list : list[i] = m) \/ m = n
  BY <1>1
<1> QED  BY <1>1, <1>2, <1>3 DEF new

LEMMA WithoutNic ==
  ASSUME NEW list \in Seq(Numbers), Increasing(list), NEW n \in Numbers
  PROVE  /\ Without(list, n) \in Seq(Numbers) /\ Increasing(Without(list, n))
         /\ \A m \in Numbers : (\E i \in DOMAIN Without(list, n) : Without(list, n)[i] = m)
                                <=> (\E i \in DOMAIN list : list[i] = m) /\ m # n
<1> DEFINE new == Without(list, n)
           at == CHOOSE j \in DOMAIN list : list[j] = n
<1>0. MaxNic \in Nat /\ Len(list) \in Nat /\ DOMAIN list = 1..Len(list)
  <2>1. MaxNic \in Nat
    BY DevicesAssumption
  <2> QED  BY <2>1
<1>1. CASE ~ \E j \in DOMAIN list : list[j] = n
  <2>1. new = list
    BY <1>1 DEF Without
  <2> HIDE DEF new
  <2>2. \A m \in Numbers : (\E i \in DOMAIN new : new[i] = m)
                            <=> (\E i \in DOMAIN list : list[i] = m) /\ m # n
    BY <1>1, <2>1
  <2> QED  BY <2>1, <2>2 DEF new
<1>2. CASE \E j \in DOMAIN list : list[j] = n
  <2>1. at \in DOMAIN list /\ list[at] = n
    BY <1>2
  <2>2. new = [j \in 1..(Len(list) - 1) |-> IF j < at THEN list[j] ELSE list[j + 1]]
    BY <1>2 DEF Without
  <2> HIDE DEF new, at
  <2>3. \A j \in 1..Len(list) : list[j] \in Numbers /\ list[j] \in Nat
    BY <1>0 DEF Numbers
  <2>4. /\ new \in Seq(Numbers) /\ DOMAIN new = 1..(Len(list) - 1)
        /\ \A j \in 1..(Len(list) - 1) : new[j] = IF j < at THEN list[j] ELSE list[j + 1]
    BY <1>0, <2>1, <2>2, <2>3
  <2>5. \A i, j \in 1..Len(list) : i < j => list[i] < list[j]
    BY <1>0 DEF Increasing
  <2>6. Increasing(new)
    <3> SUFFICES ASSUME NEW i \in 1..(Len(list) - 1), NEW j \in 1..(Len(list) - 1), i < j
                 PROVE  new[i] < new[j]
      BY <2>4 DEF Increasing
    <3>1. /\ i \in 1..Len(list) /\ i + 1 \in 1..Len(list) /\ at \in 1..Len(list)
          /\ j \in 1..Len(list) /\ j + 1 \in 1..Len(list)
      BY <1>0, <2>1
    <3>2. /\ list[i] < list[j] /\ list[i] < list[j + 1] /\ list[i + 1] < list[j + 1]
          /\ i < at \/ ~(j < at)
      BY <2>5, <3>1
    <3> QED  BY <2>4, <3>2
  <2>7. ASSUME NEW m \in Numbers, NEW i \in DOMAIN new, new[i] = m
        PROVE  (\E j \in DOMAIN list : list[j] = m) /\ m # n
    <3>1. /\ i \in 1..(Len(list) - 1) /\ i \in 1..Len(list) /\ i + 1 \in 1..Len(list)
          /\ at \in 1..Len(list)
      BY <1>0, <2>1, <2>4, <2>7
    <3>2. CASE i < at
      BY <1>0, <2>1, <2>3, <2>4, <2>5, <2>7, <3>1, <3>2
    <3>3. CASE ~(i < at)
      BY <1>0, <2>1, <2>3, <2>4, <2>5, <2>7, <3>1, <3>3
    <3> QED  BY <3>2, <3>3
  <2>8. ASSUME NEW m \in Numbers, NEW j \in DOMAIN list, list[j] = m, m # n
        PROVE  \E i \in DOMAIN new : new[i] = m
    <3>1. j \in 1..Len(list) /\ at \in 1..Len(list) /\ j # at
      BY <1>0, <2>1, <2>8
    <3>2. CASE j < at
      <4>1. j \in 1..(Len(list) - 1) /\ new[j] = m
        BY <1>0, <2>4, <2>8, <3>1, <3>2
      <4> QED  BY <2>4, <4>1
    <3>3. CASE j > at
      <4>1. j - 1 \in 1..(Len(list) - 1) /\ ~(j - 1 < at) /\ j - 1 + 1 = j
        BY <1>0, <3>1, <3>3
      <4>2. new[j - 1] = m
        BY <2>4, <2>8, <4>1
      <4> QED  BY <2>4, <4>1, <4>2
    <3> QED  BY <1>0, <3>1, <3>2, <3>3
  <2> QED  BY <2>4, <2>6, <2>7, <2>8 DEF new
<1> QED  BY <1>1, <1>2

-----------------------------------------------------------------------------
(* The invariant: first and last states, and the drivers *)

LEMMA IdleCmd == Idle \in CmdRec /\ Idle.pc = "idle" /\ Idle.n = 0 /\ Idle.at = <<>>
BY DevFacts DEF Idle, CmdRec, Mediums

\* An idle xl has no part in CmdInv and WatchInv.
LEMMA IdleHolds == cmd' = Idle /\ watches' = {} /\ events' = {} => CmdInv' /\ WatchInv'
<1> SUFFICES ASSUME cmd' = Idle, watches' = {}, events' = {} PROVE CmdInv' /\ WatchInv'
  OBVIOUS
<1>1. IsFiniteSet(watches')
  BY FS_EmptySet
<1> QED  BY <1>1, IdleCmd DEF CmdInv, WatchInv, Deleting, Examining

LEMMA NoNics ==
  nics = [k \in Nets |-> [dir |-> FALSE, list |-> <<>>]] /\ front = [d \in Devs |-> <<>>]
    => FrontInv /\ NicsInv
<1> SUFFICES ASSUME nics = [k \in Nets |-> [dir |-> FALSE, list |-> <<>>]],
                    front = [d \in Devs |-> <<>>]
             PROVE  FrontInv /\ NicsInv
  OBVIOUS
<1>1. \A d \in Devs : ~Attached(d)
  BY DEF Attached
<1>2. FrontInv
  BY <1>1 DEF FrontInv
<1>3. \A k \in Nets : nics[k].list = <<>> /\ nics[k].dir = FALSE
  OBVIOUS
<1>4. nics \in [Nets -> [dir : BOOLEAN, list : Seq(Numbers)]]
  OBVIOUS
<1>5. \A k \in Nets : Increasing(nics[k].list)
  BY <1>3 DEF Increasing
<1>6. ASSUME NEW k \in Nets, NEW n \in Numbers
      PROVE  ~Attached(<<k, n>>) /\ ~ \E i \in DOMAIN nics[k].list : nics[k].list[i] = n
  BY <1>1, <1>3, DevFacts
<1> QED  BY <1>2, <1>4, <1>5, <1>6 DEF NicsInv

LEMMA InitInv == Init => IInv
<1> SUFFICES ASSUME Init PROVE IInv
  OBVIOUS
<1> USE DEF Init
<1>1. FrontInv /\ NicsInv
  BY NoNics
<1>2. BackInv
  BY BackIsGood, NoDirGood
<1>3. WatchInv /\ CmdInv
  BY FS_EmptySet, IdleCmd DEF WatchInv, CmdInv, Deleting, Examining
<1>4. MatchInv
  BY DEF MatchInv
<1>5. MaxCommand \in Nat
  BY DevicesAssumption
<1>6. RestInv
  BY <1>5, IdleCmd DEF RestInv, Attached, Exists, NoDir
<1> QED  BY <1>1, <1>2, <1>3, <1>4, <1>6 DEF IInv

\* An event of something that is watched.
LEMMA NotifyWatched == ASSUME WatchInv, NEW bs, Notify(bs) PROVE events' \subseteq watches
BY DEF WatchInv, Notify

\* The drivers neither make nor remove a directory.
LEMMA ExaminingKept ==
  ASSUME CmdInv, cmd' = cmd, \A x \in Dirs : Exists(x)' <=> Exists(x)
  PROVE  Examining'
<1>1. cmd.at # <<>> => cmd.at \in Dirs
  BY DEF CmdInv, CmdRec
<1> QED  BY <1>1 DEF CmdInv, Examining, Exists

LEMMA ConnectInv == ASSUME IInv, NEW b \in Dirs, Connect(b) PROVE IInv'
<1> USE DEF IInv, Connect
<1>1. /\ BackInv' /\ back'[b].state = 4
      /\ \A x \in Dirs : (Exists(x)' <=> Exists(x)) /\ (x # b => back'[x] = back[x])
  BY SetStateKeeps DEF Exists
<1>2. \A d \in Devs : Attached(d)' <=> Attached(d)
  BY DEF Attached
<1>3. FrontInv'
  BY <1>2 DEF FrontInv
<1>4. NicsInv'
  BY <1>2, NicsKeep, DevFacts
<1>5. WatchInv'
  BY NotifyWatched DEF WatchInv
<1>6. CmdInv'
  <2>1. \A x \in Dirs : back[x].state \in {0, 5, 6} => x # b /\ back'[x] = back[x]
    BY <1>1
  <2> QED  BY <1>1, <1>2, <2>1, DirFacts, DevFacts, ExaminingKept DEF CmdInv, Deleting
<1>7. MatchInv'
  BY <1>1, <1>2, DirFacts DEF MatchInv, FrontInv, Deleting, Attached, Exists
<1>8. RestInv'
  <2>1. guest # "new"
    BY DEF RestInv, Exists
  <2> QED  BY <2>1 DEF RestInv
<1> QED  BY <1>1, <1>3, <1>4, <1>5, <1>6, <1>7, <1>8

LEMMA CloseInv == ASSUME IInv, NEW b \in Dirs, Close(b) PROVE IInv'
<1>0. /\ UNCHANGED <<front, nics, guest, cmd, left, watches, over>>
      /\ driver' = driver \ {b} /\ events' \subseteq watches
      /\ (Exists(b) => SetState(b, 6)) /\ (~Exists(b) => UNCHANGED back)
  BY NotifyWatched DEF IInv, Close, WatchInv
<1> USE DEF IInv
<1>1. /\ BackInv'
      /\ \A x \in Dirs : Exists(x)' <=> Exists(x)
      /\ \A x \in Dirs : back[x].state \in {0, 5, 6} => back'[x].state \in {0, 5, 6}
  <2>1. CASE Exists(b)
    <3>1. /\ BackInv' /\ back'[b].state = 6
          /\ \A x \in Dirs : (Exists(x)' <=> Exists(x)) /\ (x # b => back'[x] = back[x])
      BY <1>0, <2>1, SetStateKeeps
    <3> QED  BY <3>1
  <2>2. CASE ~Exists(b)
    BY <1>0, <2>2 DEF BackInv, Exists, OpenedAsNamed
  <2> QED  BY <2>1, <2>2
<1>2. \A d \in Devs : Attached(d)' <=> Attached(d)
  BY <1>0 DEF Attached
<1>3. FrontInv'
  BY <1>0, <1>2 DEF FrontInv
<1>4. NicsInv'
  BY <1>0, <1>2, NicsKeep, DevFacts
<1>5. WatchInv'
  BY <1>0 DEF WatchInv
<1>6. CmdInv'
  BY <1>0, <1>1, <1>2, DirFacts, DevFacts, ExaminingKept DEF CmdInv, Deleting
<1>7. MatchInv'
  BY <1>0, <1>1, <1>2, DirFacts DEF MatchInv, FrontInv, Deleting, Attached, Exists
<1>8. RestInv'
  BY <1>0, <1>1, <1>2 DEF RestInv
<1> QED  BY <1>1, <1>3, <1>4, <1>5, <1>6, <1>7, <1>8

-----------------------------------------------------------------------------
(* The invariant: adding *)

LEMMA FixedDirs ==
  \A d \in Fixed :
    /\ FixedDir(d) \in Dirs /\ FixedDir(d)[2] = d
    /\ d = CD => GoodEntry(FixedDir(d), DiskEntry(BootMedium)) /\ DiskEntry(BootMedium).state = 1
    /\ d # CD => FixedDir(d) \notin DiskDirs
<1> SUFFICES ASSUME NEW d \in Fixed
             PROVE  /\ FixedDir(d) \in Dirs /\ FixedDir(d)[2] = d
                    /\ d = CD => GoodEntry(FixedDir(d), DiskEntry(BootMedium))
                                 /\ DiskEntry(BootMedium).state = 1
                    /\ d # CD => FixedDir(d) \notin DiskDirs
  OBVIOUS
<1>1. GoodDisk(BootMedium) /\ Served(BootMedium)
  <2>1. BootSpec \in Specs
    BY DevicesAssumption
  <2> QED  BY <2>1, ParsedGood DEF BootMedium, Served
<1>2. CASE d = CD
  <2>1. FixedDir(d) = <<DiskBackend(BootMedium), CD>>
    BY <1>2 DEF FixedDir, CD, Console
  <2>2. CD[1] = "vbd" /\ CD \in Devs
    BY DevFacts DEF CD
  <2>3. /\ DiskEntry(BootMedium) \in BackRec /\ DiskEntry(BootMedium).state = 1
        /\ DiskBackend(BootMedium) \in {"vbd", "tap", "qdisk"}
        /\ (DiskBackend(BootMedium) = "vbd" <=> DiskEntry(BootMedium).type = "phy")
        /\ Named(DiskEntry(BootMedium))
    BY <1>1, EntryGood
  <2>4. FixedDir(d) \in DiskDirs /\ FixedDir(d)[1] = DiskBackend(BootMedium) /\ FixedDir(d)[2] = CD
    <3>1. <<DiskBackend(BootMedium), CD>> \in DiskDirs
      BY <2>2, <2>3, DirFacts
    <3> QED  BY <2>1, <3>1
  <2> QED  BY <1>2, <2>3, <2>4, DirFacts DEF GoodEntry
<1>3. CASE d # CD
  <2>1. d \in Consoles \X {0} /\ d \in Devs /\ Consoles \subseteq {"console", "vkbd", "vfb"}
    BY <1>3, DevFacts, DevicesAssumption DEF Fixed
  <2>2. d \in {<<"console", 0>>, <<"vkbd", 0>>, <<"vfb", 0>>}
    <3>1. d = <<d[1], d[2]>> /\ d[1] \in Consoles /\ d[2] = 0
      BY <2>1
    <3> QED  BY <2>1, <3>1
  <2>3. FixedDir(d) = <<d[1], d>> /\ d[1] # "vbd"
    BY <1>3, <2>2 DEF FixedDir, CD, Console, ConsoleDir, VkbDir, VfbDir
  <2> QED  BY <1>3, <2>1, <2>3, DirFacts
<1> QED  BY <1>2, <1>3

LEMMA CreateInv == ASSUME IInv, Create PROVE IInv'
<1> DEFINE entry(d) == IF d = CD THEN DiskEntry(BootMedium) ELSE NewBackend
<1>0. /\ guest = "new" /\ guest' = "up" /\ cmd.pc = "idle"
      /\ UNCHANGED <<nics, driver, cmd, left, watches, events, over>>
      /\ \A d \in Devs : ~Attached(d)
      /\ \A b \in Dirs : ~Exists(b)
  BY DEF Create, IInv, RestInv
<1>1. /\ front' = [d \in Devs |-> IF d \in Fixed THEN FixedDir(d) ELSE front[d]]
      /\ back' = [b \in Dirs |-> IF \E d \in Fixed : b = FixedDir(d) THEN entry(b[2]) ELSE back[b]]
  <2>1. GenericAdd([d \in Fixed |-> FixedDir(d)],
                   [d \in Fixed |-> IF d = CD THEN DiskEntry(BootMedium) ELSE NewBackend])
    BY DEF Create
  <2>2. \A b : (\E d \in Fixed : b = FixedDir(d)) => b[2] \in Fixed
    BY FixedDirs
  <2> QED  BY <2>1, <2>2 DEF GenericAdd
<1>2. \A d \in Fixed : entry(d).state = 1 /\ GoodEntry(FixedDir(d), entry(d))
  BY FixedDirs, NewBackendGood DEF NewBackend, NoDir
<1> HIDE DEF entry
<1>3. \A d \in Devs : /\ d \in Fixed => front'[d] = FixedDir(d) /\ Attached(d)'
                      /\ d \notin Fixed => front'[d] = <<>> /\ ~Attached(d)'
  BY <1>0, <1>1, FixedDirs, DirFacts DEF Attached
<1>4. \A b \in Dirs : \/ \E d \in Fixed : b = FixedDir(d) /\ back'[b] = entry(d)
                      \/ back'[b] = back[b] /\ ~ \E d \in Fixed : b = FixedDir(d)
  BY <1>1, FixedDirs
<1>5. FrontInv'
  BY <1>1, <1>3, FixedDirs DEF IInv, FrontInv
<1>6. NicsInv'
  BY <1>0, <1>3, NicsKeep, DevFacts DEF IInv
<1>7. BackInv'
  <2>1. back' = [b \in Dirs |-> back'[b]]
    BY <1>1
  <2>2. \A b \in Dirs : GoodEntry(b, back'[b])
    BY <1>2, <1>4, BackIsGood DEF IInv
  <2> QED  BY <2>1, <2>2, BackIsGoodNext
<1>8. WatchInv'
  BY <1>0 DEF IInv, WatchInv
<1>9. CmdInv'
  BY <1>0 DEF IInv, CmdInv, Deleting, Examining
<1>10. MatchInv'
  <2>1. ASSUME NEW b \in DiskDirs, Exists(b)' PROVE front'[b[2]] = b
    <3>1. PICK d \in Fixed : b = FixedDir(d)
      BY <1>0, <1>4, <2>1, DirFacts DEF Exists
    <3> QED  BY <1>3, <3>1, FixedDirs, DevFacts
  <2>2. ASSUME NEW d \in Devs, Attached(d)' PROVE Exists(front[d])'
    <3>1. d \in Fixed /\ front'[d] = FixedDir(d) /\ FixedDir(d) \in Dirs
      BY <1>3, <2>2, FixedDirs
    <3>2. \E x \in Fixed : back'[front'[d]] = entry(x)
      BY <1>4, <3>1
    <3> QED  BY <1>2, <3>2 DEF Exists
  <2> QED  BY <2>1, <2>2 DEF MatchInv
<1>11. RestInv'
  BY <1>0 DEF IInv, RestInv
<1> QED  BY <1>5, <1>6, <1>7, <1>8, <1>9, <1>10, <1>11 DEF IInv

LEMMA BlockAttachInv ==
  ASSUME IInv, NEW d \in Devs, NEW spec \in Specs, BlockAttach(d, spec)
  PROVE  IInv'
<1> DEFINE disk == AttachedDisk(spec)
           w == DiskBackend(disk)
           e == DiskEntry(disk)
<1>0. /\ cmd.pc = "idle" /\ guest = "up" /\ d[1] = "vbd" /\ d[2] \in Disks
      /\ over' = IF Attached(d) THEN over \cup {d} ELSE over
      /\ left > 0 /\ left' = left - 1
      /\ GoodDisk(disk) /\ DiskAdd(d, disk)
      /\ UNCHANGED <<nics, driver, guest, cmd, watches, events>>
  BY AttachedGood DEF BlockAttach, StartCommand
<1> HIDE DEF disk
<1>1. /\ <<w, d>> \in Dirs /\ GoodEntry(<<w, d>>, e) /\ e.state = 1 /\ AddOne(w, d, e)
  BY <1>0, DiskAddIsAdd, DirFacts
<1> HIDE DEF w, e
<1>2. /\ FrontInv' /\ BackInv'
      /\ \A x \in Devs : x # d => (Attached(x)' <=> Attached(x))
  BY <1>0, <1>1, AddKeeps DEF IInv
<1>3. NicsInv'
  <2>1. \A k \in Nets, n \in Numbers : <<k, n>> \in Devs /\ <<k, n>> # d
    BY <1>0, DevFacts
  <2> QED  BY <1>0, <1>2, <2>1, NicsKeep DEF IInv
<1>4. MatchInv'
  <2>1. ~Deleting
    BY <1>0 DEF Deleting
  <2> QED  BY <1>0, <1>1, <2>1, AddMatches DEF IInv
<1>5. WatchInv'
  BY <1>0 DEF IInv, WatchInv
<1>6. CmdInv'
  BY <1>0 DEF IInv, CmdInv, Deleting, Examining
<1>7. RestInv'
  <2>1. left' \in 0..MaxCommand
    <3>1. MaxCommand \in Nat
      BY DevicesAssumption
    <3> QED  BY <1>0, <3>1 DEF IInv, RestInv
  <2> QED  BY <1>0, <2>1 DEF IInv, RestInv
<1> QED  BY <1>2, <1>3, <1>4, <1>5, <1>6, <1>7 DEF IInv

\* libxl_device_nic_add gives a number that no interface has.
LEMMA NicAddIsAdd ==
  ASSUME IInv, NEW k \in Nets, NicAdd(k)
  PROVE  \E n \in Numbers :
         /\ n = NextNic(nics[k].list) /\ ~Attached(<<k, n>>)
         /\ <<k, n>> \in Devs /\ <<k, <<k, n>>>> \in Dirs \ DiskDirs
         /\ AddOne(k, <<k, n>>, NewBackend)
<1> DEFINE n == NextNic(nics[k].list)
<1>1. nics[k].list \in Seq(Numbers) /\ Increasing(nics[k].list)
  BY DEF IInv, NicsInv
<1>2. n \in Nat /\ \A i \in DOMAIN nics[k].list : nics[k].list[i] < n
  BY <1>1, NextNicIsNew
<1>3. n <= MaxNic /\ GenericAdd([x \in {<<k, n>>} |-> <<k, <<k, n>>>>], [x \in {<<k, n>>} |-> NewBackend])
  BY DEF NicAdd
<1> HIDE DEF n
<1>4. n \in Numbers
  <2>1. MaxNic \in Nat
    BY DevicesAssumption
  <2> QED  BY <1>2, <1>3, <2>1 DEF Numbers
<1>5. ~Attached(<<k, n>>)
  <2>1. ~ \E i \in DOMAIN nics[k].list : nics[k].list[i] = n
    BY <1>2
  <2> QED  BY <1>4, <2>1 DEF IInv, NicsInv
<1>6. <<k, n>> \in Devs /\ <<k, <<k, n>>>> \in Dirs \ DiskDirs
  <2>1. <<k, n>> \in Devs /\ k # "vbd"
    BY <1>4, DevFacts
  <2> QED  BY <2>1, DirFacts
<1> QED  BY <1>3, <1>4, <1>5, <1>6 DEF AddOne, n

LEMMA NicAddInv ==
  ASSUME IInv, NEW k \in Nets, StartCommand, NicAdd(k),
         UNCHANGED <<driver, guest, cmd, watches, events, over>>
  PROVE  IInv'
<1>1. PICK n \in Numbers :
        /\ n = NextNic(nics[k].list) /\ ~Attached(<<k, n>>)
        /\ <<k, n>> \in Devs /\ <<k, <<k, n>>>> \in Dirs \ DiskDirs
        /\ AddOne(k, <<k, n>>, NewBackend)
  BY NicAddIsAdd
<1> DEFINE d == <<k, n>>
<1>0. /\ cmd.pc = "idle" /\ guest = "up" /\ left > 0 /\ left' = left - 1
      /\ GoodEntry(<<k, d>>, NewBackend) /\ NewBackend.state = 1
      /\ nics' = [nics EXCEPT ![k] = [dir |-> TRUE, list |-> Append(nics[k].list, n)]]
  BY <1>1, NewBackendGood DEF StartCommand, NicAdd, NewBackend, NoDir
<1>2. /\ FrontInv' /\ BackInv' /\ Attached(d)'
      /\ \A x \in Devs : x # d => (Attached(x)' <=> Attached(x))
  <2>1. FrontInv /\ BackInv
    BY DEF IInv
  <2> QED  BY <1>0, <1>1, <2>1, AddKeeps
<1>3. NicsInv'
  <2> DEFINE list == nics[k].list
             new == Append(list, n)
  <2>1. list \in Seq(Numbers) /\ Increasing(list) /\ \A i \in DOMAIN list : list[i] < n
    BY <1>1, NextNicIsNew DEF IInv, NicsInv
  <2>2. /\ new \in Seq(Numbers) /\ Increasing(new)
        /\ \A m \in Numbers : (\E i \in DOMAIN new : new[i] = m)
                               <=> (\E i \in DOMAIN list : list[i] = m) \/ m = n
    BY <1>1, <2>1, AppendedNic
  <2>3. nics' = [nics EXCEPT ![k] = [dir |-> TRUE, list |-> new]]
    BY <1>0
  <2> HIDE DEF new
  <2>4. nics \in [Nets -> [dir : BOOLEAN, list : Seq(Numbers)]]
    BY DEF IInv, NicsInv
  <2>5. nics' \in [Nets -> [dir : BOOLEAN, list : Seq(Numbers)]] /\ nics'[k].list = new
    BY <2>2, <2>3, <2>4
  <2>6. \A j \in Nets : j # k => nics'[j] = nics[j]
    BY <2>3, <2>4
  <2>7. ASSUME NEW j \in Nets, NEW m \in Numbers
        PROVE  Attached(<<j, m>>)' <=> \E i \in DOMAIN nics'[j].list : nics'[j].list[i] = m
    <3>1. Attached(<<j, m>>) <=> \E i \in DOMAIN nics[j].list : nics[j].list[i] = m
      BY DEF IInv, NicsInv
    <3>2. <<j, m>> \in Devs
      BY DevFacts
    <3>3. CASE j = k /\ m = n
      <4>1. Attached(<<j, m>>)'
        BY <1>2, <3>3
      <4> QED  BY <2>2, <2>5, <3>3, <4>1
    <3>4. CASE j = k /\ m # n
      <4>1. Attached(<<j, m>>)' <=> Attached(<<j, m>>)
        BY <1>2, <3>2, <3>4
      <4> QED  BY <2>2, <2>5, <3>1, <3>4, <4>1
    <3>5. CASE j # k
      <4>1. Attached(<<j, m>>)' <=> Attached(<<j, m>>)
        BY <1>2, <3>2, <3>5
      <4> QED  BY <2>6, <3>1, <3>5, <4>1
    <3> QED  BY <3>3, <3>4, <3>5
  <2>8. \A j \in Nets : Increasing(nics'[j].list)
    BY <2>2, <2>5, <2>6 DEF IInv, NicsInv
  <2> QED  BY <2>5, <2>7, <2>8 DEF NicsInv
<1>4. MatchInv'
  <2>1. ~Deleting
    BY <1>0 DEF Deleting
  <2> QED  BY <1>0, <1>1, <2>1, AddMatches DEF IInv
<1>5. WatchInv'
  BY DEF IInv, WatchInv
<1>6. CmdInv'
  BY <1>0 DEF IInv, CmdInv, Deleting, Examining
<1>7. RestInv'
  <2>1. left' \in 0..MaxCommand
    <3>1. MaxCommand \in Nat
      BY DevicesAssumption
    <3> QED  BY <1>0, <3>1 DEF IInv, RestInv
  <2> QED  BY <1>0, <2>1 DEF IInv, RestInv
<1> QED  BY <1>2, <1>3, <1>4, <1>5, <1>6, <1>7 DEF IInv

-----------------------------------------------------------------------------
(* The invariant: taking a device away *)

\* What libxl__device_destroy does to the backend whose state it read: only one that
\* was connected is left behind, and it is watched.
LEMMA DestroyedOrTold ==
  ASSUME IInv, DeviceDestroy, NEW b \in Dirs, b = cmd.at
  PROVE  /\ BackInv' /\ back'[b].state \in {0, 5} /\ events' \subseteq watches'
         /\ \A x \in Dirs : x # b => back'[x] = back[x]
         /\ \A x \in Dirs : Exists(x)' => Exists(x)
         /\ \A x \in Dirs : x # b => (Exists(x)' <=> Exists(x))
         /\ ToldToClose => watches' = watches \cup {b}
         /\ ~ToldToClose => watches' = watches
<1>0. BackInv /\ WatchInv /\ b # <<>> /\ (cmd.seen # 0 <=> Exists(b))
  BY DirFacts DEF IInv, CmdInv, Examining, Exists
<1>1. CASE ToldToClose
  <2>1. Exists(b) /\ SetState(b, 5)
    BY <1>0, <1>1 DEF ToldToClose, DeviceDestroy
  <2>2. /\ BackInv' /\ back'[b].state = 5
        /\ \A x \in Dirs : (Exists(x)' <=> Exists(x)) /\ (x # b => back'[x] = back[x])
    BY <1>0, <2>1, SetStateKeeps
  <2>3. watches' = watches \cup {b} /\ events' \subseteq watches'
    BY <1>0, <1>1 DEF DeviceDestroy, WatchInv
  <2> QED  BY <1>1, <2>2, <2>3
<1>2. CASE ~ToldToClose
  <2> DEFINE gone == IF cmd.seen = 0 THEN {} ELSE {b}
  <2>1. back' = Removed(gone) /\ Notify(gone) /\ watches' = watches
    BY <1>2 DEF DeviceDestroy
  <2>2. \A x \in gone : x = b
    OBVIOUS
  <2>3. b \in gone \/ ~Exists(b)
    BY <1>0
  <2> HIDE DEF gone
  <2>4. /\ BackInv'
        /\ \A x \in Dirs : IF x \in gone THEN back'[x].state = 0 ELSE back'[x] = back[x]
        /\ \A x \in Dirs : Exists(x)' <=> Exists(x) /\ x \notin gone
    BY <1>0, <2>1, RemovedKeeps
  <2>5. events' \subseteq watches'
    BY <1>0, <2>1, NotifyWatched
  <2>6. back'[b].state = 0
    BY <2>3, <2>4 DEF Exists
  <2> QED  BY <1>2, <2>1, <2>2, <2>4, <2>5, <2>6
<1> QED  BY <1>1, <1>2

\* A backend that block-detach or cd-insert has to find.
Found(d, dir) ==
  \A b \in DiskDirs : b[2] = d /\ Exists(b) /\ b[1] # "qdisk" /\ b[2] \notin over => b = dir

LEMMA StartDelInv ==
  ASSUME IInv, NEW d \in Devs, NEW dir \in Dirs, dir[2] = d, NEW medium \in Mediums,
         medium # NoDisk => d = CD, Found(d, dir), StartDel(d, dir, medium)
  PROVE  IInv'
<1>0. /\ cmd.pc = "idle" /\ guest = "up" /\ left > 0 /\ left' = left - 1 /\ Attached(d)
      /\ watches = {} /\ BackInv
      /\ UNCHANGED <<front, nics, back, driver, guest, watches, events, over>>
      /\ cmd' = Examine([Idle EXCEPT !.pc = "wait_once", !.dev = d, !.medium = medium, !.todo = {dir}], dir)
  BY DEF StartDel, StartCommand, IInv, WatchInv
<1>2. /\ cmd' \in CmdRec /\ cmd'.pc = "wait_once" /\ cmd'.dev = d /\ cmd'.medium = medium
      /\ cmd'.todo = {dir} /\ cmd'.n = 0 /\ cmd'.at = dir /\ cmd'.seen = back[dir].state
  <2>1. back[dir].state \in {0, 1, 4, 5, 6}
    BY <1>0 DEF BackInv, BackRec
  <2> QED  BY <1>0, <2>1 DEF Examine, Idle, CmdRec
<1>3. \A x \in Devs : Attached(x)' <=> Attached(x)
  BY <1>0 DEF Attached
<1>4. FrontInv'
  BY <1>0, <1>3 DEF IInv, FrontInv
<1>5. NicsInv'
  BY <1>0, <1>3, NicsKeep, DevFacts DEF IInv
<1>6. WatchInv' /\ BackInv'
  BY <1>0, <1>2 DEF IInv, WatchInv, BackInv, Exists, OpenedAsNamed
<1>7. CmdInv'
  <2>1. Attached(d)'
    BY <1>0, <1>3
  <2>2. \A b \in DiskDirs : b[2] = d /\ Exists(b)' /\ b[1] # "qdisk" /\ b[2] \notin over' => b \in {dir}
    BY <1>0 DEF Found, Exists
  <2>3. watches' \subseteq {dir} /\ Examining'
    BY <1>0, <1>2 DEF Examining, Exists
  <2> QED  BY <1>0, <1>2, <2>1, <2>2, <2>3 DEF CmdInv, Deleting, Attached
<1>8. MatchInv'
  <2>1. ~Deleting
    BY <1>0 DEF Deleting
  <2> QED  BY <1>0, <1>3, <2>1 DEF IInv, MatchInv, Exists
<1>9. RestInv'
  <2>1. left' \in 0..MaxCommand
    <3>1. MaxCommand \in Nat
      BY DevicesAssumption
    <3> QED  BY <1>0, <3>1 DEF IInv, RestInv
  <2> QED  BY <1>0, <2>1 DEF IInv, RestInv
<1> QED  BY <1>4, <1>5, <1>6, <1>7, <1>8, <1>9 DEF IInv

\* libxl_device_disk_del finds a backend where libxl_device_disk_add put it,
\* unless it is one of qemu.
LEMMA DiskDelDirFinds ==
  ASSUME BackInv, NEW b \in DiskDirs, Exists(b)
  PROVE  DiskDelDir(b) \in Dirs /\ DiskDelDir(b)[2] = b[2] /\ (b[1] # "qdisk" => DiskDelDir(b) = b)
<1>1. b = <<b[1], b[2]>> /\ b[1] \in {"vbd", "tap", "qdisk"} /\ b[2] \in Devs /\ b[2][1] = "vbd"
  BY DirFacts
<1>2. b[1] = "vbd" <=> back[b].type = "phy"
  BY DEF BackInv
<1>3. CASE back[b].type = "phy"
  <2>1. DiskDelDir(b) = <<"vbd", b[2]>>
    BY <1>3 DEF DiskDelDir
  <2> QED  BY <1>1, <1>2, <1>3, <2>1, DirFacts
<1>4. CASE back[b].type # "phy"
  <2>1. DiskDelDir(b) = <<"tap", b[2]>>
    BY <1>4 DEF DiskDelDir
  <2>2. b[1] \in {"tap", "qdisk"}
    BY <1>1, <1>2, <1>4
  <2>3. DiskDelDir(b) \in Dirs
    <3>1. \A w \in {"vbd", "tap", "qdisk"} : <<w, b[2]>> \in DiskDirs
      BY <1>1, DirFacts
    <3>2. <<"tap", b[2]>> \in DiskDirs
      BY <3>1
    <3> QED  BY <2>1, <3>2, DirFacts
  <2> QED  BY <1>1, <2>1, <2>2, <2>3
<1> QED  BY <1>3, <1>4

LEMMA BlockDetachInv == ASSUME IInv, NEW d \in Devs, BlockDetach(d) PROVE IInv'
<1>0. /\ d[1] = "vbd" /\ Attached(d) /\ StartDel(d, DiskDelDir(front[d]), NoDisk)
      /\ cmd.pc = "idle" /\ guest = "up" /\ ~Deleting
  BY DEF BlockDetach, StartDel, StartCommand, Deleting
<1>1. PICK b \in Dirs : b = front[d] /\ b[2] = d /\ Exists(b) /\ b \in DiskDirs
  BY <1>0, DirFacts DEF IInv, FrontInv, MatchInv, Attached
<1>2. PICK dir \in Dirs : dir = DiskDelDir(b) /\ dir[2] = d /\ (b[1] # "qdisk" => dir = b)
  BY <1>1, DiskDelDirFinds DEF IInv
<1>3. Found(d, dir)
  <2> SUFFICES ASSUME NEW x \in DiskDirs, x[2] = d, Exists(x), x[1] # "qdisk", x[2] \notin over
               PROVE  x = dir
    BY DEF Found
  <2>1. front[d] = x
    BY <1>0 DEF IInv, MatchInv
  <2> QED  BY <1>1, <1>2, <2>1
<1>4. StartDel(d, dir, NoDisk) /\ NoDisk \in Mediums
  BY <1>0, <1>1, <1>2 DEF Mediums
<1> QED  BY <1>2, <1>3, <1>4, StartDelInv

LEMMA NicDetachInv ==
  ASSUME IInv, NEW k \in Nets, NEW n \in Numbers, StartDel(<<k, n>>, <<k, <<k, n>>>>, NoDisk)
  PROVE  IInv'
<1> DEFINE d == <<k, n>>
           dir == <<k, d>>
<1>1. d \in Devs /\ d[1] # "vbd" /\ dir \in Dirs /\ dir[2] = d /\ NoDisk \in Mediums
  BY DevFacts, DirFacts DEF Mediums
<1> HIDE DEF d
<1>2. Found(d, dir)
  BY <1>1, DirFacts DEF Found
<1>3. StartDel(d, dir, NoDisk)
  BY DEF d
<1> HIDE DEF dir
<1> QED  BY <1>1, <1>2, <1>3, StartDelInv

LEMMA ChangeMediumInv ==
  ASSUME IInv, NEW disk \in Mediums, ChangeMedium(disk)
  PROVE  IInv'
<1>1. PICK b \in DiskList : FoundCD(b) /\ StartDel(CD, DiskDelDir(b), disk)
  BY DEF ChangeMedium
<1>2. /\ b \in DiskDirs /\ Exists(b) /\ b[2] = CD
      /\ cmd.pc = "idle" /\ guest = "up" /\ ~Deleting
  BY <1>1 DEF FoundCD, DiskList, StartDel, StartCommand, Deleting
<1>3. PICK dir \in Dirs : dir = DiskDelDir(b) /\ dir[2] = CD /\ (b[1] # "qdisk" => dir = b)
  BY <1>2, DiskDelDirFinds DEF IInv
<1>4. Found(CD, dir)
  <2> SUFFICES ASSUME NEW x \in DiskDirs, x[2] = CD, Exists(x), x[1] # "qdisk", x[2] \notin over
               PROVE  x = dir
    BY DEF Found
  <2>1. front[CD] = x
    BY <1>2 DEF IInv, MatchInv
  <2>2. ASSUME b[1] # "qdisk" PROVE b = x
    BY <1>2, <2>1, <2>2 DEF IInv, MatchInv
  <2>3. b[1] # "qdisk"
    <3>1. SUFFICES ASSUME b[1] = "qdisk" PROVE FALSE
      OBVIOUS
    <3>2. PICK i \in 1..3 : b[1] = InOrder[i] /\ \A j \in 1..(i - 1) : <<InOrder[j], CD>> \notin DiskList
      BY <1>1 DEF FoundCD
    <3>3. i = 3
      BY <3>1, <3>2 DEF InOrder
    <3>4. <<"vbd", CD>> \notin DiskList /\ <<"tap", CD>> \notin DiskList
      BY <3>2, <3>3 DEF InOrder
    <3>5. x = <<x[1], CD>> /\ x[1] \in {"vbd", "tap"} /\ x \in DiskList
      BY DirFacts DEF DiskList
    <3> QED  BY <3>4, <3>5
  <2> QED  BY <1>3, <2>2, <2>3
<1>5. CD \in Devs /\ StartDel(CD, dir, disk)
  BY <1>1, <1>3, DevFacts
<1> QED  BY <1>3, <1>4, <1>5, StartDelInv

\* What an event of a backend, or none, changes while xl waits.
LEMMA EventKeeps ==
  ASSUME BackInv, WatchInv, (\E b \in Dirs : DevDestroyed(b) \/ OtherEvent(b)) \/ TimedOut
  PROVE  /\ BackInv' /\ events' \subseteq watches' /\ watches' \subseteq watches
         /\ \A x \in Dirs : back'[x] = back[x] \/ (x \in watches /\ back'[x].state = 0)
<1>1. ASSUME NEW b \in Dirs, DevDestroyed(b)
      PROVE  /\ BackInv' /\ events' \subseteq watches' /\ watches' \subseteq watches
             /\ \A x \in Dirs : back'[x] = back[x] \/ (x \in watches /\ back'[x].state = 0)
  <2>1. /\ back' = Removed({b}) /\ b \in watches
        /\ events' = events \ {b} /\ watches' = watches \ {b} /\ events \subseteq watches
    BY <1>1 DEF DevDestroyed, WatchInv
  <2>2. BackInv' /\ \A x \in Dirs : IF x \in {b} THEN back'[x].state = 0 ELSE back'[x] = back[x]
    BY <2>1, RemovedKeeps
  <2> QED  BY <2>1, <2>2
<1>2. ASSUME (\E b \in Dirs : OtherEvent(b)) \/ TimedOut
      PROVE  /\ BackInv' /\ back' = back /\ events' \subseteq watches' /\ watches' = watches
  <2>1. back' = back /\ watches' = watches /\ events' \subseteq events
    BY <1>2 DEF OtherEvent, TimedOut
  <2>2. BackInv'
    BY <2>1 DEF BackInv, OpenedAsNamed, Exists
  <2> QED  BY <2>1, <2>2 DEF WatchInv
<1> QED  BY <1>1, <1>2

LEMMA WaitOnceInv == ASSUME IInv, WaitOnce PROVE IInv'
<1>0. /\ cmd.pc = "wait_once" /\ cmd \in CmdRec /\ Deleting /\ cmd.n = 0 /\ cmd.at = <<>>
      /\ cmd' = [cmd EXCEPT !.pc = "remove"]
      /\ UNCHANGED <<front, nics, driver, guest, left, over>>
      /\ BackInv /\ WatchInv
  BY DEF WaitOnce, IInv, CmdInv, Deleting
<1>1. /\ BackInv' /\ events' \subseteq watches' /\ watches' \subseteq watches
      /\ \A x \in Dirs : back'[x] = back[x] \/ (x \in watches /\ back'[x].state = 0)
  BY <1>0, EventKeeps DEF WaitOnce
<1>2. /\ cmd' \in CmdRec /\ cmd'.pc = "remove" /\ cmd'.dev = cmd.dev
      /\ cmd'.medium = cmd.medium /\ cmd'.todo = cmd.todo /\ cmd'.n = 0 /\ cmd'.at = <<>>
  BY <1>0 DEF CmdRec
<1>3. \A x \in Devs : Attached(x)' <=> Attached(x)
  BY <1>0 DEF Attached
<1>4. PICK dir \in Dirs :
        /\ dir[2] = cmd.dev /\ cmd.todo = {dir} /\ back[dir].state \in {0, 5, 6}
        /\ watches \subseteq {dir} /\ guest = "up" /\ Attached(cmd.dev)
        /\ \A b \in DiskDirs :
             b[2] = cmd.dev /\ Exists(b) /\ b[1] # "qdisk" /\ b[2] \notin over => b = dir
        /\ cmd.medium # NoDisk => cmd.dev = CD
  BY <1>0, DirFacts DEF IInv, CmdInv
<1>5. \A x \in Dirs : (Exists(x)' => Exists(x)) /\ (x # dir => (Exists(x)' <=> Exists(x)))
  BY <1>1, <1>4 DEF Exists
<1>6. FrontInv'
  BY <1>0, <1>3 DEF IInv, FrontInv
<1>7. NicsInv'
  BY <1>0, <1>3, NicsKeep, DevFacts DEF IInv
<1>8. WatchInv'
  <2>1. IsFiniteSet(watches')
    BY <1>0, <1>1, FS_Subset DEF WatchInv
  <2> QED  BY <1>0, <1>1, <1>2, <2>1 DEF WatchInv
<1>9. CmdInv'
  <2>1. back'[dir].state \in {0, 5, 6}
    BY <1>1, <1>4
  <2>2. \A b \in DiskDirs :
          b[2] = cmd.dev /\ Exists(b)' /\ b[1] # "qdisk" /\ b[2] \notin over' => b \in {dir}
    BY <1>0, <1>4, <1>5, DirFacts
  <2>3. watches' \subseteq {dir} /\ Examining'
    BY <1>1, <1>2, <1>4 DEF Examining
  <2> QED  BY <1>0, <1>2, <1>4, <2>1, <2>2, <2>3 DEF CmdInv, Deleting, Attached
<1>10. MatchInv'
  <2>1. Deleting'
    BY <1>2 DEF Deleting
  <2>2. ASSUME NEW b \in DiskDirs, Exists(b)', b[1] # "qdisk", b[2] \notin over'
        PROVE  front'[b[2]] = b \/ b[2] = cmd'.dev
    BY <1>0, <1>2, <1>4, <1>5, <2>2, DirFacts DEF IInv, MatchInv
  <2>3. ASSUME NEW x \in Devs, Attached(x)', x # cmd.dev PROVE Exists(front[x])'
    <3>1. Attached(x) /\ Exists(front[x]) /\ front[x] \in Dirs /\ front[x] # dir
      BY <1>3, <1>4, <2>3 DEF IInv, MatchInv, FrontInv, Attached
    <3> QED  BY <1>0, <1>5, <3>1 DEF Exists
  <2> QED  BY <1>2, <2>1, <2>2, <2>3 DEF MatchInv
<1>11. RestInv'
  BY <1>0, <1>4 DEF IInv, RestInv
<1> QED  BY <1>1, <1>6, <1>7, <1>8, <1>9, <1>10, <1>11 DEF IInv

LEMMA DelNics ==
  ASSUME IInv, Del, \A x \in Devs : Attached(x)' <=> Attached(x) /\ x # cmd.dev, cmd.dev \in Devs
  PROVE  NicsInv'
<1>0. nics \in [Nets -> [dir : BOOLEAN, list : Seq(Numbers)]]
  BY DEF IInv, NicsInv
<1> DEFINE new(k) == IF cmd.dev[1] = k THEN Without(nics[k].list, cmd.dev[2]) ELSE nics[k].list
<1>1. \A k \in Nets : nics'[k] = [nics[k] EXCEPT !.list = new(k)]
  BY DEF Del
<1>2. ASSUME NEW k \in Nets, cmd.dev[1] = k PROVE cmd.dev = <<k, cmd.dev[2]>> /\ cmd.dev[2] \in Numbers
  <2>1. k \in {"vif", "vif2"} /\ Consoles \subseteq {"console", "vkbd", "vfb"}
    BY DevicesAssumption
  <2>2. cmd.dev \in Nets \X (0..MaxNic)
    BY <1>2, <2>1 DEF Devs, Fixed, CD
  <2> QED  BY <1>2, <2>2 DEF Numbers
<1>3. ASSUME NEW k \in Nets
      PROVE  /\ new(k) \in Seq(Numbers) /\ Increasing(new(k))
             /\ \A n \in Numbers : (\E i \in DOMAIN new(k) : new(k)[i] = n)
                                    <=> (\E i \in DOMAIN nics[k].list : nics[k].list[i] = n)
                                          /\ <<k, n>> # cmd.dev
  <2>1. nics[k].list \in Seq(Numbers) /\ Increasing(nics[k].list)
    BY DEF IInv, NicsInv
  <2>2. CASE cmd.dev[1] = k
    <3>1. new(k) = Without(nics[k].list, cmd.dev[2])
      BY <2>2
    <3>2. \A n \in Numbers : <<k, n>> # cmd.dev <=> n # cmd.dev[2]
      BY <1>2, <2>2
    <3> HIDE DEF new
    <3>3. /\ new(k) \in Seq(Numbers) /\ Increasing(new(k))
          /\ \A n \in Numbers : (\E i \in DOMAIN new(k) : new(k)[i] = n)
                                 <=> (\E i \in DOMAIN nics[k].list : nics[k].list[i] = n)
                                       /\ n # cmd.dev[2]
      <4>1. PICK list \in Seq(Numbers) : list = nics[k].list
        BY <2>1
      <4>2. PICK m \in Numbers : m = cmd.dev[2]
        BY <1>2, <2>2
      <4>3. new(k) = Without(list, m) /\ Increasing(list)
        BY <2>1, <3>1, <4>1, <4>2
      <4>4. /\ Without(list, m) \in Seq(Numbers) /\ Increasing(Without(list, m))
            /\ \A n \in Numbers : (\E i \in DOMAIN Without(list, m) : Without(list, m)[i] = n)
                                   <=> (\E i \in DOMAIN list : list[i] = n) /\ n # m
        BY <4>3, WithoutNic
      <4> QED  BY <4>1, <4>2, <4>3, <4>4
    <3> QED  BY <3>2, <3>3
  <2>3. CASE cmd.dev[1] # k
    <3>1. new(k) = nics[k].list /\ \A n \in Numbers : <<k, n>> # cmd.dev
      BY <2>3
    <3> HIDE DEF new
    <3> QED  BY <2>1, <3>1
  <2> QED  BY <2>2, <2>3
<1> HIDE DEF new
<1>4. \A k \in Nets : nics'[k] \in [dir : BOOLEAN, list : Seq(Numbers)] /\ nics'[k].list = new(k)
  <2> TAKE k \in Nets
  <2>1. /\ nics[k] \in [dir : BOOLEAN, list : Seq(Numbers)] /\ new(k) \in Seq(Numbers)
        /\ nics'[k] = [nics[k] EXCEPT !.list = new(k)]
    BY <1>0, <1>1, <1>3
  <2> QED  BY <2>1
<1>5. nics' = [k \in Nets |-> nics'[k]]
  BY DEF Del
<1>6. nics' \in [Nets -> [dir : BOOLEAN, list : Seq(Numbers)]]
  BY <1>4, <1>5
<1>7. ASSUME NEW k \in Nets, NEW n \in Numbers
      PROVE  Attached(<<k, n>>)' <=> \E i \in DOMAIN nics'[k].list : nics'[k].list[i] = n
  <2>1. <<k, n>> \in Devs
    BY DevFacts
  <2>2. Attached(<<k, n>>)' <=> Attached(<<k, n>>) /\ <<k, n>> # cmd.dev
    BY <2>1
  <2>3. Attached(<<k, n>>) <=> \E i \in DOMAIN nics[k].list : nics[k].list[i] = n
    BY DEF IInv, NicsInv
  <2> QED  BY <1>3, <1>4, <2>2, <2>3
<1>8. \A k \in Nets : Increasing(nics'[k].list)
  BY <1>3, <1>4
<1> QED  BY <1>6, <1>7, <1>8 DEF NicsInv

LEMMA DelInv == ASSUME IInv, Del PROVE IInv'
<1>0. /\ cmd.pc = "remove" /\ cmd \in CmdRec /\ Deleting /\ cmd.n = 0 /\ cmd.dev \in Devs
      /\ front' = [front EXCEPT ![cmd.dev] = <<>>]
      /\ back' = Removed(Leaving(cmd.dev)) /\ cmd.at = <<>>
      /\ UNCHANGED <<driver, guest, left, over>>
      /\ BackInv /\ WatchInv /\ front \in [Devs -> Dirs \cup {<<>>}]
  BY DEF Del, IInv, CmdInv, CmdRec, FrontInv, Deleting, Examining
<1>1. PICK dir \in Dirs :
        /\ dir[2] = cmd.dev /\ cmd.todo = {dir} /\ back[dir].state \in {0, 5, 6}
        /\ watches \subseteq {dir} /\ guest = "up" /\ Attached(cmd.dev)
        /\ \A b \in DiskDirs :
             b[2] = cmd.dev /\ Exists(b) /\ b[1] # "qdisk" /\ b[2] \notin over => b = dir
        /\ cmd.medium # NoDisk => cmd.dev = CD
  BY <1>0, DirFacts DEF IInv, CmdInv
<1>2. /\ BackInv' /\ \A x \in Dirs : Exists(x)' <=> Exists(x) /\ x \notin Leaving(cmd.dev)
  BY <1>0, RemovedKeeps
<1>3. \A x \in Devs : /\ front'[x] = IF x = cmd.dev THEN <<>> ELSE front[x]
                      /\ (Attached(x)' <=> Attached(x) /\ x # cmd.dev)
  BY <1>0 DEF Attached
<1>4. FrontInv'
  BY <1>0, <1>3 DEF IInv, FrontInv
<1>5. NicsInv'
  BY <1>0, <1>3, DelNics
<1>6. CmdInv' /\ WatchInv' /\ ~(Deleting')
  <2>1. CASE cmd.medium = NoDisk
    <3>1. cmd' = Idle /\ watches' = {} /\ events' = {}
      BY <2>1 DEF Del
    <3> QED  BY <3>1, IdleHolds, IdleCmd DEF Deleting
  <2>2. CASE cmd.medium # NoDisk
    <3>1. /\ cmd' = [cmd EXCEPT !.pc = "insert"] /\ watches' = watches
          /\ Notify(Leaving(cmd.dev))
      BY <2>2 DEF Del
    <3>2. /\ cmd' \in CmdRec /\ cmd'.pc = "insert" /\ cmd'.n = 0 /\ cmd'.dev = cmd.dev
          /\ cmd'.medium = cmd.medium /\ cmd'.at = <<>>
      BY <1>0, <3>1 DEF CmdRec
    <3>3. events' \subseteq watches
      BY <1>0, <3>1, NotifyWatched
    <3>4. WatchInv'
      BY <1>0, <3>1, <3>2, <3>3 DEF WatchInv
    <3>5. CD \in Devs /\ cmd.dev = CD /\ ~(Attached(CD)')
      BY <1>1, <1>3, <2>2, DevFacts
    <3>6. CmdInv'
      BY <1>0, <1>1, <2>2, <3>2, <3>5 DEF CmdInv, Deleting, Attached, Examining
    <3> QED  BY <3>2, <3>4, <3>6 DEF Deleting
  <2> QED  BY <2>1, <2>2
<1>7. MatchInv'
  <2>1. ASSUME NEW b \in DiskDirs, Exists(b)', b[1] # "qdisk", b[2] \notin over' PROVE front'[b[2]] = b
    <3>1. Exists(b) /\ b[2] \notin over /\ b \notin Leaving(cmd.dev) /\ b[2][1] = "vbd" /\ b[2] \in Devs
      BY <1>0, <1>2, <2>1, DirFacts
    <3>2. b[2] # cmd.dev
      <4>1. SUFFICES ASSUME b[2] = cmd.dev PROVE FALSE
        OBVIOUS
      <4>2. Leaving(cmd.dev) = {dir} /\ b = dir
        BY <1>1, <2>1, <3>1, <4>1 DEF Leaving
      <4> QED  BY <3>1, <4>2
    <3>3. front[b[2]] = b
      BY <1>1, <2>1, <3>1, <3>2 DEF IInv, MatchInv
    <3> QED  BY <1>3, <3>1, <3>2, <3>3
  <2>2. ASSUME NEW x \in Devs, Attached(x)' PROVE Exists(front[x])'
    <3>1. /\ Attached(x) /\ x # cmd.dev /\ Exists(front[x]) /\ front[x] \in Dirs
          /\ front[x][2] = x /\ front'[x] = front[x]
      BY <1>1, <1>3, <2>2 DEF IInv, MatchInv, FrontInv, Attached
    <3>2. front[x] \notin Leaving(cmd.dev)
      BY <1>1, <3>1 DEF Leaving
    <3> QED  BY <1>2, <3>1, <3>2 DEF Exists
  <2> QED  BY <2>1, <2>2 DEF MatchInv
<1>8. RestInv'
  BY <1>0, <1>1 DEF IInv, RestInv
<1> QED  BY <1>2, <1>4, <1>5, <1>6, <1>7, <1>8 DEF IInv

LEMMA InsertInv == ASSUME IInv, Insert PROVE IInv'
<1>0. /\ cmd.pc = "insert" /\ guest = "up" /\ cmd.dev = CD /\ ~Attached(CD) /\ CD \in Devs
      /\ cmd.medium # NoDisk /\ cmd.medium \in Mediums /\ ~Deleting
      /\ DiskAdd(cmd.dev, cmd.medium) \/ BadImage(cmd.medium)
      /\ cmd' = Idle /\ watches' = {} /\ events' = {}
      /\ UNCHANGED <<nics, driver, guest, left, over>>
  BY DevFacts DEF Insert, IInv, CmdInv, CmdRec, Deleting
<1>1. CmdInv' /\ WatchInv' /\ ~(Deleting')
  BY <1>0, IdleHolds, IdleCmd DEF Deleting
<1>2. FrontInv' /\ BackInv' /\ MatchInv' /\ \A x \in Devs : x # CD => (Attached(x)' <=> Attached(x))
  <2>1. CASE BadImage(cmd.medium)
    <3>1. front' = front /\ back' = back
      BY <2>1 DEF BadImage
    <3>2. FrontInv' /\ BackInv'
      BY <3>1 DEF IInv, FrontInv, BackInv, Attached, Exists, OpenedAsNamed
    <3>3. MatchInv'
      BY <1>0, <3>1 DEF IInv, MatchInv, Attached, Exists
    <3> QED  BY <3>1, <3>2, <3>3 DEF Attached
  <2>2. CASE DiskAdd(cmd.dev, cmd.medium)
    <3>1. PICK disk \in Mediums : disk = cmd.medium /\ GoodDisk(disk) /\ DiskAdd(CD, disk)
      BY <1>0, <2>2, MediumGood
    <3> DEFINE w == DiskBackend(disk)
               e == DiskEntry(disk)
    <3>2. CD[1] = "vbd"
      BY DEF CD
    <3>3. <<w, CD>> \in Dirs /\ GoodEntry(<<w, CD>>, e) /\ e.state = 1 /\ AddOne(w, CD, e)
      BY <1>0, <3>1, <3>2, DiskAddIsAdd, DirFacts
    <3> HIDE DEF w, e
    <3>4. FrontInv' /\ BackInv' /\ \A x \in Devs : x # CD => (Attached(x)' <=> Attached(x))
      BY <1>0, <3>3, AddKeeps DEF IInv
    <3>5. MatchInv'
      BY <1>0, <3>3, AddMatches DEF IInv
    <3> QED  BY <3>4, <3>5
  <2> QED  BY <1>0, <2>1, <2>2
<1>3. NicsInv'
  <2>1. \A k \in Nets, n \in Numbers : <<k, n>> \in Devs /\ <<k, n>> # CD
    BY DevFacts DEF Fixed
  <2> QED  BY <1>0, <1>2, <2>1, NicsKeep DEF IInv
<1>4. RestInv'
  BY <1>0 DEF IInv, RestInv
<1> QED  BY <1>1, <1>2, <1>3, <1>4 DEF IInv

-----------------------------------------------------------------------------
(* The invariant: destroying the guest *)

LEMMA DestroyInv == ASSUME IInv, Destroy PROVE IInv'
<1>0. /\ cmd.pc = "idle" /\ watches = {} /\ guest' = "paused"
      /\ cmd' = [Idle EXCEPT !.pc = "destroy", !.todo = {front[d] : d \in {x \in Devs : Attached(x)}}]
      /\ UNCHANGED <<front, nics, back, driver, left, watches, events, over>>
  BY DEF Destroy, IInv, WatchInv
<1>1. {front[d] : d \in {x \in Devs : Attached(x)}} \subseteq Dirs
  BY DEF IInv, FrontInv, Attached
<1>2. cmd' \in CmdRec /\ cmd'.pc = "destroy" /\ cmd'.n = 0 /\ cmd'.at = <<>>
  BY <1>0, <1>1, IdleCmd DEF Idle, CmdRec
<1>3. \A x \in Devs : Attached(x)' <=> Attached(x)
  BY <1>0 DEF Attached
<1>4. FrontInv'
  BY <1>0, <1>3 DEF IInv, FrontInv
<1>5. NicsInv'
  BY <1>0, <1>3, NicsKeep, DevFacts DEF IInv
<1>6. BackInv'
  BY <1>0 DEF IInv, BackInv, Exists, OpenedAsNamed
<1>7. WatchInv'
  <2>1. Cardinality({}) = 0
    BY FS_EmptySet
  <2>2. <<>> \notin cmd'.todo
    BY <1>0, <1>1, <1>2, DirFacts
  <2> QED  BY <1>0, <1>2, <2>1, <2>2 DEF IInv, WatchInv
<1>8. CmdInv'
  BY <1>0, <1>2 DEF CmdInv, Deleting, Examining
<1>9. MatchInv'
  BY <1>0 DEF MatchInv
<1>10. RestInv'
  BY <1>0 DEF IInv, RestInv
<1> QED  BY <1>4, <1>5, <1>6, <1>7, <1>8, <1>9, <1>10 DEF IInv

\* A step of the destruction: the frontends stay.
LEMMA DestroyingInv ==
  ASSUME IInv, cmd.pc = "destroy", UNCHANGED <<front, nics, driver, guest, left, over>>, BackInv',
         cmd' \in CmdRec, cmd'.pc = "destroy", IsFiniteSet(watches)', Examining',
         watches' \subseteq Dirs, events' \subseteq watches', cmd'.todo \cap watches' = {},
         cmd'.at \notin watches' \cup cmd'.todo, cmd'.n <= Cardinality(watches')
  PROVE  IInv'
<1>0. guest = "paused"
  BY DEF IInv, CmdInv
<1>1. \A x \in Devs : Attached(x)' <=> Attached(x)
  BY DEF Attached
<1>2. FrontInv'
  BY <1>1 DEF IInv, FrontInv
<1>3. NicsInv'
  BY <1>1, NicsKeep, DevFacts DEF IInv
<1>4. WatchInv'
  BY DEF WatchInv
<1>5. CmdInv'
  BY <1>0 DEF CmdInv, Deleting
<1>6. MatchInv'
  BY <1>0 DEF MatchInv
<1>7. RestInv'
  BY <1>0 DEF IInv, RestInv
<1> QED  BY <1>2, <1>3, <1>4, <1>5, <1>6, <1>7 DEF IInv

LEMMA DestroyNextInv == ASSUME IInv, NEW b \in Dirs, DestroyNext(b) PROVE IInv'
<1>0. /\ cmd.pc = "destroy" /\ b \in cmd.todo /\ cmd \in CmdRec /\ BackInv
      /\ cmd' = Examine([cmd EXCEPT !.todo = cmd.todo \ {b}], b)
      /\ UNCHANGED <<front, nics, back, driver, guest, left, watches, events, over>>
  BY DEF DestroyNext, IInv, CmdInv
<1>1. BackInv'
  BY <1>0 DEF BackInv, Exists, OpenedAsNamed
<1>2. /\ cmd' \in CmdRec /\ cmd'.pc = "destroy" /\ cmd'.todo = cmd.todo \ {b} /\ cmd'.n = cmd.n
      /\ cmd'.at = b /\ cmd'.seen = back[b].state
  <2> DEFINE rest == cmd.todo \ {b}
             s == back[b].state
  <2>1. s \in {0, 1, 4, 5, 6} /\ rest \subseteq Dirs
    BY <1>0 DEF BackInv, BackRec, CmdRec
  <2>2. cmd' = [cmd EXCEPT !.todo = rest, !.at = b, !.seen = s]
    BY <1>0 DEF Examine, CmdRec
  <2> HIDE DEF rest, s
  <2>3. /\ cmd' \in CmdRec /\ cmd'.pc = "destroy" /\ cmd'.todo = rest /\ cmd'.n = cmd.n
        /\ cmd'.at = b /\ cmd'.seen = s
    BY <1>0, <2>1, <2>2 DEF CmdRec
  <2> QED  BY <2>3 DEF rest, s
<1>3. /\ IsFiniteSet(watches) /\ watches \subseteq Dirs /\ events \subseteq watches
      /\ cmd.todo \cap watches = {} /\ cmd.n <= Cardinality(watches)
  BY <1>0 DEF IInv, WatchInv
<1>4. Examining'
  BY <1>0, <1>2 DEF Examining, Exists
<1>5. /\ IsFiniteSet(watches)' /\ watches' \subseteq Dirs /\ events' \subseteq watches'
      /\ cmd'.todo \cap watches' = {} /\ cmd'.at \notin watches' \cup cmd'.todo
      /\ cmd'.n <= Cardinality(watches')
  BY <1>0, <1>2, <1>3
<1> QED  BY <1>0, <1>1, <1>2, <1>4, <1>5, DestroyingInv

\* The command after libxl__device_destroy.
LEMMA DestroyedCmd ==
  ASSUME IInv, DeviceDestroy
  PROVE  /\ cmd' \in CmdRec /\ cmd'.pc = cmd.pc /\ cmd'.todo = cmd.todo /\ cmd'.dev = cmd.dev
         /\ cmd'.medium = cmd.medium /\ cmd'.at = <<>>
         /\ cmd'.n = IF cmd.pc = "destroy" /\ ToldToClose THEN cmd.n + 1 ELSE cmd.n
<1> DEFINE m == IF cmd.pc = "destroy" /\ ToldToClose THEN cmd.n + 1 ELSE cmd.n
<1>1. cmd \in CmdRec /\ cmd.n \in Nat
  BY DEF IInv, CmdInv, CmdRec
<1>2. m \in Nat /\ cmd' = [cmd EXCEPT !.at = <<>>, !.seen = 0, !.n = m]
  BY <1>1 DEF DeviceDestroy
<1> HIDE DEF m
<1>3. /\ cmd' \in CmdRec /\ cmd'.pc = cmd.pc /\ cmd'.todo = cmd.todo /\ cmd'.dev = cmd.dev
      /\ cmd'.medium = cmd.medium /\ cmd'.at = <<>> /\ cmd'.n = m
  BY <1>1, <1>2 DEF CmdRec
<1> QED  BY <1>3 DEF m

LEMMA DeviceDestroyInv == ASSUME IInv, DeviceDestroy PROVE IInv'
<1>0. /\ UNCHANGED <<front, nics, driver, guest, left, over>>
      /\ cmd \in CmdRec /\ cmd.at \in Dirs /\ cmd.pc \in {"wait_once", "destroy"}
      /\ IsFiniteSet(watches) /\ watches \subseteq Dirs
  BY DEF DeviceDestroy, IInv, CmdInv, CmdRec, Examining, WatchInv
<1>1. PICK b \in Dirs : b = cmd.at
  BY <1>0
<1>2. /\ BackInv' /\ back'[b].state \in {0, 5} /\ events' \subseteq watches'
      /\ \A x \in Dirs : Exists(x)' => Exists(x)
      /\ \A x \in Dirs : x # b => (Exists(x)' <=> Exists(x))
      /\ ToldToClose => watches' = watches \cup {b}
      /\ ~ToldToClose => watches' = watches
  BY <1>1, DestroyedOrTold
<1>3. /\ cmd' \in CmdRec /\ cmd'.pc = cmd.pc /\ cmd'.todo = cmd.todo /\ cmd'.dev = cmd.dev
      /\ cmd'.medium = cmd.medium /\ cmd'.at = <<>>
      /\ cmd'.n = IF cmd.pc = "destroy" /\ ToldToClose THEN cmd.n + 1 ELSE cmd.n
  BY DestroyedCmd
<1>4. Examining'
  BY <1>3 DEF Examining
<1>5. CASE cmd.pc = "destroy"
  <2>1. /\ cmd.todo \cap watches = {} /\ b \notin watches /\ b \notin cmd.todo
        /\ cmd.n <= Cardinality(watches) /\ Cardinality(watches) \in Nat /\ cmd.n \in Nat
        /\ cmd.todo \subseteq Dirs
    BY <1>0, <1>1, <1>5, FS_CardinalityType DEF IInv, WatchInv, CmdRec
  <2>2. /\ IsFiniteSet(watches)' /\ watches' \subseteq Dirs /\ cmd'.n <= Cardinality(watches')
        /\ cmd'.todo \cap watches' = {}
    <3>1. CASE ToldToClose
      <4>1. watches' = watches \cup {b} /\ cmd'.n = cmd.n + 1
        BY <1>2, <1>3, <1>5, <3>1
      <4>2. IsFiniteSet(watches \cup {b}) /\ Cardinality(watches \cup {b}) = Cardinality(watches) + 1
        BY <1>0, <2>1, FS_AddElement
      <4> QED  BY <1>0, <1>3, <2>1, <4>1, <4>2
    <3>2. CASE ~ToldToClose
      BY <1>0, <1>2, <1>3, <2>1, <3>2
    <3> QED  BY <3>1, <3>2
  <2>3. cmd'.at \notin watches' \cup cmd'.todo
    BY <1>3, <2>1, <2>2, DirFacts
  <2> QED  BY <1>0, <1>2, <1>3, <1>4, <1>5, <2>2, <2>3, DestroyingInv
<1>6. CASE cmd.pc = "wait_once"
  <2>1. Deleting /\ cmd'.pc = "wait_once" /\ cmd'.n = 0 /\ Deleting'
    BY <1>3, <1>6 DEF Deleting, IInv, CmdInv
  <2>2. PICK dir \in Dirs :
          /\ dir[2] = cmd.dev /\ cmd.todo = {dir} /\ dir = b
          /\ watches \subseteq {dir} /\ guest = "up" /\ Attached(cmd.dev)
          /\ \A x \in DiskDirs :
               x[2] = cmd.dev /\ Exists(x) /\ x[1] # "qdisk" /\ x[2] \notin over => x = dir
          /\ cmd.medium # NoDisk => cmd.dev = CD
    BY <1>1, <2>1, DirFacts DEF IInv, CmdInv
  <2>3. \A x \in Devs : Attached(x)' <=> Attached(x)
    BY <1>0 DEF Attached
  <2>4. FrontInv'
    BY <1>0, <2>3 DEF IInv, FrontInv
  <2>5. NicsInv'
    BY <1>0, <2>3, NicsKeep, DevFacts DEF IInv
  <2>6. watches' \subseteq {dir}
    BY <1>2, <2>2
  <2>7. WatchInv'
    <3>1. IsFiniteSet(watches')
      BY <2>6, FS_Singleton, FS_Subset
    <3> QED  BY <1>2, <2>1, <2>6, <3>1 DEF WatchInv
  <2>8. CmdInv'
    <3>1. back'[dir].state \in {0, 5, 6} /\ cmd'.at = <<>>
      BY <1>2, <1>3, <2>2
    <3>2. \A x \in DiskDirs :
            x[2] = cmd.dev /\ Exists(x)' /\ x[1] # "qdisk" /\ x[2] \notin over' => x \in {dir}
      BY <1>0, <1>2, <2>2, DirFacts
    <3> QED  BY <1>0, <1>3, <1>4, <2>1, <2>2, <2>6, <3>1, <3>2 DEF CmdInv, Deleting, Attached
  <2>9. MatchInv'
    <3>1. ASSUME NEW x \in DiskDirs, Exists(x)', x[1] # "qdisk", x[2] \notin over'
          PROVE  front'[x[2]] = x \/ x[2] = cmd'.dev
      BY <1>0, <1>2, <1>3, <2>2, <3>1, DirFacts DEF IInv, MatchInv
    <3>2. ASSUME NEW x \in Devs, Attached(x)', x # cmd.dev PROVE Exists(front[x])'
      <4>1. Attached(x) /\ Exists(front[x]) /\ front[x] \in Dirs /\ front[x] # dir
        BY <2>2, <2>3, <3>2 DEF IInv, MatchInv, FrontInv, Attached
      <4> QED  BY <1>0, <1>2, <2>2, <4>1 DEF Exists
    <3> QED  BY <1>3, <2>1, <3>1, <3>2 DEF MatchInv
  <2>10. RestInv'
    BY <1>0, <2>2 DEF IInv, RestInv
  <2> QED  BY <1>2, <2>4, <2>5, <2>7, <2>8, <2>9, <2>10 DEF IInv
<1> QED  BY <1>0, <1>5, <1>6

LEMMA DestroyWaitInv == ASSUME IInv, DestroyWait PROVE IInv'
<1>0. /\ cmd.pc = "destroy" /\ cmd.todo = {} /\ cmd.n > 0 /\ cmd \in CmdRec /\ cmd.n \in Nat
      /\ cmd.at = <<>>
      /\ UNCHANGED <<front, nics, driver, guest, left, over>>
      /\ BackInv /\ WatchInv
      /\ IsFiniteSet(watches) /\ watches \subseteq Dirs /\ cmd.n <= Cardinality(watches)
      /\ Cardinality(watches) \in Nat
  BY FS_CardinalityType DEF DestroyWait, IInv, CmdInv, CmdRec, WatchInv
<1>1. /\ BackInv' /\ events' \subseteq watches' /\ watches' \subseteq watches
  BY <1>0, EventKeeps DEF DestroyWait
<1>2. IsFiniteSet(watches') /\ watches' \subseteq Dirs
  BY <1>0, <1>1, FS_Subset
<1>3. /\ cmd' \in CmdRec /\ cmd'.pc = "destroy" /\ cmd'.todo = {} /\ cmd'.at = <<>>
      /\ cmd'.n <= Cardinality(watches')
  <2>1. CASE (\E b \in Dirs : DevDestroyed(b)) /\ cmd' = [cmd EXCEPT !.n = cmd.n - 1]
    <3>1. PICK b \in Dirs : DevDestroyed(b)
      BY <2>1
    <3>2. b \in watches /\ watches' = watches \ {b}
      BY <1>0, <3>1 DEF DevDestroyed, WatchInv
    <3>3. Cardinality(watches \ {b}) = Cardinality(watches) - 1
      BY <1>0, <3>2, FS_RemoveElement
    <3>4. cmd.n - 1 \in Nat
      BY <1>0
    <3>5. cmd' \in CmdRec /\ cmd'.pc = "destroy" /\ cmd'.todo = {} /\ cmd'.n = cmd.n - 1 /\ cmd'.at = <<>>
      BY <1>0, <2>1, <3>4 DEF CmdRec
    <3> QED  BY <1>0, <3>2, <3>3, <3>5
  <2>2. CASE cmd' = [cmd EXCEPT !.n = 0]
    <3>1. cmd' \in CmdRec /\ cmd'.pc = "destroy" /\ cmd'.todo = {} /\ cmd'.n = 0 /\ cmd'.at = <<>>
      BY <1>0, <2>2 DEF CmdRec
    <3>2. Cardinality(watches') \in Nat
      BY <1>2, FS_CardinalityType
    <3> QED  BY <3>1, <3>2
  <2> QED  BY <2>1, <2>2 DEF DestroyWait
<1>4. Examining' /\ cmd'.at \notin watches' \cup cmd'.todo
  BY <1>2, <1>3, DirFacts DEF Examining
<1> QED  BY <1>0, <1>1, <1>2, <1>3, <1>4, DestroyingInv

LEMMA FinishInv == ASSUME IInv, Finish PROVE IInv'
<1>0. /\ front' = [d \in Devs |-> <<>>]
      /\ nics' = [k \in Nets |-> [dir |-> FALSE, list |-> <<>>]]
      /\ guest' = "gone" /\ cmd' = Idle /\ watches' = {} /\ events' = {}
      /\ UNCHANGED <<back, driver, left, over>>
  BY DEF Finish, ForgetGuest
<1>1. (nics = [k \in Nets |-> [dir |-> FALSE, list |-> <<>>]] /\ front = [d \in Devs |-> <<>>]
         => FrontInv /\ NicsInv)'
  BY NoNics, PTL
<1>2. FrontInv' /\ NicsInv'
  BY <1>0, <1>1
<1>3. BackInv'
  BY <1>0 DEF IInv, BackInv, Exists, OpenedAsNamed
<1>4. CmdInv' /\ WatchInv'
  BY <1>0, IdleHolds
<1>5. MatchInv'
  BY <1>0 DEF MatchInv
<1>6. RestInv'
  BY <1>0 DEF IInv, RestInv
<1> QED  BY <1>2, <1>3, <1>4, <1>5, <1>6 DEF IInv

-----------------------------------------------------------------------------
(* The theorems *)

LEMMA EjectInv == ASSUME IInv, GuestEjects PROVE IInv'
<1>1. front[CD] \in DiskDirs
  <2>1. CD \in Devs /\ CD[1] = "vbd" /\ Attached(CD)
    BY DevFacts DEF GuestEjects, CD
  <2>2. front[CD] \in Dirs /\ front[CD][2] = CD
    BY <2>1 DEF IInv, FrontInv, Attached
  <2> QED  BY <2>1, <2>2, DirFacts
<1>2. EjectedDisk(front[CD]) \in Mediums /\ ChangeMedium(EjectedDisk(front[CD]))
  BY <1>1 DEF Mediums, GuestEjects
<1>3. PICK disk \in Mediums : disk = EjectedDisk(front[CD])
  BY <1>2
<1> QED  BY <1>2, <1>3, ChangeMediumInv

LEMMA StutterInv == ASSUME IInv, UNCHANGED vars PROVE IInv'
<1> USE DEF vars
<1>1. FrontInv' /\ NicsInv'
  BY DEF IInv, FrontInv, NicsInv, Attached
<1>2. BackInv'
  BY DEF IInv, BackInv, Exists, OpenedAsNamed
<1>3. WatchInv' /\ CmdInv'
  BY DEF IInv, WatchInv, CmdInv, Deleting, Attached, Exists, Examining
<1>4. MatchInv' /\ RestInv'
  BY DEF IInv, MatchInv, RestInv, Deleting, Attached, Exists
<1> QED  BY <1>1, <1>2, <1>3, <1>4 DEF IInv

\* The steps of Next, one by one.
LEMMA NextSteps ==
  ASSUME Next
  PROVE  \/ Create \/ GuestEjects \/ Destroy \/ WaitOnce \/ Del \/ Insert \/ DestroyWait \/ Finish
         \/ \E spec \in Specs : CdInsert(spec) \/ \E d \in Devs : BlockAttach(d, spec)
         \/ NetworkAttach \/ Network2Attach
         \/ \E d \in Devs : BlockDetach(d)
         \/ \E n \in Numbers : NetworkDetach(n) \/ Network2Detach(n)
         \/ DeviceDestroy
         \/ \E b \in Dirs : DestroyNext(b) \/ Connect(b) \/ Close(b)
BY DEF Next, User, Command, Drivers, Numbers

LEMMA NextInv == ASSUME IInv, [Next]_vars PROVE IInv'
<1>1. CASE Create
  BY <1>1, CreateInv
<1>2. ASSUME NEW spec \in Specs, CdInsert(spec) PROVE IInv'
  <2>1. PICK disk \in Mediums : disk = ParseDisk(spec)
    BY DEF Mediums, Media
  <2> QED  BY <1>2, <2>1, ChangeMediumInv DEF CdInsert
<1>3. ASSUME NEW spec \in Specs, NEW d \in Devs, BlockAttach(d, spec) PROVE IInv'
  BY <1>3, BlockAttachInv
<1>4. CASE NetworkAttach
  BY <1>4, NicAddInv DEF NetworkAttach
<1>5. CASE Network2Attach
  BY <1>5, NicAddInv DEF Network2Attach
<1>6. ASSUME NEW d \in Devs, BlockDetach(d) PROVE IInv'
  BY <1>6, BlockDetachInv
<1>7. CASE GuestEjects
  BY <1>7, EjectInv
<1>8. ASSUME NEW n \in Numbers, NetworkDetach(n) PROVE IInv'
  BY <1>8, NicDetachInv DEF NetworkDetach
<1>9. ASSUME NEW n \in Numbers, Network2Detach(n) PROVE IInv'
  BY <1>9, NicDetachInv DEF Network2Detach
<1>10. CASE Destroy
  BY <1>10, DestroyInv
<1>11. CASE WaitOnce
  BY <1>11, WaitOnceInv
<1>12. CASE Del
  BY <1>12, DelInv
<1>13. CASE Insert
  BY <1>13, InsertInv
<1>14. ASSUME NEW b \in Dirs, DestroyNext(b) PROVE IInv'
  BY <1>14, DestroyNextInv
<1>15. CASE DestroyWait
  BY <1>15, DestroyWaitInv
<1>16. CASE Finish
  BY <1>16, FinishInv
<1>17. ASSUME NEW b \in Dirs, Connect(b) PROVE IInv'
  BY <1>17, ConnectInv
<1>18. ASSUME NEW b \in Dirs, Close(b) PROVE IInv'
  BY <1>18, CloseInv
<1>19. CASE UNCHANGED vars
  BY <1>19, StutterInv
<1>20. CASE DeviceDestroy
  BY <1>20, DeviceDestroyInv
<1> QED  BY <1>1, <1>2, <1>3, <1>4, <1>5, <1>6, <1>7, <1>8, <1>9, <1>10, <1>11, <1>12, <1>13,
            <1>14, <1>15, <1>16, <1>17, <1>18, <1>19, <1>20, NextSteps

THEOREM Invariant == Spec => []IInv
<1>1. Init => IInv
  BY InitInv
<1>2. IInv /\ [Next]_vars => IInv'
  BY NextInv
<1> QED  BY <1>1, <1>2, PTL DEF Spec

\* What the runs call the type invariant.
LEMMA InvType == IInv => TypeOK
<1> SUFFICES ASSUME IInv PROVE TypeOK
  OBVIOUS
<1>1. \A d \in Devs : Attached(d) => front[d] \in Dirs /\ front[d][2] = d
  BY DEF IInv, FrontInv, Attached
<1>2. /\ DOMAIN nics = Nets
      /\ \A k \in Nets :
           /\ nics[k].dir \in BOOLEAN
           /\ \A n \in 0..MaxNic : Attached(<<k, n>>) <=> \E i \in DOMAIN nics[k].list : nics[k].list[i] = n
  BY DEF IInv, NicsInv, Numbers
<1>3. \A b \in Dirs : /\ back[b].state \in {0, 1, 4, 5, 6}
                      /\ back[b].type \in {"phy", "tap", "qdisk", None}
                      /\ back[b].image \in Specs \cup {None}
  BY DEF IInv, BackInv, BackRec
<1>4. /\ driver \subseteq Dirs /\ guest \in {"new", "up", "paused", "gone"} /\ left \in 0..MaxCommand
      /\ over \subseteq Devs
  BY DEF IInv, RestInv
<1>5. /\ cmd.pc \in {"idle", "wait_once", "remove", "insert", "destroy"}
      /\ cmd.dev \in Devs /\ cmd.medium \in Mediums /\ cmd.todo \subseteq Dirs /\ cmd.n \in Nat
      /\ cmd.at \in Dirs \cup {<<>>} /\ cmd.seen \in {0, 1, 4, 5, 6}
  BY DEF IInv, CmdInv, CmdRec
<1>6. events \subseteq watches /\ watches \subseteq Dirs /\ (cmd.pc = "idle" => watches = {})
  BY DEF IInv, WatchInv
<1>7. cmd.n \in 0..Cardinality(watches)
  <2>1. Cardinality(watches) \in Nat
    BY FS_CardinalityType DEF IInv, WatchInv
  <2>2. cmd.n <= Cardinality(watches)
    BY <1>5, <2>1 DEF IInv, WatchInv, CmdInv
  <2> QED  BY <1>5, <2>1, <2>2
<1> QED  BY <1>1, <1>2, <1>3, <1>4, <1>5, <1>6, <1>7 DEF TypeOK, Mediums

\* Between two commands, libxl finds every disk where it put it, but those of qemu
\* and those in whose place another one was attached, and every frontend has its
\* backend: TypeOK and BackendMatches.
THEOREM BackendsMatch == Spec => []BackendMatches
<1>1. ASSUME IInv PROVE BackendMatches
  <2>1. TypeOK
    BY <1>1, InvType
  <2>2. cmd.pc = "idle" => ~Deleting
    BY DEF Deleting
  <2> QED  BY <1>1, <2>1, <2>2 DEF IInv, MatchInv, BackendMatches
<1> QED  BY <1>1, Invariant, PTL

\* Every image is open with the driver that its specification names, and with none
\* if tapdisk does not serve it: the tables of xl, libxl and tapdisk agree on it.
THEOREM ImagesOpenedAsNamed == Spec => []OpenedAsNamed
<1>1. IInv => OpenedAsNamed
  BY DEF IInv, BackInv
<1> QED  BY <1>1, Invariant, PTL

-----------------------------------------------------------------------------
(* A connected backend is told before it goes *)

Told ==
  \A b \in Dirs :
    /\ back[b].state = 4 /\ front[b[2]] = b
    /\ ~(cmd.at = b /\ ~ToldToClose) /\ b[2] \notin over'
    => back'[b].state \in {4, 5}

LEMMA DestroyTells == ASSUME IInv, DeviceDestroy PROVE Told
<1>1. PICK b \in Dirs : b = cmd.at
  BY DEF DeviceDestroy, IInv, CmdInv, CmdRec
<1>2. /\ back'[b].state \in {0, 5} /\ \A x \in Dirs : x # b => back'[x] = back[x]
  BY <1>1, DestroyedOrTold
<1>3. CASE ToldToClose
  <2>1. SetState(b, 5) /\ Exists(b)
    BY <1>1, <1>3, DirFacts DEF DeviceDestroy, ToldToClose, IInv, CmdInv, Examining, Exists
  <2>2. back'[b].state = 5
    BY <2>1, SetStateKeeps DEF IInv
  <2> QED  BY <1>2, <2>2 DEF Told
<1>4. CASE ~ToldToClose
  BY <1>1, <1>2, <1>4 DEF Told
<1> QED  BY <1>3, <1>4

\* What is added replaces nothing, unless a disk is attached in place of another.
LEMMA AddTells ==
  ASSUME IInv, NEW d \in Devs, Attached(d) => d \in over', NEW w, NEW e, <<w, d>> \in Dirs, AddOne(w, d, e)
  PROVE  Told
<1>1. \A b \in Dirs : b # <<w, d>> => back'[b] = back[b]
  <2>1. \A x \in {d} : <<w, d>> # <<>>
    OBVIOUS
  <2> QED  BY <2>1 DEF AddOne, GenericAdd
<1>2. \A b \in Dirs : front[b[2]] = b /\ b[2] \notin over' => b # <<w, d>>
  BY DirFacts DEF Attached
<1> QED  BY <1>1, <1>2 DEF Told

LEMMA RemovedTells ==
  ASSUME NEW bs, back' = Removed(bs), \A b \in Dirs : b \in bs => back[b].state # 4
  PROVE  Told
BY DEF Removed, Told

LEMMA WaitTells == ASSUME IInv, (\E b \in Dirs : DevDestroyed(b) \/ OtherEvent(b)) \/ TimedOut PROVE Told
<1>1. ASSUME NEW b \in Dirs, DevDestroyed(b) PROVE Told
  <2>1. back' = Removed({b}) /\ back[b].state # 4
    BY <1>1 DEF DevDestroyed
  <2> QED  BY <2>1, RemovedTells
<1>2. ASSUME UNCHANGED back PROVE Told
  BY <1>2 DEF Told
<1> QED  BY <1>1, <1>2 DEF OtherEvent, TimedOut

LEMMA DelTells == ASSUME IInv, Del PROVE Told
<1>1. back' = Removed(Leaving(cmd.dev)) /\ Deleting
  BY DEF Del, Deleting
<1>2. PICK dir \in Dirs : cmd.todo = {dir} /\ back[dir].state \in {0, 5, 6}
  BY <1>1, DirFacts DEF IInv, CmdInv, Examining, Del
<1>3. \A b \in Dirs : b \in Leaving(cmd.dev) => back[b].state # 4
  BY <1>2 DEF Leaving
<1> QED  BY <1>1, <1>3 DEF Removed, Told

LEMMA DriversTell == ASSUME IInv, NEW b \in Dirs, Connect(b) \/ Close(b) PROVE Told
<1>1. ASSUME Exists(b), NEW s \in {4, 6}, SetState(b, s), ~(back[b].state = 4 /\ front[b[2]] = b)
      PROVE  Told
  <2>1. \A x \in Dirs : x # b => back'[x] = back[x]
    BY <1>1, SetStateKeeps DEF IInv
  <2> QED  BY <1>1, <2>1 DEF Told
<1>2. CASE Connect(b)
  BY <1>1, <1>2 DEF Connect, Exists
<1>3. CASE Close(b)
  <2>1. CASE Exists(b)
    <3>1. SetState(b, 6)
      BY <1>3, <2>1 DEF Close
    <3>2. ~(back[b].state = 4 /\ front[b[2]] = b)
      BY <1>3, <2>1, DirFacts DEF Close, Attached
    <3> QED  BY <1>1, <2>1, <3>1, <3>2
  <2>2. CASE ~Exists(b)
    BY <1>3, <2>2 DEF Close, Told
  <2> QED  BY <2>1, <2>2
<1> QED  BY <1>2, <1>3

LEMMA NextTells == ASSUME IInv, [Next]_vars PROVE Told
<1>1. CASE Create
  BY <1>1 DEF Create, IInv, RestInv, Exists, Told
<1>2. ASSUME NEW d \in Devs, NEW spec \in Specs, BlockAttach(d, spec) PROVE Told
  <2>1. /\ Attached(d) => d \in over'
        /\ d[1] = "vbd" /\ GoodDisk(AttachedDisk(spec)) /\ DiskAdd(d, AttachedDisk(spec))
    BY <1>2, AttachedGood DEF BlockAttach
  <2> QED  BY <2>1, DiskAddIsAdd, DirFacts, AddTells
<1>3. ASSUME NEW k \in Nets, NicAdd(k) PROVE Told
  <2>1. PICK n \in Numbers :
          /\ ~Attached(<<k, n>>) /\ <<k, n>> \in Devs /\ <<k, <<k, n>>>> \in Dirs
          /\ AddOne(k, <<k, n>>, NewBackend)
    BY <1>3, NicAddIsAdd
  <2> QED  BY <2>1, AddTells
<1>4. CASE NetworkAttach \/ Network2Attach
  BY <1>3, <1>4 DEF NetworkAttach, Network2Attach
<1>5. ASSUME UNCHANGED back PROVE Told
  BY <1>5 DEF Told
<1>6. ASSUME NEW d \in Devs, BlockDetach(d) PROVE Told
  BY <1>5, <1>6 DEF BlockDetach, StartDel
<1>7. ASSUME NEW disk, ChangeMedium(disk) PROVE Told
  BY <1>5, <1>7 DEF ChangeMedium, StartDel
<1>8. CASE GuestEjects
  <2>1. PICK disk : disk = EjectedDisk(front[CD])
    OBVIOUS
  <2> QED  BY <1>7, <1>8, <2>1 DEF GuestEjects
<1>9. ASSUME NEW spec \in Specs, CdInsert(spec) PROVE Told
  <2>1. PICK disk : disk = ParseDisk(spec)
    OBVIOUS
  <2> QED  BY <1>7, <1>9, <2>1 DEF CdInsert
<1>10. ASSUME NEW n \in Numbers, NetworkDetach(n) \/ Network2Detach(n) PROVE Told
  BY <1>5, <1>10 DEF NetworkDetach, Network2Detach, StartDel
<1>11. CASE WaitOnce
  BY <1>11, WaitTells DEF WaitOnce
<1>12. CASE Del
  BY <1>12, DelTells
<1>13. CASE Insert
  <2>1. ~Attached(CD) /\ CD \in Devs /\ cmd.dev = CD /\ cmd.medium # NoDisk /\ cmd.medium \in Mediums
    BY <1>13, DevFacts DEF Insert, IInv, CmdInv, CmdRec
  <2>2. CASE BadImage(cmd.medium)
    BY <2>2 DEF BadImage, Told
  <2>3. CASE DiskAdd(cmd.dev, cmd.medium)
    <3>1. PICK disk \in Mediums : disk = cmd.medium /\ GoodDisk(disk) /\ DiskAdd(CD, disk)
      BY <2>1, <2>3, MediumGood
    <3>2. CD[1] = "vbd"
      BY DEF CD
    <3> QED  BY <2>1, <3>1, <3>2, DiskAddIsAdd, DirFacts, AddTells
  <2> QED  BY <1>13, <2>2, <2>3 DEF Insert
<1>14. ASSUME NEW b \in Dirs, DestroyNext(b) PROVE Told
  BY <1>5, <1>14 DEF DestroyNext
<1>15. CASE DestroyWait
  BY <1>15, WaitTells DEF DestroyWait
<1>16. CASE Destroy \/ Finish \/ UNCHANGED vars
  BY <1>16 DEF Destroy, Finish, vars, Told
<1>17. ASSUME NEW b \in Dirs, Connect(b) \/ Close(b) PROVE Told
  BY <1>17, DriversTell
<1>18. CASE DeviceDestroy
  BY <1>18, DestroyTells
<1> QED  BY <1>1, <1>2, <1>4, <1>6, <1>8, <1>9, <1>10, <1>11, <1>12, <1>13, <1>14, <1>15, <1>16, <1>17,
            <1>18, NextSteps

\* A backend of an attached device that libxl found connected is told to close before
\* it is removed, and replaced by none but a disk that is attached in its place:
\* libxl__device_destroy tells it, and a new interface has a number of its own
\* (libxl_device_nic_add).
THEOREM ConnectedAreTold == Spec => ConnectedIsTold
<1>1. ASSUME IInv, [Next]_vars PROVE [Told]_vars
  BY <1>1, NextTells
<1> QED  BY Invariant, <1>1, PTL DEF Spec, ConnectedIsTold, Told
===============================================================================

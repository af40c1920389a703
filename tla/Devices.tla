------------------------------- MODULE Devices -------------------------------
(***************************************************************************)
(* The devices of a guest: xl adds them when it creates the guest, attaches *)
(* and detaches disks and network interfaces, changes the medium of the CD  *)
(* drive, and takes all devices away when it destroys the guest.  xl and    *)
(* the drivers talk through xenstore: a frontend directory of the guest     *)
(* names a backend directory, which keeps the state of the backend.         *)
(*                                                                         *)
(* A device is <<kind, number>>, its backend directory <<kind, device>>.    *)
(* What is written besides (mac, script, ...) is left out, but for "type",  *)
(* from which block-detach learns where the backend is, and for the image.  *)
(* A disk is [backend, format, image]; the first two are what xl makes of   *)
(* the specification, image.  One xl command runs at a time; what it reads  *)
(* of a backend may be out of date when it acts on it, for the drivers run. *)
(***************************************************************************)
EXTENDS DiskTypes, Sequences, FiniteSets

CONSTANTS
  Consoles,       \* kinds of console: "console", "vkbd", "vfb"
  Disks,          \* numbers of virtual disks, but the CD drive, that are attached
  Nets,           \* kinds of network interface: "vif", "vif2"
  MaxNic,         \* bound: largest number of a network interface
  Specs,          \* disk specifications: what comes before the path
  BootSpec,       \* what is in the CD drive of the new guest
  BlktapEnabled,  \* libxl__blktap_enabled
  MaxCommand      \* bound: attachments and detachments

ASSUME DevicesAssumption ==
  /\ Consoles \subseteq {"console", "vkbd", "vfb"}
  /\ Nets \subseteq {"vif", "vif2"} /\ MaxNic \in Nat /\ MaxCommand \in Nat /\ 0 \notin Disks
  /\ Specs \subseteq {"", "phy", "file", "tap", "tap:aio", "tap:raw", "tap:vhd", "tap:qcow",
                     "tap:qcow2", "tap:preservation", "no colon"}
  /\ BootSpec \in Specs
  /\ BlktapEnabled \in BOOLEAN

VARIABLES
  front,    \* the backend directories that the frontend directories name
  nics,     \* the directory of the frontends of each kind of interface
  back,     \* of each backend directory: state, 0 if there is none, type, image
            \* and the tapdisk driver that has the image open
  driver,   \* backends that hold their device
  guest,    \* "new", "up", "paused" or "gone"
  cmd,      \* the xl command...
  left,     \* ... and how many there will still be
  watches,  \* backend directories that it watches...
  events,   \* ... and those of which it has an event
  over      \* history: where a disk was attached although there was one

vars == <<front, nics, back, driver, guest, cmd, left, watches, events, over>>

None == "none"
Console == <<"console", 0>>
CD == <<"vbd", 0>>
Fixed == {CD} \cup (Consoles \X {0})
Devs == Fixed \cup ({"vbd"} \X Disks) \cup (Nets \X (0..MaxNic))

\* Where the backend of a device can be: libxl__device_backend_path.
DiskDirs == {"vbd", "tap", "qdisk"} \X {d \in Devs : d[1] = "vbd"}
Dirs == DiskDirs \cup {<<d[1], d>> : d \in Devs}
NoDir == [state |-> 0, type |-> None, image |-> None, tapdisk |-> NoDriver]
NoDisk == [backend |-> None, format |-> None, image |-> None]
Idle ==
  [pc |-> "idle", dev |-> CD, medium |-> NoDisk, todo |-> {}, n |-> 0, at |-> <<>>, seen |-> 0]

\* A command on the devices of a guest that runs.
StartCommand == cmd.pc = "idle" /\ guest = "up" /\ left > 0 /\ left' = left - 1

Exists(b) == back[b].state # 0
Attached(d) == front[d] # <<>>

\* A backend directory changed.
Notify(bs) == events' = events \cup (bs \cap watches)
SetState(b, state) == back' = [back EXCEPT ![b].state = state]
Removed(bs) == [b \in Dirs |-> IF b \in bs THEN NoDir ELSE back[b]]

Init ==
  /\ front = [d \in Devs |-> <<>>]
  /\ nics = [k \in Nets |-> [dir |-> FALSE, list |-> <<>>]]
  /\ back = [b \in Dirs |-> NoDir]
  /\ driver = {}
  /\ guest = "new" /\ cmd = Idle /\ left = MaxCommand
  /\ watches = {} /\ events = {} /\ over = {}

-----------------------------------------------------------------------------
(* The drivers: backends, and frontends in a guest that runs *)

\* A backend opens its device and connects to a frontend that is there.  (The
\* states between are left out: libxl tells 4 and 6 from the others only.)
Connect(b) ==
  /\ back[b].state = 1 /\ front[b[2]] = b
  /\ SetState(b, 4) /\ driver' = driver \cup {b}
  /\ Notify({b})
  /\ UNCHANGED <<front, nics, guest, cmd, left, watches, over>>

\* It closes when it was told to and the frontend closed, when the frontend
\* directory is gone, or its own.
Close(b) ==
  /\ b \in driver
  /\ \/ back[b].state = 5 /\ guest = "up"
     \/ ~Attached(b[2])
     \/ ~Exists(b)
  /\ driver' = driver \ {b}
  /\ IF Exists(b) THEN SetState(b, 6) /\ Notify({b}) ELSE UNCHANGED <<back, events>>
  /\ UNCHANGED <<front, nics, guest, cmd, left, watches, over>>

-----------------------------------------------------------------------------
(* Adding *)

\* libxl__device_generic_add, of one device or of some: a transaction that
\* replaces what there was.  (Nobody waits for an event then.)
GenericAdd(dir, entry) ==
  /\ front' = [d \in Devs |-> IF d \in DOMAIN dir THEN dir[d] ELSE front[d]]
  /\ back' = [b \in Dirs |-> IF \E d \in DOMAIN dir : b = dir[d] THEN entry[b[2]] ELSE back[b]]

NewBackend == [NoDir EXCEPT !.state = 1]

Disk(spec, backend, format) == [backend |-> backend, format |-> format, image |-> spec]

\* parse_disk_config: a path without a type is no image, either.
ParseDisk(spec) ==
  CASE spec = "phy"                                -> Disk(spec, "phy", "raw")
    [] spec = "tap:vhd"                            -> Disk(spec, "tap", "vhd")
    [] spec = "tap:preservation"                   -> Disk(spec, "tap", "preservation")
    [] spec = "tap:qcow"                           -> Disk(spec, "qdisk", "qcow")
    [] spec = "tap:qcow2"                          -> Disk(spec, "qdisk", "qcow2")
    [] spec \in {"file", "tap", "tap:aio", "tap:raw"} -> Disk(spec, "tap", "raw")
    [] spec \in {"", "no colon"}                   -> Disk(spec, "tap", "empty")
Media == {ParseDisk(spec) : spec \in Specs}
BootMedium == ParseDisk(BootSpec)

\* libxl__device_disk_string_of_format.
FormatName(format) ==
  CASE format \in {"raw", "empty"} -> "aio"
    [] format = "unknown"         -> "(null)"
    [] OTHER                      -> format

\* Where libxl_device_disk_add puts the backend, and the type it writes there.
OnTapdisk(disk) == disk.backend = "tap" /\ BlktapEnabled /\ disk.format # "empty"
DiskBackend(disk) ==
  CASE disk.backend = "phy" \/ OnTapdisk(disk) -> "vbd"
    [] disk.backend = "tap" /\ BlktapEnabled /\ disk.format = "empty" -> "tap"
    [] OTHER                                   -> "qdisk"
\* Variant: blktap disks keep their own type.
DiskTypeTap(disk) == disk.backend
DiskType(disk) == IF OnTapdisk(disk) THEN "phy" ELSE disk.backend

\* The driver of the tapdisk that is to open the image.
Tapdisk(disk) == IF OnTapdisk(disk) THEN DriverOf(FormatName(disk.format)) ELSE NoDriver

DiskEntry(disk) ==
  [state |-> 1, type |-> DiskType(disk), image |-> disk.image, tapdisk |-> Tapdisk(disk)]

\* libxl_device_disk_add: tapdisk must know the driver.  (validate_virtual_disk
\* makes a raw image "vhd:..." one of format vhd, but leaves the prefix in its path,
\* so that tapdisk finds no such file: an image that is no good.)
DiskAdd(d, disk) ==
  /\ OnTapdisk(disk) => Tapdisk(disk) # NoDriver
  /\ GenericAdd([x \in {d} |-> <<DiskBackend(disk), d>>], [x \in {d} |-> DiskEntry(disk)])

\* The guest is created with a CD drive, and what makes up its console:
\* libxl_device_console_add, libxl_device_vkb_add, libxl_device_vfb_add.
ConsoleDir == <<"console", Console>>
VkbDir == <<"vkbd", <<"vkbd", 0>>>>
VfbDir == <<"vfb", <<"vfb", 0>>>>
FixedDir(d) ==
  CASE d = CD            -> <<DiskBackend(BootMedium), CD>>
    [] d = Console       -> ConsoleDir
    [] d = <<"vkbd", 0>> -> VkbDir
    [] d = <<"vfb", 0>>  -> VfbDir

Create ==
  /\ guest = "new"
  /\ GenericAdd([d \in Fixed |-> FixedDir(d)],
                [d \in Fixed |-> IF d = CD THEN DiskEntry(BootMedium) ELSE NewBackend])
  /\ guest' = "up"
  /\ UNCHANGED <<nics, driver, cmd, left, watches, events, over>>

\* xl block-attach parses the types it knows on its own, and leaves the format
\* of most unknown: tapdisk then refuses.
AttachedDisk(spec) ==
  IF spec \in {"phy", "file", "tap:aio"} THEN [ParseDisk(spec) EXCEPT !.format = "unknown"]
                                        ELSE ParseDisk(spec)

\* If the image is no good (validate_virtual_disk), nothing happens.  Nobody looks
\* whether there is such a disk already (the FIXME of libxl__device_generic_add).
BlockAttach(d, spec) ==
  /\ StartCommand /\ d \in {"vbd"} \X Disks
  /\ spec \in {"phy", "file", "tap:aio", "tap:vhd", "tap:qcow", "tap:qcow2"}
  /\ DiskAdd(d, AttachedDisk(spec))
  /\ over' = IF Attached(d) THEN over \cup {d} ELSE over
  /\ UNCHANGED <<nics, driver, guest, cmd, watches, events>>

\* The number of a new interface: one more than the last entry.  If there is
\* the directory but no entry, xl reads before the list and dies.
\* Variant: the number of the last entry.
NicLast(list) == IF list = <<>> THEN 0 ELSE list[Len(list)]
NextNic(list) == IF list = <<>> THEN 0 ELSE list[Len(list)] + 1

NicAdd(k) ==
  LET n == NextNic(nics[k].list)
      d == <<k, n>>
  IN /\ nics[k].dir => nics[k].list # <<>>
     /\ n <= MaxNic
     /\ nics' = [nics EXCEPT ![k] = [dir |-> TRUE, list |-> Append(@.list, n)]]
     /\ GenericAdd([x \in {d} |-> <<k, d>>], [x \in {d} |-> NewBackend])

NetworkAttach ==
  /\ StartCommand /\ "vif" \in Nets
  /\ NicAdd("vif")
  /\ UNCHANGED <<driver, guest, cmd, watches, events, over>>

Network2Attach ==
  /\ StartCommand /\ "vif2" \in Nets
  /\ NicAdd("vif2")
  /\ UNCHANGED <<driver, guest, cmd, watches, events, over>>

-----------------------------------------------------------------------------
(* Removing *)

\* libxl__device_destroy, not by force, of directory b: the state is read, ...
Examine(c, b) == [c EXCEPT !.at = b, !.seen = back[b].state]

\* ... and then what was connected is told to close and watched (the watch fires
\* at once), and any other directory is removed, whatever its state is by now.
ToldToClose == cmd.seen = 4
DeviceDestroy ==
  /\ cmd.at # <<>>
  /\ LET gone == IF cmd.seen = 0 THEN {} ELSE {cmd.at} IN
     IF ToldToClose
     THEN /\ SetState(cmd.at, 5)
          /\ watches' = watches \cup {cmd.at} /\ events' = events \cup {cmd.at}
     ELSE back' = Removed(gone) /\ Notify(gone) /\ UNCHANGED watches
  /\ cmd' = [cmd EXCEPT !.at = <<>>, !.seen = 0,
                        !.n = IF cmd.pc = "destroy" /\ ToldToClose THEN @ + 1 ELSE @]
  /\ UNCHANGED <<front, nics, driver, guest, left, over>>

\* libxl__device_del.  What for: NoDisk, or the medium to insert then.
StartDel(d, dir, medium) ==
  /\ StartCommand /\ Attached(d)
  /\ cmd' = Examine([Idle EXCEPT !.pc = "wait_once", !.dev = d, !.medium = medium, !.todo = {dir}], dir)
  /\ UNCHANGED <<front, nics, back, driver, guest, watches, events, over>>

\* The directory libxl_device_disk_del looks at, of a disk found in directory b.
DiskDelDir(b) == <<IF back[b].type = "phy" THEN "vbd" ELSE "tap", b[2]>>

BlockDetach(d) ==
  d \in {"vbd"} \X Disks /\ Attached(d) /\ StartDel(d, DiskDelDir(front[d]), NoDisk)
NetworkDetach(n) == "vif" \in Nets /\ StartDel(<<"vif", n>>, <<"vif", <<"vif", n>>>>, NoDisk)
Network2Detach(n) == "vif2" \in Nets /\ StartDel(<<"vif2", n>>, <<"vif2", <<"vif2", n>>>>, NoDisk)

\* The list of disks: by backend directory; xl dies of one without a frontend.
DiskList == {b \in DiskDirs : Exists(b)}
DiskListFails == \E b \in DiskList : ~Attached(b[2])
InOrder == <<"vbd", "tap", "qdisk">>
FoundCD(b) ==
  /\ b \in DiskList /\ b[2] = CD
  /\ \E i \in 1..3 : b[1] = InOrder[i] /\ \A j \in 1..(i - 1) : <<InOrder[j], CD>> \notin DiskList

\* libxl_cdrom_insert
ChangeMedium(disk) ==
  /\ ~DiskListFails
  /\ \E b \in DiskList : FoundCD(b) /\ StartDel(CD, DiskDelDir(b), disk)

\* xl cd-insert, or xl cd-eject (no image); or the guest ejects, and the daemon of
\* xl create empties the drive.
CdInsert(spec) == ChangeMedium(ParseDisk(spec))

EjectedDisk(dir) ==
  [NoDisk EXCEPT !.backend = IF dir[1] = "qdisk" THEN "qdisk" ELSE "tap", !.format = "empty"]
GuestEjects == Attached(CD) /\ ChangeMedium(EjectedDisk(front[CD]))

\* wait_for_dev_destroy: an event of a backend that is through, ...
DevDestroyed(b) ==
  /\ b \in events /\ back[b].state \in {0, 6}
  /\ events' = events \ {b} /\ watches' = watches \ {b}
  /\ back' = Removed({b})

\* ... of one that is not (as the first event is, in general), ...
OtherEvent(b) ==
  /\ b \in events /\ back[b].state \notin {0, 6}
  /\ events' = events \ {b}
  /\ UNCHANGED <<back, watches>>

\* ... or LIBXL_DESTROY_TIMEOUT.  Variant: none.
NoTimeout == FALSE /\ UNCHANGED <<back, events, watches>>
TimedOut == events = {} /\ UNCHANGED <<back, events, watches>>

\* A device is removed after one event.
WaitOnce ==
  /\ cmd.pc = "wait_once" /\ cmd.at = <<>>
  /\ (\E b \in Dirs : DevDestroyed(b) \/ OtherEvent(b)) \/ TimedOut
  /\ cmd' = [cmd EXCEPT !.pc = "remove"]
  /\ UNCHANGED <<front, nics, driver, guest, left, over>>

\* A directory of interfaces without its entry n.
Without(list, n) ==
  LET i == CHOOSE j \in DOMAIN list : list[j] = n IN
  IF \E j \in DOMAIN list : list[j] = n
  THEN [j \in 1..(Len(list) - 1) |-> IF j < i THEN list[j] ELSE list[j + 1]]
  ELSE list

\* The frontend directory goes, and the backend directory of a disk.
Leaving(d) == IF d[1] = "vbd" THEN cmd.todo ELSE {}

Del ==
  /\ cmd.pc = "remove"
  /\ front' = [front EXCEPT ![cmd.dev] = <<>>]
  /\ nics' = [k \in Nets |-> [nics[k] EXCEPT !.list = IF cmd.dev[1] = k THEN Without(@, cmd.dev[2]) ELSE @]]
  /\ back' = Removed(Leaving(cmd.dev))
  /\ IF cmd.medium = NoDisk
       THEN cmd' = Idle /\ watches' = {} /\ events' = {}
       ELSE cmd' = [cmd EXCEPT !.pc = "insert"] /\ Notify(Leaving(cmd.dev)) /\ UNCHANGED watches
  /\ UNCHANGED <<driver, guest, left, over>>

\* If the image is no good, the guest has no CD drive from now on.
BadImage(disk) == disk.format # "empty" /\ UNCHANGED <<front, back>>

Insert ==
  /\ cmd.pc = "insert"
  /\ DiskAdd(cmd.dev, cmd.medium) \/ BadImage(cmd.medium)
  /\ cmd' = Idle
  /\ watches' = {} /\ events' = {}
  /\ UNCHANGED <<nics, driver, guest, left, over>>

-----------------------------------------------------------------------------
(* Destroying the guest *)

\* libxl_domain_destroy pauses the guest before it goes for its devices.
Destroy ==
  /\ cmd.pc = "idle" /\ guest = "up"
  /\ guest' = "paused"
  /\ cmd' = [Idle EXCEPT !.pc = "destroy", !.todo = {front[d] : d \in {x \in Devs : Attached(x)}}]
  /\ UNCHANGED <<front, nics, back, driver, left, watches, events, over>>

\* libxl__devices_destroy: one after the other, the console at last...
DestroyNext(b) ==
  /\ cmd.pc = "destroy" /\ cmd.at = <<>> /\ b \in cmd.todo
  /\ b = ConsoleDir => cmd.todo = {ConsoleDir}
  /\ cmd' = Examine([cmd EXCEPT !.todo = @ \ {b}], b)
  /\ UNCHANGED <<front, nics, back, driver, guest, left, watches, events, over>>

\* ... then one event is waited for after the other, until one is not the end
\* of a backend.
DestroyWait ==
  /\ cmd.pc = "destroy" /\ cmd.at = <<>> /\ cmd.todo = {} /\ cmd.n > 0
  /\ \/ (\E b \in Dirs : DevDestroyed(b)) /\ cmd' = [cmd EXCEPT !.n = @ - 1]
     \/ ((\E b \in Dirs : OtherEvent(b)) \/ TimedOut) /\ cmd' = [cmd EXCEPT !.n = 0]
  /\ UNCHANGED <<front, nics, driver, guest, left, over>>

\* The directory of the guest goes, and the guest.  Variant: only the guest.
ForgetNothing == UNCHANGED <<front, nics>>
ForgetGuest ==
  /\ front' = [d \in Devs |-> <<>>]
  /\ nics' = [k \in Nets |-> [dir |-> FALSE, list |-> <<>>]]

Finish ==
  /\ cmd.pc = "destroy" /\ cmd.at = <<>> /\ cmd.todo = {} /\ cmd.n = 0
  /\ ForgetGuest
  /\ guest' = "gone"
  /\ cmd' = Idle /\ watches' = {} /\ events' = {}
  /\ UNCHANGED <<back, driver, left, over>>

-----------------------------------------------------------------------------
Command ==
  \/ DeviceDestroy \/ WaitOnce \/ Del \/ Insert
  \/ (\E b \in Dirs : DestroyNext(b)) \/ DestroyWait \/ Finish

Drivers == \E b \in Dirs : Connect(b) \/ Close(b)

User ==
  \/ Create
  \/ \E spec \in Specs :
       \/ CdInsert(spec)
       \/ \E d \in Devs : BlockAttach(d, spec)
  \/ NetworkAttach \/ Network2Attach
  \/ \E d \in Devs : BlockDetach(d)
  \/ GuestEjects
  \/ \E n \in 0..MaxNic : NetworkDetach(n) \/ Network2Detach(n)
  \/ Destroy

Next == User \/ Command \/ Drivers

Spec == Init /\ [][Next]_vars

\* A command that was started goes on, and a backend closes when it can.  (That
\* it connects is not needed: main_network2attach leaves the domain of the
\* backend uninitialized, so there may be none.)
FairSpec ==
  /\ Spec
  /\ WF_vars(Command)
  /\ \A b \in Dirs : WF_vars(Close(b))

-----------------------------------------------------------------------------
(* Properties *)

TypeOK ==
  /\ \A d \in Devs : Attached(d) => front[d] \in Dirs /\ front[d][2] = d
  /\ DOMAIN nics = Nets
  /\ \A k \in Nets : /\ nics[k].dir \in BOOLEAN
                     /\ \A n \in 0..MaxNic : Attached(<<k, n>>) <=> \E i \in DOMAIN nics[k].list : nics[k].list[i] = n
  /\ \A b \in Dirs : /\ back[b].state \in {0, 1, 4, 5, 6} /\ back[b].type \in {"phy", "tap", "qdisk", None}
                     /\ back[b].image \in Specs \cup {None}
  /\ driver \subseteq Dirs
  /\ guest \in {"new", "up", "paused", "gone"}
  /\ cmd.pc \in {"idle", "wait_once", "remove", "insert", "destroy"}
  /\ left \in 0..MaxCommand
  /\ cmd.dev \in Devs /\ cmd.medium \in Media \cup {NoDisk} \cup {EjectedDisk(b) : b \in DiskDirs} /\ cmd.todo \subseteq Dirs
  /\ cmd.at \in Dirs \cup {<<>>} /\ cmd.seen \in {0, 1, 4, 5, 6}
  /\ cmd.n \in 0..Cardinality(watches)
  /\ events \subseteq watches /\ watches \subseteq Dirs /\ over \subseteq Devs
  /\ cmd.pc = "idle" => watches = {}

\* Between two commands, each directory of a disk backend is the one that its
\* frontend names, and each frontend names one there is: block-detach and
\* cd-insert find by "type" what libxl_device_disk_add made.  (Not so of
\* qdisk, which libxl_device_disk_del takes for tap, and where a disk was
\* attached in place of another one, whose directory nobody names then.)
BackendMatches ==
  /\ TypeOK
  /\ cmd.pc = "idle" /\ guest = "up" =>
       /\ \A b \in DiskDirs : Exists(b) /\ b[1] # "qdisk" /\ b[2] \notin over => front[b[2]] = b
       /\ \A d \in Devs : Attached(d) => Exists(front[d])

\* The tapdisk driver that an image's specification names.
NamedDriver(image) ==
  CASE image = "tap:preservation"                       -> "preservation"
    [] image = "tap:vhd"                                -> "vhd"
    [] image \in {"file", "tap", "tap:aio", "tap:raw"} -> "aio"
    [] OTHER                                            -> NoDriver

\* The image of a disk is open with the driver that its specification names, and
\* with none if tapdisk does not serve it, wherever xl, libxl and the two tables of
\* tapdisk look it up (a preserved image in other hands would lose its history).
OpenedAsNamed ==
  \A b \in DiskDirs :
    back[b].tapdisk = IF BlktapEnabled THEN NamedDriver(back[b].image) ELSE NoDriver

\* A backend of an attached device that is connected, and that libxl has not found
\* otherwise, is not removed before it was told to close; nor is it replaced by a
\* new one, but where a disk is attached in place of another: a new interface gets
\* a number that none has (libxl_device_nic_add).  (It may connect after
\* libxl__device_destroy read its state: it is removed without a word then.)
ConnectedIsTold ==
  [][\A b \in Dirs :
       /\ back[b].state = 4 /\ front[b[2]] = b
       /\ ~(cmd.at = b /\ ~ToldToClose) /\ b[2] \notin over'
       => back'[b].state \in {4, 5}]_vars

\* A command ends, whatever the backends do: no wait is without timeout.
CommandEnds == cmd.pc # "idle" ~> cmd.pc = "idle"

\* When the guest is gone, every backend closes: none waits for a frontend
\* that will never answer, though xl did not wait for it.
DevicesFreed == guest = "gone" ~> driver = {}

\* xl destroys the guest only after its backends closed, or after the time span
\* for it ("what we need to enforce a single time span waiting for device
\* destruction", libxl_device.c): an event does not end the wait before.
WaitsForDestruction ==
  [][cmd.pc = "destroy" /\ cmd.n > 0 /\ cmd'.n = 0 /\ events # {} =>
       \A b \in watches : back'[b].state \in {0, 6}]_vars
=============================================================================

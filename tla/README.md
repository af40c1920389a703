# LogDrive: a verification development

LogDrive preserves every write of a virtual disk. A `tap:preservation` device of Xen's
blktap2 appends each guest write as a new version of its block to a log, and a `timetravel`
device restores the disk as it was at a given time. This directory holds TLA+ models of
that code, the TLC runs that check them and TLAPS proofs of what matters most. Paths below
are relative to `src/`; `drivers/` stands for
`setup/xen-with-blktap/src/tools/blktap2/drivers/`, `libxl/` for
`setup/xen-with-blktap/src/tools/libxl/`.

## The system

| part | source | state | operations |
|---|---|---|---|
| buffered I/O | `drivers/utils.c` | append buffer and its fill, read buffer with its position and valid bit, end of the log in the file | `bio_init`, `bio_write`, `bio_read`, `bio_flush`, `bio_finalize` |
| preservation disk | `drivers/preservation.c` | header (`next_offset`), index table, records chained by `next` | open, `pd_read`, `pd_write`, `pd_finalize` |
| preservation driver | `drivers/block-preservation.c` | one disk | open, queue_read, queue_write, close: each handler serves its request to the end, then completes it |
| timetravel driver | `drivers/block-timetravel.c`, the read-only half of `preservation.c` | time, index, cache bits, cached sizes | open (`name:time`), queue_read, queue_write (refuses), close |
| raw drivers | `drivers/block-aio.c`, `block-log.c` | pool of `aio_request`, free list | open, queue, completion callback, close |
| disk types | `drivers/tapdisk-disktype.c` | two tables | lookup of a driver by name |
| image creation | `tests/mkimage.rb` | none | header of a fresh image |
| export and search | `tests/*.java` | files in HDFS | convert the chains to records, hash their sectors, sample, search |
| migration | `libxl/xl_cmdimpl.c` | a guest and its copy, two pipes | `xl migrate`, `xl migrate-receive` |
| domain lifecycle | `libxl/xl_cmdimpl.c`, `libxl.c` | domains and names, the lock file, watches and transactions of xenstore | `xl create`, `restore` and their daemon; pause, unpause, shutdown, rename, destroy, save |
| devices | `libxl/libxl.c`, `libxl_device.c`, `xl_cmdimpl.c` | frontend and backend directories of xenstore | attach, detach, change the medium, destroy all |
| cpupools | `libxl/libxl.c`, `xl_cmdimpl.c` | pools of the hypervisor, their names in xenstore | create, destroy, rename, add and remove cpus, move a guest, split by node |
| scripts | `setup/*.sh`, `tests/*.sh` | none | installation and benchmarks |

How they interact. tapdisk, one single-threaded process per device, calls the handlers of a
driver; the preservation handlers are synchronous, the raw ones hand their request to the
kernel and are called back. `pd_*` reaches the log only through `bio_*`, but header and
index with plain `read`/`write` on the same file. A timetravel device is another process
that opens the same file with no lock between them. The Java tools read a closed image.
The copy of libxl and xl in the repository is Xen's with `tap:preservation` and `timetravel`
added to its disk types: `xl create` builds the guest whose disks are preserved, names the
image and its driver in xenstore, has tapdisk open it, and leaves a daemon that watches the
guest. Every xl command is a process of its own; they meet in the hypervisor, in xenstore and
at the lock file, and two xl at the ends of a migration in two pipes.

What is hard, and why tests hardly reach it:

* **what is in the read buffer, in the append buffer, in the file or nowhere**: which of
  them answers a read depends on positions that flushes move;
* **death of tapdisk** between appends and close, and between the flush, the header and the
  index that closing writes;
* **failing or short `read`/`write`**, whose results the code does not look at or only compares with -1;
* **the reader process** that opens the image in the middle of a close, or reads while the
  driver flushes, dies and appends again;
* **the clock**, which orders versions for the search but not for the chain;
* **the walk to a time and its cache**, which rewrites the index it searches;
* **the pool of the raw drivers at its limit**, when callbacks queue requests;
* **two hosts that each may fail** in a migration, with one guest that must run at exactly one;
* **daemons, commands and guests side by side**: names looked up outside of the transaction that
  writes them, domains that die before anybody watches, locks on error paths;
* **backends that xl waits for**, up to a timeout, under a table of types that three programs share;
* **sequences of hypercalls that may be refused half way**, while guests start and end;
* **buffers that a framework reuses** under the Java tools, and sector sizes that two of their
  classes have to agree on.

`PROJECT.json` lists each of these at its line with the properties that cover it.

## The modules

| module | models | extends |
|---|---|---|
| `Rounding` | `round_down`, `round_up` | |
| `RecordLog` | what the buffered I/O layer is for the disk above it (abstract) | `Rounding` |
| `BufferedIO` | `utils.c` cell by cell, the refinement of `RecordLog` | `Rounding` |
| `BufferedIOProofs` | theorems about `BufferedIO`, and that refinement | `BufferedIO` |
| `Preservation` | `preservation.c` and `block-preservation.c`, record by record | `Rounding` |
| `VersionHistory` | what a preservation disk promises (abstract) | |
| `PreservationHistory` | the refinements of `VersionHistory` and of `RecordLog` by `Preservation` | `Preservation` |
| `PreservationProofs` | theorems about `Preservation`, those refinements, and `TimeTravel` | `PreservationHistory`, `TimeTravel` |
| `TimeTravel` | a timetravel device beside a live driver | `Preservation` |
| `AioPool` | the request pool of `block-aio.c` and `block-log.c` | |
| `AioPoolProofs` | theorems about `AioPool` | `AioPool` |
| `Analysis` | the Java tools: export, index, sampling, search | |
| `AnalysisProofs` | theorems about `Analysis` | `Analysis` |
| `Handover` | what a migration promises of the two copies of a guest (abstract) | |
| `Migration` | `xl migrate` and `xl migrate-receive`, the refinement of `Handover` | |
| `MigrationProofs` | theorems about `Migration`, and that refinement | `Migration` |
| `DomainLife` | `create_domain`, its daemon, and the commands beside them | |
| `DomainLifeProofs` | theorems about `DomainLife` | `DomainLife` |
| `DiskTypes` | the tables of `tapdisk-disktype.c` | |
| `Devices` | the devices of one guest | `DiskTypes` |
| `DevicesProofs` | theorems about `Devices` | `Devices` |
| `CpuPools` | the cpupool commands | |
| `CpuPoolsProofs` | theorems about `CpuPools` | `CpuPools` |
| `MCPreservation`, `MCTimeTravel`, `MCAnalysis`, `MCCpuPools` | constants for TLC | |

Operators called *Variant* in a comment are not part of a model: each is what a plausible
bug would make of the definition below it, and shows which property notices.

### BufferedIO

Offsets and sizes are in cells of 16 bytes, to which `get_actual_data_size` aligns. A cell
holds the number of the `bio_write` that produced it, so a read that returns anything but
what was written is visible. The variables are the fields of `struct buffered_io`, the file
with its size, and the `next_offset` of the header; ghosts record what was written where
(`records`), what a failed `write()` lost (`lost`) and how much of the read buffer was real
when it was filled (`fill_limit`). Actions: `BioInit(ro)`, `BioWrite(size)` (with the flush
it may start), `BioRead(pos, size)` for any header or data part of a record, `BioFinalize`
(with the header `pd_finalize` then writes, as one step; `Preservation` splits it) and
`Kill`. `IOErrors` lets `write()` persist any prefix, and `read()` fail or deliver any prefix of what the
file has (`Delivered`), of which the test for -1 at `utils.c:95` notices only the former: the buffer keeps
its old cells behind what was delivered, and counts as filled. A kill abandons
the session's records, since the next session appends where the header says.

### Preservation

One step of the model is one iteration of the loops of `pd_read` and `pd_write`, or one
system call of `pd_finalize`: between two such steps tapdisk may die, the clock may tick and
(in `TimeTravel`) the other process may look at the file. `log` maps offsets to records.
Contents are sequences of sectors over a small set of values; the length of a record is
computed from the last sector that is not zero, as `get_actual_data_size` does. A read is
right unless it is a *stale hit* in the sense of `BufferedIO`, whose theorems say that, as long as no
`read()` or `write()` fails or is short, nothing else can go wrong (`RecordsAreReadWhole`); then it may return
anything, and the result is marked. Failing reads (`preservation.c:368,375` look at no result) are left to `BufferedIO`. A stale
header may also carry a size that ends the process, which `Kill` covers. `hist` is what
the guest wrote to each block and `disk_hist` what of it the index on disk stands for; both
are ghosts.

A request is at most a block long (`MaxSecs`), which is what the comment at
`preservation.c:416-418` relies on and what tapdisk, which splits the guest's requests by
pages, does; it may lie across two blocks.

### TimeTravel

Runs a reader process beside `Preservation`: `TTReadHeader` and `TTReadIndex` are the two
reads of `open_disk`; the second may see an index half written by a close in progress.
`TTReadBlock` is `read_current_block`, with the walk along the chain, the overwriting of the
index entry and the cached size. A block is read in one step because nothing it reads can
change while it is read: `PastPreserved` (proved) and, for the bytes, `PastIsImmutable` and
`TimeTravelReadsRight`. An index entry behind the `next_offset` that was read first would
be copied from an append buffer that a read-only disk does not have; the model stops the
device in state `fault`. Two ghosts belong to the disk: `existed` collects the states it had
between two requests of the guest, with which `RestoredStateExisted` compares what a device shows, and
`torn` remembers a kill that left the index on disk half old, half new.

### AioPool

`tdaio_complete` is two steps, since `td_complete_request` calls back before the slot is
returned and the callback may queue a request. Which request completes when is up to the
kernel. tapdisk itself (the callback, that it closes only an idle driver) is external and
modelled as generally as the driver can bear.

### Analysis

Starts from any image of up to `MaxRecords` records that a preservation disk may leave and
runs the tools on it, one step per record or job. `ExportNewest`, `NoRecord` and `ExportChain` are the
two loops of `convertToSequenceFileFromLdLocal` with the `getRecord`s of
`preservationDatabase`; `IndexRecord` is `hashIndex`'s `map()` of one record, `Sample` and `Search`
are whole jobs, after which the user may search again (`Again`). Of Hadoop is assumed that a
mapper receives the records of a split one after the other in the same `BytesWritable` (the tools
read `getBytes()` of it, which is its whole array), starting from a fresh one wherever a split begins,
and that `reduce` sees each key once; the `reduce` of `hashIndex` and `samplingIndex` does not
override Hadoop's, which passes everything on. MD5 is taken to be injective.
The order of the HashDB plays no part and is that of the export.

### VersionHistory

The promise without the mechanism: a history of versions per block, that only grows; what a
session appended becomes durable as a whole at close, or block by block when the process
dies while closing, or not at all. `PreservationHistory` maps it to what a walk along the
chains of the log finds.

### RecordLog

What joins `BufferedIO` and `Preservation`: the log without cells, files or chains. Its variables are
where the log ends on disk and in memory, how much the append buffer holds, the records with their places,
and which part of the log the read buffer shows, and how much of that was there when it was filled.
Both modules implement it (`ImplementsLog` in either): so `Preservation`, which keeps only offsets
and lengths, puts its records where `utils.c` puts them, flushes when it flushes, refills the read
buffer as it does, and counts a hit as stale where `BufferedIO` does not show it to be right. In
`Preservation` a `Read` may refill the window twice or not at all, since one step reads header and data.

### Migration

Each call into libxl, each read and write of a pipe by `migrate_domain` and `migrate_receive` is a
step; every one may fail where the code has a path for it. `KillSender`, `KillReceiver` and `Break`
may come between any two; a broken connection may lose the end of what was sent, and a write into it may
still report success. A pipe whose writers are all gone reads as its end, which is why
`FailedSrc` asks what the processes closed after `fork`. The guest at either end is running,
paused or suspended, or gone, with its name; suspension may time out with the guest running. Destroying may be
refused by Xen at either end, which `libxl_domain_destroy` reports to nobody: the suspended source, or the paused
copy, is then left behind and xl goes on as if it were gone. Resuming fails where the guest cannot be resumed
(`resumable`), which nobody notices either. Domain
creation at the target is one step here and a module of its own in `DomainLife`.

`Handover` is the promise without processes, pipes and names: which of the two copies may be suspended, resumed,
started or destroyed while the other is in what state. `Migration` maps `source` and `target` to `src` and `dst`.

### DomainLife

Every process of `Xl` is an `xl create` or `xl restore` that becomes a daemon; `User` gives
commands. The steps are calls into libxl, except that renaming is two, since
`libxl__domain_rename` looks for the name outside of its transaction: `CheckName` and `Commit`.
xenstored is external: a transaction fails when anything was written since it began (`StoreWritten`
empties `valid`), a watch fires once when it is set, and `@releaseDomain` fires whenever a
domain shuts down or goes. Guests shut down for any of `Reasons` whenever they run unpaused; what
becomes of a destroyed domain (`Gone`, or dying until `Reap`) is the hypervisor's, which may also refuse to
destroy it: `libxl_domain_destroy` then forgets the domain's devices, leaves the domain and returns 0
(`Destroyed`), and the ghost `refused` remembers it. A shutdown by the watchdog takes what the configuration says of
it (`OnWatchdog`), which the run sets to restarting under a new name. `wait_for_dev_destroy`
reads from the same connection as the daemon's watch; `DevicesWait` may swallow its event.
The configurations of all processes give the domain the same name, as a second `xl create` of one file
does; a preserved domain is named after the minute.

### DiskTypes and Devices

One guest from creation to destruction. A device is a kind and a number; its frontend
names a backend directory, which has a state, the `type` by which `block-detach` and `cd-insert` find it,
and, of disks, the image and the tapdisk driver that opened it. A disk specification is what
stands before the path (`tap:preservation`, `phy`, ...): `ParseDisk` (`parse_disk_config`) and
`AttachedDisk` (`main_blockattach`, which has a parser of its own) make a backend and a format of
it, `FormatName` and `DriverOf` the driver. The drivers (`Connect`, `Close`) are external and do what
the Linux backends do: they close when told to, and when a directory is gone. Waiting for them ends
after an event or `LIBXL_DESTROY_TIMEOUT`, at any time. `libxl__device_destroy` is two steps: `Examine` reads
the state of the backend, `DeviceDestroy` tells it to close or removes it, and the backend may connect or close
in between. `BlockAttach` takes any number but that of the CD drive, an occupied one too: nothing in xl or libxl looks (the
`FIXME` at `libxl_device.c:94`); the ghost `over` remembers the devices to which that happened. Where the code is undefined (an empty
directory of interfaces, a disk without a frontend) the command is not taken. `Media`, `Specs` and
`BootSpec` say what disks there are; a guest begins with a CD drive.

### CpuPools

A command is `xl` going through its hypercalls, with the arguments in `xl`; each hypercall may
be refused (`AddCpus`, `RemoveCpus` take any part of what was asked, within Xen's rules: the last
cpu of a pool with domains stays, cpus are in one pool), also those that undo a creation, whose result nobody
looks at: the pool is then left without a name, and the ghost `stray` has it. Between any two steps a guest may start in
or leave a pool, and Domain-0 may follow what it was told about its vcpus. `StartSplit` to
`FillNode` are `main_cpupoolnumasplit`, which uses the steps of the other commands.

## Runs

| run | instance | distinct states | shows |
|---|---|---|---|
| `bio` | 2-cell sectors, 6-cell buffers, headers of 1 and data up to 3 cells, 18-cell file, 4 writes | 77 thousand | without I/O errors, read-only sessions read right; the refinement of `RecordLog` |
| `bio_errors` | 4-cell buffers, data up to 2 cells, 12-cell file, 3 writes, I/O errors | 727 thousand | records that were not lost stay where `bio_write` said; a wrong cell is one that no `read()` delivered; the past is immutable |
| `bio_stale` (violation) | as `bio` | | `bio_read` can return stale data |
| `prsv` | 2 blocks of 2 sectors, 3 write requests | 971 thousand | histories, chains, layout, reads, both refinements |
| `prsv_live` | the same, 2 requests | 112 thousand | requests end |
| `timetravel` | 2 blocks of 2 sectors, 2 requests, 2 clock readings, 1 reader | 4.1 million | the restored view is right, stable and consistent |
| `aio` | 2 slots, 4 requests | 25 thousand | the pool loses and duplicates nothing, accepted requests are answered |
| `analysis` | 2 blocks of 2 sectors of 2 cells, 5 contents, 3 records, 3 times, 3 files | 222 thousand | the export is exact, its newest time right, a search finds what begins with a sector of the file |
| `migration` | one migration, any number of faults | 2,283 | one guest runs, and xl says where; the refinement; both ends end |
| `domlife` | 2 `xl create`, 2 domains, reboots and watchdogs, 1 command of the user | 419 thousand | unique names, one instance, nobody left alone or waiting |
| `devices` | a CD drive, a console, a disk, an interface of each kind, 6 disk types, 3 commands | 338 thousand | frontends, backends and drivers agree; commands end; devices are freed |
| `cpupools` | 3 cpus on 2 nodes, pools 0 to 2, a guest, 2 vcpus, 2 looks | 248 thousand | hypervisor and xenstore agree whatever is refused; the split is exact |

The properties, in words, are in the comments of the modules; the main ones are

* `LogIntact`, `ReadRightUnlessStale`, `ReadOnlyReadsRight`, `CommittedImmutable`, `ImplementsLog` (bytes);
* `LogSound`, `HistoryRecorded`, `ReadReturnsWritten`, `ImplementsLog`, `ImplementsHistory`,
  `RequestsEnd` (records);
* `ViewCorrect`, `FaultOnlyInRace`, `RestoredStateExisted`, `ViewStable` (restoration);
* `PoolSound`, `RefusedOnlyWhenFull`, `RequestsAnswered` (pool);
* `ExportExact`, `NewestPrinted`, `SearchRight` (analysis);
* `OneGuest`, `SenderHonest`, `GuestSurvives`, `ImplementsHandover`, `BothEnd` (migration);
* `OneInstance`, `NamesUnique`, `NoOrphans`, `SuspendedKept`, `DeathNoticed`, `LockObtained` (lifecycle);
* `BackendMatches`, `OpenedAsNamed`, `ConnectedIsTold`, `CommandEnds`, `DevicesFreed` (devices);
* `PoolsHaveNames`, `GuestPoolUsable`, `SplitExact` (cpupools).

Type invariants are conjuncts of `LogSound`, `ViewCorrect`, `ExportExact`, `OneGuest`, `NoOrphans`,
`BackendMatches` and `PoolsHaveNames`.

### Bounds, and why they are enough

The proportions of the buffers are those of the code: a sector holds more than one header, the
append buffer a few records but not all of a behaviour, the read buffer two blocks, so
a window covers several records. Four writes of up to two thirds of the append buffer
make it flush, and then flush again around a session boundary; with file cells numbered by
write, a mix-up of any two is seen. With I/O errors the buffers have two sectors: a read may be short
in the first, in the second or between them, and hit later. In `Preservation` two blocks of two sectors are the least
that has an aligned request, a request inside a block and one across blocks; three
requests give a block two versions and a third in another session. The clock has two
readings where two versions must be told apart, and one where time plays no part. In `Analysis` a block has
two sectors, the least that tells the first from the others, and three records with three times (`MaxTime`) make a
chain of three, which the second loop of the export follows twice, or two chains. Everything counted is bounded by `FileCap`, `MaxWrites`, `MaxRequests` and
`MaxTime`, each in the guard of the action that counts, and by `MaxRecords` in `Init` of `Analysis`. What is
proved (below) holds for all values.

A migration has no bound: every process goes through its steps once. In `DomainLife` two processes are
the least that compete for the lock and for a name, two domains (`MaxDom`) the least that has
one of each process or a restart, and one command (`MaxCommand`) meets every state of the
daemons; a preserved domain may find its name taken already with one minute (`MaxMinute`). `Reasons` are one that
restarts under the same name and one, the watchdog's, that restarts beside a preserved domain. Three
commands on `Devices` attach, attach over it or detach, and change the medium or detach again; the six specifications
have one disk for each place a backend can be (empty and served by qdisk, by the kernel, by
tapdisk, by qdisk with an image), and one for each driver of tapdisk that xl can name; `MaxNic` 1 lets numbers be used again. The first node of `CpuPools` has
one cpu, so that its last cannot be taken, the second two, of which one may be
refused; Domain-0 has a vcpu more than the first node has cpus, so that the split waits (it looks `Tries` = 2 times,
for ten in the code).

### Deadlock and fairness

Only `devices` switches the deadlock check off: when the guest is destroyed and its devices are
freed, nothing remains to be done. `Over` is where `Migration` and `DomainLife` are through. Safety needs no
fairness. `RequestsEnd` assumes weak
fairness of the driver's own steps: tapdisk's event loop calls a handler and runs it to its end.
`RequestsAnswered` assumes that the kernel completes each request and tapdisk's
queue calls back for each completion it collects (strong fairness per slot, since another
completion may be in progress whenever one looks), and that a callback returns.
`BothEnd` assumes weak fairness of each process of the migration: it runs until it blocks on a
pipe or exits. `DeathNoticed` and `LockObtained` assume it of each xl process, in the steps of xl and of
libxl together (a process is at one of the two), and of the command of the user in those of libxl. They are stated of one process
(`AnyXl`), from which no definition tells the others apart. Neither guests nor the user owe anything, and `lockf` may be granted to anybody: that no process
starves holds in the model since each creation takes a number below `MaxDom`, so that others take the lock
only finitely often; of a host on which creations never cease it is not claimed. `CommandEnds` needs no backend to
answer, only that the command goes on (one event after the other: there are only finitely many watches); `DevicesFreed` also that a backend closes when it can.

## What the runs found

1. **Stale reads** (`bio_stale`). The read buffer is filled from the file and its hit test
   looks at positions only (`utils.c:90`). A record in the append buffer that is flushed
   into a region the read buffer covers, but which was past the end of the file when
   the buffer was filled, is read from the buffer: zeros, or what an earlier fill left.
   The guest sees a block that it wrote turn into something else until the buffer moves on.
   Compiled, `utils.c` shows it with the model's counterexample.

Other disagreements of the code with its words, or with itself, came up while modelling. Those
with a name in brackets are stated by a property that the models define and no configuration
checks; replacing the invariants or properties of the configuration by it shows the counterexample.

2. **Stale data in the history** (`VersionsUnpolluted`, with `Preservation.cfg`). `pd_write` merges
   a partial write into a stale read (`preservation.c:469-483`) and preserves the result.
3. **Time is the wall clock** (`RestoredStateExisted`, with `TimeTravel.cfg`, `ClockStepsBack = TRUE`,
   `SectorsPerBlock = 1`, `MaxSecs = 1`, `MaxRequests = 3`). If it is set back, restoring gives a mix of
   states (`preservation.c:326,456` against `README.md:249`).
4. **Only first sectors are indexed** (`SectorsFound`, with `Analysis.cfg`). `ByteControl.java:16` counts
   sectors of 4096 bytes, `hashIndex.java:35` cuts sectors of 512, so every version has one
   hash, that of its first 512 bytes, and none at all if those are uniform.
5. **Hashes of other versions' bytes** (`KeysOfVersion`, with `Analysis.cfg`). A version shorter than a
   sector is hashed with what a longer one left behind it in the buffer (`hashIndex.java:45-55`).
6. **A restored guest that reboots is lost** (`RestoredOnce`, with `DomainLife.cfg`, `Options = {"restore"}`,
   `Xl = {x1}`, `MaxCommand = 0`). `create_domain` restarts with `restore_file` still set
   (`xl_cmdimpl.c:1522`), although "some settings only make sense on first boot" (1663), and reads
   `restore_fd` once more, which is at its end.
7. **The wait for devices is cut short** (`WaitsForDestruction`, with `Devices.cfg`, no disks and no
   interfaces). `libxl__devices_destroy` means "to enforce a single time span" (`libxl_device.c:356-360`),
   but leaves its loop at the first event that is not the end of a backend (365), and each watch fires once
   when it is set.
8. **block-attach knows fewer disks, and does not look.** It leaves the format of raw images unknown
   (`xl_cmdimpl.c:4435-4442`), of which `libxl__device_disk_string_of_format` makes no name, so tapdisk refuses
   them; and it does not know `tap:preservation`. A disk is attached where there is one already
   (`libxl_device.c:94`: "FIXME: read frontend_path and check state before removing stuff"): where both have the same kind of
   backend, the directory of a connected one is replaced without a word; where not, the old directory stays and the frontend names the
   new one, so that nobody closes the old (without `over`, `BackendMatches` and `ConnectedIsTold` fail). A raw image with the prefix `vhd:` becomes a VHD (`libxl.c:892-900`), but only
   the copy of its name loses the prefix.
9. **The backend of a qdisk stays** when its disk is detached, since `libxl.c:1066` looks for `tap`. A
   medium that is no good leaves the guest without a CD drive (`libxl.c:1838`), and a second interface
   after the last was detached reads in front of a list (`libxl.c:1216`).
10. **Failures that report success**: `acquire_lock` in `create_domain` (`xl_cmdimpl.c:1505`, `ret` is 0),
    `cpupool-numa-split` when Domain-0 keeps its vcpus. `libxl_domain_resume` returns 0 whatever happened
    (`libxl.c:226-247`), so that `xl migrate` says that the guest goes on where it stays suspended.
    `libxl_domain_destroy` returns 0 when Xen refused (`libxl.c:753-762`), after it took the guest's devices: `xl migrate` exits
    with 0 and leaves its suspended source, a daemon exits and leaves its guest, and a failed `xl create` a paused domain. `xl network2-attach` passes an uninitialized
    backend domain (`xl_cmdimpl.c:4660`; 4622 sets another variable).
11. **Guests nobody watches**: a suspended guest makes its daemon exit (`xl_cmdimpl.c:1180`), also when the
    save or the migration then fails and the guest goes on; `save -c` unpauses (2459) a guest that would have to
    be resumed.
12. **Two cpupool commands at once** may leave a pool without a name (`libxl.c:3033` is outside of the
    transaction), and so may one alone: that `libxl_destroy_cpupool` failed to undo a creation is not looked at (`libxl.c:2965`),
    and commands find pools by their names only. `libxl_cpupool_movedomain` leaves its transaction open on an error (`libxl.c:3221`).
13. **A backend that connects while it is examined** is removed, not told to close: its state is read in one operation of
    xenstore (`libxl_device.c:248`) and its directory removed in another (254) (`ConnectedIsTold` fails without its exception
    for the backend in `cmd.at`).

Two more are plain in the text: the "oldest timestamp" of
`convertToSequenceFileFromLdLocal.java:73` is that of the oldest of the newest records, since the
older ones (101-112) are not looked at; and without the option the sampling rate is 0.0
(`samplingIndex.java:71`), not the 1.0 of its comment (30). The model has both.

`SearchRight` is what a search does promise despite 4 and 5: of the versions that fill their
first sector it finds exactly those whose first sector is wanted. `ReadRightUnlessStale`,
`HistoryRecorded` and `ReadReturnsWritten` are stated so that they say exactly what holds
despite 1: there is no other way to a wrong read, the first also when `read()` fails or is short, the others as long as it does not.
`BackendMatches`, `ConnectedIsTold`, `PoolsHaveNames`, `NoOrphans` and `SenderHonest` likewise name in their statements what
8, 10, 11, 12 and 13 take from them, by the ghosts `over`, `stray`, `refused` and `once_suspended` where the state does not show it.

## Proofs

TLAPS proves, for every value of the constants that the assumptions allow:

* `BufferedIOProofs`: `TypeCorrect`, `InductiveInvariant`, `RecordsStayIntact`,
  `PastIsImmutable`, `ReadsAreRightUnlessStale`, `RecordsAreReadWhole`, `TimeTravelReadsRight`, `BufferedIOImplementsLog`. Assumed of the sizes
  (`SizesAssumption`) is what the code's constants satisfy: the append buffer is a
  multiple of the sector and holds the longest record, the read buffer holds any part of a
  record wherever in a sector it begins. `LogIntact` alone is not inductive. It needs
  `SessionInv` (where a session appends: never below the header, and a read-only or closed
  one has nothing pending), `PersistedInv` (what lies below the end of the log and was not
  lost is in the file) and `WindowInv` (the read buffer agrees with the file below
  `fill_limit`; and, without I/O errors, no record lies across `fill_limit`). The
  step of `BioWrite` is the hard one: a flush moves cells from buffer to file, keeps every record
  on one side of the new boundary because the padding is longer than what is left, and may not
  touch what the window shows. The arithmetic of rounding is in lemmas of their own.
  `TimeTravelReadsRight` assumes no I/O errors; a failed `read()` spoils a read-only session too. So does
  `BufferedIOImplementsLog`: after a failed or short `read()` the window shows less than the log promises.
* `AioPoolProofs`: `PoolIsSound` (the inductive invariant), `PoolStaysSound`,
  `BusyOnlyWhenFull`, for every size of the pool. That the free list has room for
  a returned slot (`RoomForSlot`) is the pigeonhole principle; that a refusal means a full pool
  is a bijection between pending requests and queued slots.
* `DomainLifeProofs`: `NamesStayUnique`, `OneInstanceRuns`, `NobodyOrphaned` and `SuspendedStaysKept`, for any
  number of processes, domains and commands, whatever guests shut down for and whatever is configured to
  happen then. Assumed are `ProcsAssumption`, `ConfigAssumption`, `NoneAssumption` (`None` is no process)
  and that xenstored refuses a transaction that others wrote into.
  - Names: the invariant `NameInv` adds to the property `ValidFresh`: `libxl_domain_rename` looks whether
    a name is taken outside of its transaction, and as long as the transaction may still commit
    (`valid`) nobody has written since it began, so that what it saw is still true. Every writer
    empties `valid`, and no other step gives a domain a name (`NamesKept`).
  - Lives: `LifeInv` says who looks after a domain. Of all that a process made, all but the last are
    finished: dying, gone, or shut down for another reason than to be suspended (`OneInv`). The last one is
    too as soon as the process is free to make another (`Free`), which it is only after it has seen the
    domain dead (`GetEventLives`), and finished stays finished: only a suspended guest is ever resumed.
    Before it is a daemon, a process that gives up leaves nothing that is not dying (`LeftInv`). Who holds the lock
    is between `create` and `error`, where `ErrorOut` releases it (`LockInv`).
  - Both properties leave out what Xen refused to destroy (`refused`), after which libxl returns 0 and the daemon goes its way.
  - `SuspendedStaysKept` follows: a daemon that has seen a death and acts on its domain is free, so its domain is finished,
    which a suspended one is not, whatever a command saves at the same time; what it starts anew is not suspended.

* `PreservationProofs`, for every size of disk, block, sector, header and buffer and any contents
  (`DiskAssumption`: a request is at most a block, a record fits the append buffer, as in the code).
  - `InvariantHolds`, and from it `LogStaysSound` and `PastStaysPreserved`. `LogSound` alone is not inductive. It needs
    `RequestInv` (how far the loops of `pd_read` and `pd_write` are is a function of what they have read or
    have left, so that a request touches at most two blocks) and `DiskInv` (no record lies across the end
    that the header on disk gives, and while a close is on its way nothing is in the append buffer).
    The step of `WriteBlock` rests on where `bio_write` puts a record: behind everything else.
  - `HistoryStaysRecorded`: chains are of any length, and what a walk along one finds is a recursive
    function. That it is defined (`ChainsExist`), and that two logs that share their records share
    their chains (`VersionsKept`), goes by induction over offsets, since records point back; induction is
    derived from the least element of a set of naturals, and that from the well-foundedness of `<`.
    `HistInv` says of both tables, in memory and on disk, that the chain is the recorded part of the history,
    whose newest entry is what the block holds; leaving out zeros before the first version loses nothing.
  - `Implements`: every step is a step of `VersionHistory` or none. Writing is its `AppendVersion`, and closing
    or dying half way through the index its `EndSession` with the blocks whose entry got there.
  - `PreservationImplementsLog`: every step is one of `RecordLog`, or none, which rests on `LogSound` and
    `DiskInv` alone. Each block read leaves the window as it was or refills it (`LatestBlockRefills`); what a dying
    process leaves are the records that end below the header, as none lies across it (`DyingForgets`).
  - `ReadsReturnWritten`: how the sectors of a request lie in the one or two blocks that were read.
  - Of `TimeTravel`, for any disk and any reader beside it, `ViewStaysCorrect` rests on the
    inductive `TTInv`: every entry that was read is a record below the header on disk, hence kept;
    the chain of a block that is not cached is the history at opening, of any mixture of old and
    new entries; a cached one is the end of a walk, and walking again from there ends there.
    `FaultsOnlyInRace` and `ViewStaysStable` follow. `RestoredStatesExisted` is proved for
    `ClockStepsBack = FALSE`, without which it is false (finding 3): `TimesInv` says that versions are
    ordered by request as by time, and `ExistInv` that a history cut off between any two requests is a
    state that existed; a time cuts all blocks off at the same request.
* `CpuPoolsProofs`: `PoolsKeepNames`, `GuestPoolsStayUsable`, `SplitStaysExact`, for any topology of finitely
  many cpus, any names, pools, guests and vcpus (`CpuPoolsAssumption`: cpus are numbered from 0;
  `NoneAssumption`: `None` is no pool and no name). `Named` says whose name may be missing or left over: that of the one
  pool which the command in progress makes or removes, or those whose creation could not be undone (`stray`). A destruction
  that is abandoned half way for a guest that started meanwhile leaves a pool with a name, since the guest found it by its name: `Named`
  needs `GuestPoolUsable` and the other way round. For the split, `SettledInv` says of every step that
  the finished pools and the crossed out nodes correspond.

* `DevicesProofs`: `BackendsMatch`, `ImagesOpenedAsNamed` and `ConnectedAreTold`, for any disks, interfaces and
  specifications, with and without blktap (`DevicesAssumption`: 0 is the number of the CD drive, which
  block-attach is not given), with disks attached over others, which `over` excepts. A directory `vbd`, and no other, says `phy` (`BackInv`), which is why
  `libxl_device_disk_del` finds again what `libxl_device_disk_add` made. Between commands, `BackendMatches` is not
  inductive: `MatchInv` says it of every device but the one that a command is taking away, and `CmdInv` that of
  this one at most one backend other than of qemu is left, which is being examined, was told to close or is gone, so that
  removing it later takes nobody's connected backend but one that connected since it was examined (`Examining`). Interfaces are numbered upwards (`NicsInv`): what is one
  more than the last is a number none has. Images are opened as named since each disk that xl
  makes of a specification has the format that leads to the driver it names (`GoodDisk`, `Served`), and the two tables agree
  on each of these drivers (`Drivers3`).
* `AnalysisProofs`: `ExportIsExact`, `NewestIsPrinted` and `SearchIsRight`, for any number of blocks, any contents and files
  and any image of growing times (`AnalysisAssumption`: a sector is not longer than a block and divides it). The invariant
  names the image (`ImageOf`), with the block that each record was written to (`of`), and says of the export that it is exactly what is `Past`: the blocks before `i`, and of
  block `i` what is behind `offset`. The next record on a chain is the last before `offset`, so it is the one that
  joins `Past`. Entries and past records then correspond one to one, as no two records have the same block and time
  (`EntriesDiffer`). Of times, the first record of a chain is the last of its block, hence its newest (`TimesGrow`). `SearchIsRight` assumes
  `BlockCells <= CountedSector`, which `ByteControl.java:15-16` states: blocks and counted sectors both have 4096 bytes. Otherwise a
  key could be of a later sector. `KeysInv` then says what the HashDB holds of a version, whatever the array was that the map task reused.
* `MigrationProofs`: `OneGuestAlways`, `SenderHonestAlways`, `GuestSurvivesAlways` and `MigrationImplementsHandover`.
  `Migration` has no parameters and TLC sees all of its states; the proofs say why. None of the properties is inductive:
  what each end may do depends on what the other did before it wrote what is in the pipe.
  - `ToSrcInv`: the receiver has one script, and the pipe to the sender holds the part of it between what the sender has
    read (`HasRead`, from where it is) and what the receiver wrote, less what a break cut off. From what was
    written follows what was done (`Facts`): a status of 0 comes after the guest was started, a permission
    after its copy was destroyed. `PartRead`, `PartWrite` and `PartPrefix` are reading, writing and breaking.
  - `GoInv`: from the GO in the pipe on (`Going`) the source's guest is suspended and renamed, and the sender is where only an
    answer of the target takes it on. Hence `OneGuest`, and that `Handover`'s `Start` is only taken while the source is suspended.
  - Without faults the receiver has written exactly what its place in the code says (`HasWritten`), so that a
    failed read after GO means a fault: `ERROR_BADFAIL` is never returned without one, and the guest survives.

Every theorem is about the specification that TLC runs. Only liveness (`RequestsEnd`, `RequestsAnswered`, `BothEnd`,
`DeathNoticed`, `LockObtained`, `CommandEnds`, `DevicesFreed`), which the prover does not do, is model-checked only.

## Not modelled, and why

* the host losing power (no `fsync` anywhere): the models let the process die, not the page cache;
* two writers on one image: the procedure of the README has one, and nothing would hold;
* `get_actual_data_size` byte by byte, parsing of `name:time` and of device parameters: pure functions;
* failing `open`, `calloc` and `posix_memalign`;
* debug output (`print_hex`, `print_header`, `print_io`) and scripts;
* the flex scanner of xl's configuration (`libxlu_cfg_l.c`), which is generated, and the reading of
  a configuration (`parse_config_data` but for its disks): no state, and Xen's;
* of libxl and xl what is one hypercall or a loop over one (memory targets, affinity, scheduler
  weights, tmem, triggers, PCI passthrough), and all that lists or prints;
* creating and saving a domain in `libxl_create.c`, `libxl_dom.c`, `libxl_blktap2.c`, which are not in the
  repository: they are modelled from their use as external or by what their callers see of them;
* two commands at once on the devices of one guest or on cpupools: the code has no
  protection, and `DomainLife` has the interleavings it does handle;
* `preservationRecordInfo.java`, which decodes a record that nothing writes.

## Plan

Done: `Rounding`, `BufferedIO`, `Preservation` with `VersionHistory` and the refinement, `TimeTravel`,
`AioPool`, `Analysis`, `CpuPools`, `DomainLife`, `Devices` with `DiskTypes`, `Migration` with `Handover`, and
`RecordLog` between `BufferedIO` and `Preservation`, all with proofs.
To come, in this order:

1. `PageCache`: `pd_finalize` on a host that may lose unsynced writes in any order, to state
   which part of `LogSound` survives.
2. Two commands at once in `CpuPools`, to state what a lock around them would give.

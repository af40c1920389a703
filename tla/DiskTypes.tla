------------------------------ MODULE DiskTypes ------------------------------
(***************************************************************************)
(* The registry of disk types of tapdisk: a table of names and a table of   *)
(* drivers, which have to agree on the numbers in tapdisk-disktype.h.       *)
(***************************************************************************)
EXTENDS Naturals

NoDriver == "none"

\* DISK_TYPE_AIO to DISK_TYPE_TIMETRAVEL
TypeNumbers == 0..11

\* tapdisk_disk_types
TypeName(i) ==
  <<"aio", "sync", "vmdk", "vhdsync", "vhd", "ram", "qcow", "bc", "log", "remus",
    "preservation", "timetravel">>[i + 1]

\* tapdisk_disk_drivers: some types are not compiled in.
\* Variant: the last two entries are swapped.
DiskDriverSwapped(i) ==
  <<"aio", NoDriver, NoDriver, NoDriver, "vhd", "ram", "qcow", "block_cache", "log", "remus",
    "timetravel", "preservation">>[i + 1]
DiskDriver(i) ==
  <<"aio", NoDriver, NoDriver, NoDriver, "vhd", "ram", "qcow", "block_cache", "log", "remus",
    "preservation", "timetravel">>[i + 1]

\* tapdisk_disktype_find: the number of a type, if it has a driver.
Find(name) == {i \in TypeNumbers : TypeName(i) = name /\ DiskDriver(i) # NoDriver}

\* The driver that tapdisk opens "name:path" with, none if it refuses to.
DriverOf(name) ==
  IF Find(name) = {} THEN NoDriver ELSE DiskDriver(CHOOSE i \in Find(name) : TRUE)
=============================================================================

--------------------------------- MODULE Fs ---------------------------------
(***************************************************************************)
(* kernel/fs.c over kernel/ata.c: the trace filesystem, its boot and       *)
(* seeding, the saving of a trace session, disk errors, and power loss.    *)
(*                                                                         *)
(* Every ata_write28 of one sector is a step, the inode table being        *)
(* several sectors long; the driver flushes the disk's cache after each    *)
(* call, so sectors reach the disk in order.  CrashAt and FailAt are the   *)
(* places where the machine may lose power and where ata.c may report an   *)
(* error: any place in reality, fewer to find out which are harmless.      *)
(*                                                                         *)
(* The content of a file is a number: -e for executable e, n for the n-th  *)
(* session saved, 0 for a sector never written; a sector holds the part it *)
(* is of its file.  An inode keeps the number in hash as the code keeps    *)
(* sequence_hash.  Lengths are in units of which a sector holds            *)
(* SectorUnits; data sectors are counted from 0 at FS_DATA_START_LBA.      *)
(***************************************************************************)
EXTENDS Integers, FiniteSetsExt

CONSTANTS
  MaxInodes,      \* FS_MAX_INODES
  PerSector,      \* inodes in a sector of the table
  DataSectors,    \* sectors from FS_DATA_START_LBA to the end
  NumExecs,       \* executables that fs_seed_execs installs
  SectorUnits,    \* FS_SECTOR_SIZE, in units
  Sizes,          \* lengths, in units, of the sessions saved
  CrashAt, FailAt,
  MaxSaves,       \* bound on the sessions saved
  MaxBoots        \* bound on the boots

Places == {"load", "fmtsuper", "fmtinodes", "reload", "seed", "bootinodes", "bootsuper",
           "idle", "offline", "data", "inodes", "super", "again"}

\* Where power loss and disk errors do no lasting harm.  The rest are the
\* flushes of the tables and a format after a read error.
SafeCrashes == {"load", "fmtsuper", "fmtinodes", "reload", "seed", "idle", "offline", "data"}
SafeErrors == {"load", "fmtsuper", "fmtinodes", "reload", "seed", "bootinodes", "data"}

ASSUME FsAssumption ==
  /\ MaxInodes \in Nat \ {0} /\ PerSector \in Nat \ {0} /\ DataSectors \in Nat
  /\ NumExecs \in Nat /\ SectorUnits \in Nat \ {0} /\ Sizes \subseteq Nat
  /\ CrashAt \subseteq Places /\ FailAt \subseteq Places
  /\ MaxSaves \in Nat /\ MaxBoots \in Nat \ {0}

VARIABLES
  disk_super, disk_inodes, disk_data,   \* what is on the disk
  superblock, inodes,                   \* the copies in memory
  pc,                                   \* where fs_init or the saving stands
  loc,                                  \* its local variables
  saves,                                \* history: sessions given to fs_write_trace_session
  stored,                               \* history: those it returned 0 for since a
                                        \* read error last made fs_init format
  boots

diskVars == <<disk_super, disk_inodes, disk_data>>
memVars == <<superblock, inodes>>
histVars == <<saves, stored, boots>>
vars == <<diskVars, memVars, pc, loc, histVars>>

Index == 0 .. MaxInodes - 1
FreeInode == [used |-> FALSE, type |-> "none", session |-> 0, start |-> 0, count |-> 0,
              size |-> 0, hash |-> 0]
NoInodes == [i \in Index |-> FreeInode]
BlankSuper == [magic |-> FALSE, next_free |-> 0, next_session |-> 0]
FreshSuper == [magic |-> TRUE, next_free |-> 0, next_session |-> 1]

\* A sector: part p of file c.
Sector(c, p) == [file |-> c, part |-> p]
BlankSector == Sector(0, 0)

\* k: the inode being written; n: its units; i: sectors done so far;
\* e: executables still to seed; again: this is a format after a read error.
NoLocals == [k |-> 0, n |-> 0, i |-> 0, e |-> 0, again |-> FALSE]

\* The place for CrashAt and FailAt: a format over a disk that may hold files
\* is a place of its own.
Place == IF loc.again THEN "again" ELSE pc

\* Mutant: the last inode is not counted in.
TableSectorsShort == (MaxInodes - 1) \div PerSector

TableSectors == (MaxInodes + PerSector - 1) \div PerSector

\* The sectors for n units: an empty session takes one.
SectorsFor(n) == IF n = 0 THEN 1 ELSE (n + SectorUnits - 1) \div SectorUnits

\* The inode table t with sector s taken from u.
WithSector(t, u, s) ==
  [i \in Index |-> IF i \div PerSector = s THEN u[i] ELSE t[i]]

\* fs_alloc_inode: the first unused inode.
FreeInodes == {i \in Index : ~inodes[i].used}

Fits(n) == superblock.next_free + n <= DataSectors

-----------------------------------------------------------------------------
(* Boot: fs_init.                                                           *)

Load ==
  /\ pc = "load"
  /\ superblock' = disk_super
  /\ inodes' = disk_inodes
  /\ IF disk_super.magic
     THEN pc' = "seed" /\ loc' = [NoLocals EXCEPT !.e = NumExecs]
     ELSE pc' = "fmtsuper" /\ loc' = NoLocals
  /\ UNCHANGED <<diskVars, histVars>>

\* fs_load reports a read error: the disk is formatted all the same.
LoadError ==
  /\ pc = "load" /\ pc \in FailAt
  /\ pc' = "fmtsuper"
  /\ loc' = [NoLocals EXCEPT !.again = TRUE]
  /\ stored' = {}
  /\ UNCHANGED <<diskVars, memVars, saves, boots>>

\* ata_init finds no drive that answers: the filesystem stays offline.
NoDrive ==
  /\ pc = "load" /\ pc \in FailAt
  /\ pc' = "offline"
  /\ UNCHANGED <<diskVars, memVars, loc, histVars>>

\* fs_format: the superblock, then the inode table.
FmtSuper ==
  /\ pc = "fmtsuper"
  /\ superblock' = FreshSuper
  /\ inodes' = NoInodes
  /\ disk_super' = FreshSuper
  /\ pc' = "fmtinodes"
  /\ UNCHANGED <<disk_inodes, disk_data, loc, histVars>>

\* The second fs_load.
Reload ==
  /\ pc = "reload"
  /\ superblock' = disk_super
  /\ inodes' = disk_inodes
  /\ pc' = "seed"
  /\ loc' = [NoLocals EXCEPT !.e = NumExecs]
  /\ UNCHANGED <<diskVars, histVars>>

\* A disk error while formatting or reloading leaves the filesystem offline;
\* the sector may have been written before the error was seen.
FormatError ==
  /\ pc \in {"fmtsuper", "fmtinodes", "reload"}
  /\ Place \in FailAt
  /\ pc' = "offline"
  /\ loc' = NoLocals
  /\ IF pc = "fmtsuper"
     THEN superblock' = FreshSuper /\ inodes' = NoInodes /\ disk_super' \in {disk_super, FreshSuper}
     ELSE UNCHANGED <<superblock, inodes, disk_super>>
  /\ disk_inodes' \in IF pc = "fmtinodes"
                      THEN {disk_inodes, WithSector(disk_inodes, inodes, loc.i)}
                      ELSE {disk_inodes}
  /\ UNCHANGED <<disk_data, histVars>>

HasExec(e) == \E i \in Index : inodes[i].used /\ inodes[i].type = "exec" /\ inodes[i].hash = -e

\* fs_seed_exec_file for one executable of one sector.  It is skipped when
\* present, and given up for want of an inode or of a sector.
SeedExec ==
  /\ pc = "seed" /\ loc.e > 0
  /\ loc' = [loc EXCEPT !.e = @ - 1]
  /\ IF HasExec(loc.e) \/ FreeInodes = {} \/ ~Fits(1)
     THEN UNCHANGED <<disk_data, memVars>>
     ELSE LET k == Min(FreeInodes)
          IN /\ disk_data' = [disk_data EXCEPT ![superblock.next_free] = Sector(-loc.e, 0)]
             /\ inodes' = [inodes EXCEPT ![k] =
                             [used |-> TRUE, type |-> "exec", session |-> 0,
                              start |-> superblock.next_free, count |-> 1,
                              size |-> 1, hash |-> -loc.e]]
             /\ superblock' = [superblock EXCEPT !.next_free = @ + 1]
  /\ UNCHANGED <<disk_super, disk_inodes, pc, histVars>>

\* The write of the executable's sector fails: the inode is given back.
SeedError ==
  /\ pc = "seed" /\ pc \in FailAt /\ loc.e > 0
  /\ ~HasExec(loc.e) /\ FreeInodes # {} /\ Fits(1)
  /\ loc' = [loc EXCEPT !.e = @ - 1]
  /\ disk_data' \in {disk_data, [disk_data EXCEPT ![superblock.next_free] = Sector(-loc.e, 0)]}
  /\ UNCHANGED <<disk_super, disk_inodes, memVars, pc, histVars>>

SeedDone ==
  /\ pc = "seed" /\ loc.e = 0
  /\ pc' = "bootinodes"
  /\ UNCHANGED <<diskVars, memVars, loc, histVars>>

\* One sector of fs_flush_inodes, in fs_format, fs_init or the saving.
AfterInodes ==
  CASE pc = "fmtinodes" -> "reload" [] pc = "bootinodes" -> "bootsuper" [] pc = "inodes" -> "super"

FlushInodes ==
  /\ pc \in {"fmtinodes", "bootinodes", "inodes"}
  /\ disk_inodes' = WithSector(disk_inodes, inodes, loc.i)
  /\ IF loc.i + 1 < TableSectors
     THEN loc' = [loc EXCEPT !.i = @ + 1] /\ UNCHANGED pc
     ELSE loc' = [loc EXCEPT !.i = 0] /\ pc' = AfterInodes
  /\ UNCHANGED <<disk_super, disk_data, memVars, histVars>>

\* fs_init ignores the results of its two last flushes.
BootError ==
  /\ pc \in {"bootinodes", "bootsuper"} \cap FailAt
  /\ disk_inodes' \in IF pc = "bootinodes"
                      THEN {disk_inodes, WithSector(disk_inodes, inodes, loc.i)}
                      ELSE {disk_inodes}
  /\ disk_super' \in IF pc = "bootsuper" THEN {disk_super, superblock} ELSE {disk_super}
  /\ pc' = IF pc = "bootinodes" THEN "bootsuper" ELSE "idle"
  /\ loc' = NoLocals
  /\ UNCHANGED <<disk_data, memVars, histVars>>

BootSuper ==
  /\ pc = "bootsuper"
  /\ disk_super' = superblock
  /\ pc' = "idle"
  /\ loc' = NoLocals
  /\ UNCHANGED <<disk_inodes, disk_data, memVars, histVars>>

-----------------------------------------------------------------------------
(* fs_write_trace_session.                                                  *)

\* The session does not fit or no inode is free: -1, or an inode is taken.
Save(n) ==
  /\ pc = "idle"
  /\ saves < MaxSaves
  /\ saves' = saves + 1
  /\ IF Fits(SectorsFor(n)) /\ FreeInodes # {}
     THEN /\ inodes' = [inodes EXCEPT ![Min(FreeInodes)] = [FreeInode EXCEPT !.used = TRUE]]
          /\ loc' = [NoLocals EXCEPT !.k = Min(FreeInodes), !.n = n]
          /\ pc' = "data"
     ELSE UNCHANGED <<inodes, loc, pc>>
  /\ UNCHANGED <<diskVars, superblock, stored, boots>>

\* Mutant: the session's length is not taken into account.
SuperAfterOne(n) == [superblock EXCEPT !.next_session = @ + 1, !.next_free = @ + 1]

\* The superblock after a session on n sectors.
SuperAfter(n) == [superblock EXCEPT !.next_session = @ + 1, !.next_free = @ + n]

\* One data sector; after the last one the inode and the superblock are
\* filled in, in memory.
SaveData ==
  /\ pc = "data"
  /\ disk_data' = [disk_data EXCEPT ![superblock.next_free + loc.i] = Sector(saves, loc.i)]
  /\ IF loc.i + 1 < SectorsFor(loc.n)
     THEN loc' = [loc EXCEPT !.i = @ + 1] /\ UNCHANGED <<memVars, pc>>
     ELSE /\ inodes' = [inodes EXCEPT ![loc.k] =
                          [used |-> TRUE, type |-> "trace", session |-> superblock.next_session,
                           start |-> superblock.next_free, count |-> SectorsFor(loc.n),
                           size |-> loc.n, hash |-> saves]]
          /\ superblock' = SuperAfter(SectorsFor(loc.n))
          /\ loc' = [loc EXCEPT !.i = 0]
          /\ pc' = "inodes"
  /\ UNCHANGED <<disk_super, disk_inodes, histVars>>

SaveSuper ==
  /\ pc = "super"
  /\ disk_super' = superblock
  /\ stored' = stored \cup {saves}
  /\ pc' = "idle"
  /\ loc' = NoLocals
  /\ UNCHANGED <<disk_inodes, disk_data, memVars, saves, boots>>

\* A disk error ends the saving with -1.  Only an error on a data sector
\* gives the inode back; after that the tables in memory stay ahead.
SaveError ==
  /\ pc \in {"data", "inodes", "super"} \cap FailAt
  /\ disk_data' \in IF pc = "data"
                    THEN {disk_data,
                          [disk_data EXCEPT ![superblock.next_free + loc.i] = Sector(saves, loc.i)]}
                    ELSE {disk_data}
  /\ disk_inodes' \in IF pc = "inodes"
                      THEN {disk_inodes, WithSector(disk_inodes, inodes, loc.i)}
                      ELSE {disk_inodes}
  /\ disk_super' \in IF pc = "super" THEN {disk_super, superblock} ELSE {disk_super}
  /\ inodes' = IF pc = "data" THEN [inodes EXCEPT ![loc.k].used = FALSE] ELSE inodes
  /\ pc' = "idle"
  /\ loc' = NoLocals
  /\ UNCHANGED <<superblock, histVars>>

\* Power loss or reset: memory is gone, the kernel boots again.
Crash ==
  /\ Place \in CrashAt
  /\ boots < MaxBoots
  /\ boots' = boots + 1
  /\ superblock' = BlankSuper
  /\ inodes' = NoInodes
  /\ pc' = "load"
  /\ loc' = NoLocals
  /\ UNCHANGED <<diskVars, saves, stored>>

-----------------------------------------------------------------------------
\* The disk image holds no filesystem at first.
Init ==
  /\ disk_super = BlankSuper
  /\ disk_inodes = NoInodes
  /\ disk_data = [s \in 0 .. DataSectors - 1 |-> BlankSector]
  /\ superblock = BlankSuper
  /\ inodes = NoInodes
  /\ pc = "load"
  /\ loc = NoLocals
  /\ saves = 0
  /\ stored = {}
  /\ boots = 1

Boot == Load \/ FmtSuper \/ Reload \/ SeedExec \/ SeedDone \/ BootSuper
Saving == (\E n \in Sizes : Save(n)) \/ SaveData \/ SaveSuper
DiskError == LoadError \/ NoDrive \/ FormatError \/ SeedError \/ BootError \/ SaveError

Next == Boot \/ FlushInodes \/ Saving \/ DiskError \/ Crash

Spec == Init /\ [][Next]_vars
-----------------------------------------------------------------------------
(* Properties.                                                              *)

Super == [magic : BOOLEAN, next_free : 0 .. DataSectors, next_session : Nat]
Content == -NumExecs .. MaxSaves
Inode == [used : BOOLEAN, type : {"none", "trace", "exec"}, session : Nat,
          start : 0 .. DataSectors, count : 0 .. DataSectors,
          size : Nat, hash : Content]

\* Types: the superblock's pointer and every extent stay on the disk.
TypeOK ==
  /\ disk_super \in Super /\ superblock \in Super
  /\ disk_inodes \in [Index -> Inode] /\ inodes \in [Index -> Inode]
  /\ disk_data \in [0 .. DataSectors - 1 -> [file : Content, part : Nat]]
  /\ pc \in Places \ {"again"}
  /\ loc \in [k : Index, n : Nat, i : Nat, e : 0 .. NumExecs, again : BOOLEAN]
  /\ saves \in 0 .. MaxSaves /\ stored \subseteq 1 .. MaxSaves /\ boots \in 1 .. MaxBoots

Files == {i \in Index : inodes[i].used}
Extent(i) == inodes[i].start .. inodes[i].start + inodes[i].count - 1

\* The metadata fs_init found or made is consistent: everything is on the
\* disk, no two files share a sector or a session number, and no file lies
\* where the next one will.
MetadataConsistent ==
  /\ TypeOK
  /\ pc = "idle" =>
       /\ \A i, j \in Files : i # j => Extent(i) \cap Extent(j) = {}
       /\ \A i \in Files : inodes[i].start + inodes[i].count <= superblock.next_free
       /\ \A i, j \in Files :
            /\ inodes[i].type = "trace" => inodes[i].session < superblock.next_session
            /\ i # j /\ inodes[i].type = "trace" /\ inodes[j].type = "trace"
                 => inodes[i].session # inodes[j].session

\* Every file reads back as it was written: its sectors hold its parts in
\* order, so the hash that replay recomputes is the one in its inode.
FilesReadBack ==
  pc = "idle" =>
    \A i \in Files : \A s \in Extent(i) :
      disk_data[s] = Sector(inodes[i].hash, s - inodes[i].start)

\* A session fs_write_trace_session reported as saved is still listed after
\* any number of reboots, until a read error at boot makes fs_init format.
SessionsPersist ==
  pc = "idle" => \A u \in stored : \E i \in Files : inodes[i].type = "trace" /\ inodes[i].hash = u
=============================================================================

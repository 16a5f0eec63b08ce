------------------------------ MODULE FsProofs ------------------------------
(***************************************************************************)
(* Proofs about Fs and Vfs, for every geometry of the disk, number of      *)
(* sessions and size of the buffers.                                       *)
(*                                                                         *)
(* Fs: indices and extents stay on the disk wherever power is lost and     *)
(* wherever the disk fails; and with the crashes and errors of SafeCrashes *)
(* and SafeErrors the metadata is consistent, every file reads back as it  *)
(* was written, and saved sessions survive.                                *)
(*                                                                         *)
(* Vfs: no descriptor is leaked, wherever power is lost and wherever the   *)
(* disk fails; and with the same crashes and errors consecutive reads      *)
(* deliver consecutive pieces and cat prints the whole node.               *)
(***************************************************************************)
EXTENDS Vfs, Lemmas

Locals == [k : Index, n : Nat, i : Nat, e : 0 .. NumExecs, again : BOOLEAN]
Data == [0 .. DataSectors - 1 -> [file : Content, part : Nat]]
Table == [Index -> Inode]

\* While a session is being saved its sectors are known to fit.
TypeInv ==
  /\ TypeOK
  /\ pc = "data" => loc.i < SectorsFor(loc.n) /\ Fits(SectorsFor(loc.n))
  /\ pc \in {"data", "inodes", "super"} => saves # 0

-----------------------------------------------------------------------------
(* The inductive invariant.                                                 *)

\* Two files that share neither a sector nor a session number.
Apart(f, g) ==
  /\ (f.start .. f.start + f.count - 1) \cap (g.start .. g.start + g.count - 1) = {}
  /\ f.type = "trace" /\ g.type = "trace" => f.session # g.session

\* File f lies below pointer s, and sectors d hold its parts in order.
Whole(f, s, d) ==
  /\ f.start + f.count <= s.next_free
  /\ f.type = "trace" => f.session < s.next_session
  /\ \A x \in f.start .. f.start + f.count - 1 : d[x] = Sector(f.hash, x - f.start)

Sound(t, s, d) ==
  /\ \A i \in Index : t[i].used => Whole(t[i], s, d)
  /\ \A i, j \in Index : t[i].used /\ t[j].used /\ i # j => Apart(t[i], t[j])

Empty(t) == \A i \in Index : ~t[i].used

\* Table t has no file that table u does not have in the same place.
Within(t, u) == \A i \in Index : t[i].used => t[i] = u[i]

\* Table t lists every session of S.
Kept(S, t) ==
  \A u \in S : \E i \in Index : t[i].used /\ t[i].type = "trace" /\ t[i].hash = u

\* The first n sectors of table t have been written from u.
Flushed(t, u, n) == \A i \in Index : i \div PerSector < n => t[i] = u[i]

Mounted == {"seed", "bootinodes", "bootsuper", "idle", "data", "inodes", "super"}
Formatting == {"fmtsuper", "fmtinodes", "reload"}

\* The disk by itself: what the next boot will find.
DiskInv ==
  /\ ~disk_super.magic => Empty(disk_inodes)
  /\ Kept(stored, disk_inodes)
  /\ pc \in {"load", "offline", "seed"} => Sound(disk_inodes, disk_super, disk_data)
  /\ pc \in {"idle", "data"} => disk_super = superblock

\* A format, for the first time or over files that could not be read.
FormatInv ==
  /\ loc.again => pc \in Formatting
  /\ pc = "fmtsuper" => loc.i = 0
  /\ pc \in Formatting /\ ~loc.again => Empty(disk_inodes)
  /\ pc \in Formatting => stored = {}
  /\ pc \in {"fmtinodes", "reload"} => disk_super = FreshSuper /\ Empty(inodes)
  /\ pc = "reload" => Empty(disk_inodes)

\* The tables in memory, and how far the disk has caught up with them.
MemoryInv ==
  /\ pc \in Mounted => /\ disk_super.magic /\ superblock.magic
                       /\ Sound(inodes, superblock, disk_data) /\ Within(disk_inodes, inodes)
  /\ pc \in {"fmtinodes", "inodes"} => Flushed(disk_inodes, inodes, loc.i)
  /\ pc = "super" => disk_inodes = inodes

\* The session being saved: its inode is taken, its first sectors are
\* written, and then its inode is filled in.
SaveInv ==
  /\ pc = "data" =>
       /\ inodes[loc.k] = [FreeInode EXCEPT !.used = TRUE] /\ ~disk_inodes[loc.k].used
       /\ \A j \in 0 .. loc.i - 1 : disk_data[superblock.next_free + j] = Sector(saves, j)
  /\ pc \in {"inodes", "super"} =>
       inodes[loc.k].used /\ inodes[loc.k].type = "trace" /\ inodes[loc.k].hash = saves

FsInv == TypeInv /\ DiskInv /\ FormatInv /\ MemoryInv /\ SaveInv

-----------------------------------------------------------------------------
(* The model's operators.                                                   *)

LEMMA Geometry ==
  /\ MaxInodes \in Nat \ {0} /\ PerSector \in Nat \ {0} /\ DataSectors \in Nat
  /\ NumExecs \in Nat /\ SectorUnits \in Nat \ {0} /\ Sizes \subseteq Nat
  /\ MaxSaves \in Nat /\ MaxBoots \in Nat \ {0}
  BY FsAssumption

\* Rounding up.
LEMMA RoundUp ==
  ASSUME NEW n \in Nat \ {0}, NEW u \in Nat \ {0}
  PROVE  (n + u - 1) \div u \in Nat \ {0}
<1> DEFINE a == n + u - 1
           q == a \div u
           r == a % u
<1>1. a \in Int /\ a = n + u - 1
  OBVIOUS
<1>2. a = u * q + r /\ q \in Int /\ r \in 0 .. u - 1
  BY <1>1, DivMod, ModRange
<1> HIDE DEF a, q, r
<1>3. u * q \in Int /\ (q <= -1 => u * q <= -u)
  BY <1>2, MulMonotone
<1>4. q = 0 => u * q = 0
  BY <1>2
<1>5. q >= 1
  BY <1>1, <1>2, <1>3, <1>4
<1> QED
  BY <1>2, <1>5 DEF q, a

LEMMA SectorsPositive == \A n \in Nat : SectorsFor(n) \in Nat \ {0}
<1> TAKE n \in Nat
<1>1. CASE n = 0
  BY <1>1 DEF SectorsFor
<1>2. CASE n # 0
  <2>1. (n + SectorUnits - 1) \div SectorUnits \in Nat \ {0}
    BY <1>2, Geometry, RoundUp
  <2> QED
    BY <1>2, <2>1 DEF SectorsFor
<1> QED
  BY <1>1, <1>2

\* The sectors of the table hold every inode.
LEMMA TableCovers ==
  /\ TableSectors \in Nat \ {0}
  /\ \A i \in Index : i \div PerSector \in Nat /\ i \div PerSector < TableSectors
<1> DEFINE m == MaxInodes
           p == PerSector
           a == m + p - 1
           t == a \div p
           r == a % p
<1>1. m \in Nat \ {0} /\ p \in Nat \ {0} /\ a \in Int /\ a = m + p - 1
  BY Geometry
<1>2. t = TableSectors
  BY DEF TableSectors
<1>3. t \in Nat \ {0}
  <2> HIDE DEF m, p
  <2> QED
    BY <1>1, RoundUp
<1>4. a = p * t + r /\ t \in Int /\ r \in 0 .. p - 1
  <2> HIDE DEF m, p, a
  <2> QED
    BY <1>1, DivMod, ModRange
<1>5. ASSUME NEW i \in Index
      PROVE  i \div p \in Nat /\ i \div p < t
  <2> DEFINE q == i \div p
             s == i % p
  <2>1. i \in Int /\ i >= 0 /\ i <= m - 1
    BY <1>1 DEF Index
  <2> HIDE DEF m, p, a, t, r
  <2>2. i = p * q + s /\ q \in Int /\ s \in 0 .. p - 1
    BY <1>1, <2>1, DivMod, ModRange
  <2> HIDE DEF q, s
  <2> DEFINE x == q - t
  <2>3. x \in Int /\ p * x = p * q - p * t /\ p * q \in Int /\ p * t \in Int
    BY <1>1, <1>4, <2>2
  <2>4. (x >= 1 => p * x >= p) /\ p * x \in Int
    BY <1>1, <2>3, MulMonotone
  <2>5. x = 0 => p * x = 0
    BY <1>1
  <2>6. q <= -1 => p * q <= -p
    BY <1>1, <2>2, MulMonotone
  <2>7. q >= 0
    BY <1>1, <2>1, <2>2, <2>3, <2>6
  <2> HIDE DEF x
  <2>8. p * x <= -1
    BY <1>1, <1>4, <2>1, <2>2, <2>3, <2>4
  <2>9. x < 0
    BY <1>1, <2>3, <2>4, <2>5, <2>8
  <2> QED
    BY <1>4, <2>2, <2>7, <2>9 DEF x, q
<1> QED
  BY <1>2, <1>3, <1>5

LEMMA FirstFree ==
  ASSUME FreeInodes # {}
  PROVE  Min(FreeInodes) \in Index /\ ~inodes[Min(FreeInodes)].used
<1>1. FreeInodes \subseteq Nat
  BY Geometry DEF FreeInodes, Index
<1>2. \E x \in FreeInodes : \A y \in FreeInodes : x <= y
  BY <1>1, LeastNatural
<1>3. Min(FreeInodes) \in FreeInodes
  BY <1>2 DEF Min
<1> QED
  BY <1>3 DEF FreeInodes

LEMMA Values ==
  /\ FreeInode \in Inode /\ ~FreeInode.used /\ NoInodes \in Table /\ Empty(NoInodes)
  /\ BlankSuper \in Super /\ FreshSuper \in Super /\ FreshSuper.magic
  /\ NoLocals \in Locals /\ NoLocals.i = 0 /\ ~NoLocals.again
  /\ [NoLocals EXCEPT !.e = NumExecs] \in Locals
  /\ [NoLocals EXCEPT !.again = TRUE] \in Locals
<1>1. 0 \in Content /\ 0 \in 0 .. DataSectors /\ 0 \in Index /\ 0 \in 0 .. NumExecs /\ NumExecs \in 0 .. NumExecs
  BY Geometry DEF Content, Index
<1>2. FreeInode \in Inode /\ ~FreeInode.used
  BY <1>1 DEF FreeInode, Inode
<1>3. NoInodes \in Table /\ Empty(NoInodes)
  BY <1>2 DEF NoInodes, Table, Empty
<1>4. BlankSuper \in Super /\ FreshSuper \in Super /\ FreshSuper.magic
  BY <1>1 DEF BlankSuper, FreshSuper, Super
<1>5. NoLocals \in Locals /\ NoLocals.i = 0 /\ ~NoLocals.again
  BY <1>1 DEF NoLocals, Locals
<1>6. [NoLocals EXCEPT !.e = NumExecs] \in Locals /\ [NoLocals EXCEPT !.again = TRUE] \in Locals
  BY <1>1, <1>5 DEF Locals
<1> QED
  BY <1>2, <1>3, <1>4, <1>5, <1>6

LEMMA SectorType ==
  ASSUME NEW c \in Content, NEW p \in Nat
  PROVE  Sector(c, p) \in [file : Content, part : Nat]
  BY DEF Sector

LEMMA TableType ==
  ASSUME NEW t \in Table, NEW u \in Table, NEW s
  PROVE  /\ WithSector(t, u, s) \in Table
         /\ \A i \in Index : WithSector(t, u, s)[i] = IF i \div PerSector = s THEN u[i] ELSE t[i]
  BY DEF Table, WithSector

LEMMA Written ==
  ASSUME NEW d \in Data, NEW a \in 0 .. DataSectors - 1, NEW c \in Content, NEW p \in Nat
  PROVE  /\ [d EXCEPT ![a] = Sector(c, p)] \in Data
         /\ [d EXCEPT ![a] = Sector(c, p)][a] = Sector(c, p)
         /\ \A x \in 0 .. DataSectors - 1 : x # a => [d EXCEPT ![a] = Sector(c, p)][x] = d[x]
  BY SectorType DEF Data

-----------------------------------------------------------------------------
(* The types, wherever power is lost and wherever the disk fails.           *)

LEMMA Typed ==
  ASSUME TypeInv
  PROVE  /\ disk_super \in Super /\ superblock \in Super
         /\ disk_inodes \in Table /\ inodes \in Table /\ disk_data \in Data
         /\ pc \in Places \ {"again"} /\ loc \in Locals
         /\ saves \in 0 .. MaxSaves /\ stored \subseteq 1 .. MaxSaves /\ boots \in 1 .. MaxBoots
  BY DEF TypeInv, TypeOK, Table, Data, Locals

LEMMA TypedConverse ==
  ASSUME disk_super' \in Super, superblock' \in Super,
         disk_inodes' \in Table, inodes' \in Table, disk_data' \in Data,
         pc' \in Places \ {"again"}, loc' \in Locals,
         saves' \in 0 .. MaxSaves, stored' \subseteq 1 .. MaxSaves, boots' \in 1 .. MaxBoots
  PROVE  TypeOK'
  BY DEF TypeOK, Table, Data, Locals

\* The places where nothing is being saved.
Quiet == Places \ {"again", "data", "inodes", "super"}

LEMMA QuietStep ==
  ASSUME TypeOK', pc' \in Quiet
  PROVE  TypeInv'
  BY DEF TypeInv, Quiet

LEMMA BootTypes ==
  ASSUME TypeInv, Load \/ FmtSuper \/ Reload \/ SeedDone \/ BootSuper \/ LoadError \/ NoDrive \/ Crash
  PROVE  TypeInv'
<1>1. pc' \in Quiet
  BY DEF Load, FmtSuper, Reload, SeedDone, BootSuper, LoadError, NoDrive, Crash, Quiet, Places
<1>2. /\ disk_super' \in Super /\ superblock' \in Super
      /\ disk_inodes' \in Table /\ inodes' \in Table /\ disk_data' \in Data
  BY Typed, Values
     DEF Load, FmtSuper, Reload, SeedDone, BootSuper, LoadError, NoDrive, Crash, diskVars, memVars
<1>3. loc' \in Locals
  BY Typed, Values DEF Load, FmtSuper, Reload, SeedDone, BootSuper, LoadError, NoDrive, Crash
<1>4. saves' = saves /\ (stored' = stored \/ stored' = {})
  BY DEF Load, FmtSuper, Reload, SeedDone, BootSuper, LoadError, NoDrive, Crash, histVars
<1>5. boots' \in 1 .. MaxBoots
  <2>1. boots' = boots \/ (boots < MaxBoots /\ boots' = boots + 1)
    BY DEF Load, FmtSuper, Reload, SeedDone, BootSuper, LoadError, NoDrive, Crash, histVars
  <2> QED
    BY <2>1, Typed, Geometry
<1>6. TypeOK'
  BY <1>1, <1>2, <1>3, <1>4, <1>5, Typed, TypedConverse DEF Quiet
<1> QED
  BY <1>1, <1>6, QuietStep

LEMMA ErrorTypes ==
  ASSUME TypeInv, FormatError \/ BootError
  PROVE  TypeInv'
<1>1. pc' \in Quiet
  BY DEF FormatError, BootError, Quiet, Places
<1>2. WithSector(disk_inodes, inodes, loc.i) \in Table
  BY Typed, TableType
<1>3. /\ disk_super' \in Super /\ superblock' \in Super
      /\ disk_inodes' \in Table /\ inodes' \in Table /\ disk_data' \in Data
  <2>1. CASE FormatError
    BY <1>2, <2>1, Typed, Values DEF FormatError
  <2>2. CASE BootError
    BY <1>2, <2>2, Typed, Values DEF BootError, memVars
  <2> QED
    BY <2>1, <2>2
<1>4. loc' \in Locals /\ saves' = saves /\ stored' = stored /\ boots' = boots
  BY Values DEF FormatError, BootError, histVars
<1>5. TypeOK'
  BY <1>1, <1>3, <1>4, Typed, TypedConverse DEF Quiet
<1> QED
  BY <1>1, <1>5, QuietStep

\* The executable being seeded, the sector it goes to, and the tables after.
LEMMA SeedTypes ==
  ASSUME TypeInv, loc.e > 0, FreeInodes # {}, Fits(1)
  PROVE  /\ -loc.e \in Content /\ superblock.next_free \in 0 .. DataSectors - 1
         /\ [used |-> TRUE, type |-> "exec", session |-> 0, start |-> superblock.next_free,
             count |-> 1, size |-> 1, hash |-> -loc.e] \in Inode
         /\ [superblock EXCEPT !.next_free = @ + 1] \in Super
<1> DEFINE f == superblock.next_free
           e == loc.e
           h == -loc.e
           g == f + 1
<1>1. f \in 0 .. DataSectors /\ e \in 0 .. NumExecs /\ h = -e /\ f + 1 <= DataSectors
      /\ superblock \in Super
  BY Typed DEF Super, Locals, Fits
<1> HIDE DEF f, e, h
<1>2. h \in Content /\ f \in 0 .. DataSectors - 1 /\ g \in 0 .. DataSectors /\ 1 \in 0 .. DataSectors
  BY <1>1, Geometry DEF Content
<1>3. [used |-> TRUE, type |-> "exec", session |-> 0, start |-> f,
       count |-> 1, size |-> 1, hash |-> h] \in Inode
  BY <1>1, <1>2 DEF Inode
<1>4. [superblock EXCEPT !.next_free = f + 1] \in Super
  <2> HIDE DEF g
  <2>1. [superblock EXCEPT !.next_free = g] \in Super
    BY <1>1, <1>2 DEF Super
  <2> QED
    BY <2>1 DEF g
<1> QED
  BY <1>2, <1>3, <1>4 DEF f, e, h

LEMMA SeedStepTypes ==
  ASSUME TypeInv, SeedExec \/ SeedError
  PROVE  TypeInv'
<1> DEFINE w == loc.e - 1
           f == superblock.next_free
           h == -loc.e
           new == [used |-> TRUE, type |-> "exec", session |-> 0, start |-> f,
                   count |-> 1, size |-> 1, hash |-> h]
           k == Min(FreeInodes)
<1>1. pc' = "seed" /\ loc.e > 0 /\ loc' = [loc EXCEPT !.e = w]
      /\ UNCHANGED <<disk_super, disk_inodes, saves, stored, boots>>
  BY DEF SeedExec, SeedError, histVars
<1>2. loc' \in Locals
  <2>1. w \in 0 .. NumExecs
    <3> DEFINE e == loc.e
    <3>1. e \in 0 .. NumExecs /\ e > 0
      BY <1>1, Typed DEF Locals
    <3> HIDE DEF e
    <3>2. e - 1 \in 0 .. NumExecs
      BY <3>1, Geometry
    <3> QED
      BY <3>2 DEF e
  <2> HIDE DEF w
  <2> QED
    BY <1>1, <2>1, Typed DEF Locals
<1>3. disk_data' \in Data /\ inodes' \in Table /\ superblock' \in Super
  <2>1. CASE UNCHANGED <<disk_data, inodes, superblock>>
    BY <2>1, Typed
  <2>2. CASE /\ FreeInodes # {} /\ Fits(1)
             /\ disk_data' \in {disk_data, [disk_data EXCEPT ![f] = Sector(h, 0)]}
             /\ \/ UNCHANGED <<inodes, superblock>>
                \/ /\ inodes' = [inodes EXCEPT ![k] = new]
                   /\ superblock' = [superblock EXCEPT !.next_free = @ + 1]
    <3>1. h \in Content /\ f \in 0 .. DataSectors - 1 /\ new \in Inode
          /\ [superblock EXCEPT !.next_free = @ + 1] \in Super /\ k \in Index
      BY <1>1, <2>2, SeedTypes, FirstFree
    <3> HIDE DEF h, f, new, k
    <3>2. disk_data' \in Data
      <4>1. 0 \in Nat
        OBVIOUS
      <4> QED
        BY <2>2, <3>1, <4>1, Typed, Written
    <3>3. inodes' \in Table
      <4>1. [inodes EXCEPT ![k] = new] \in Table
        BY <3>1, Typed DEF Table
      <4> QED
        BY <2>2, <4>1, Typed
    <3> QED
      BY <2>2, <3>1, <3>2, <3>3, Typed
  <2> QED
    BY <2>1, <2>2 DEF SeedExec, SeedError, memVars
<1>4. "seed" \in Quiet
  BY DEF Quiet, Places
<1>5. TypeOK'
  BY <1>1, <1>2, <1>3, <1>4, Typed, TypedConverse DEF Quiet
<1> QED
  BY <1>1, <1>4, <1>5, QuietStep

LEMMA FlushTypes ==
  ASSUME TypeInv, FlushInodes
  PROVE  TypeInv'
<1> DEFINE w == loc.i + 1
<1>1. /\ disk_inodes' = WithSector(disk_inodes, inodes, loc.i)
      /\ UNCHANGED <<disk_super, disk_data, superblock, inodes, saves, stored, boots>>
      /\ pc \in {"fmtinodes", "bootinodes", "inodes"}
  BY DEF FlushInodes, memVars, histVars
<1>2. disk_inodes' \in Table
  BY <1>1, Typed, TableType
<1>3. /\ pc' \in Places \ {"again", "data"}
      /\ pc' \in {"inodes", "super"} => pc = "inodes"
      /\ loc' = [loc EXCEPT !.i = w] \/ loc' = [loc EXCEPT !.i = 0]
  BY <1>1 DEF FlushInodes, AfterInodes, Places
<1>4. loc' \in Locals
  <2>1. w \in Nat /\ loc \in Locals
    BY Typed DEF Locals
  <2> HIDE DEF w
  <2> QED
    BY <1>3, <2>1 DEF Locals
<1>5. TypeOK'
  BY <1>1, <1>2, <1>3, <1>4, Typed, TypedConverse
<1>6. pc' \in {"data", "inodes", "super"} => saves' # 0
  BY <1>1, <1>3 DEF TypeInv
<1> QED
  BY <1>3, <1>5, <1>6 DEF TypeInv

LEMMA SaveTypes ==
  ASSUME TypeInv, NEW n \in Sizes, Save(n)
  PROVE  TypeInv'
<1>1. /\ UNCHANGED <<disk_super, disk_inodes, disk_data, superblock, stored, boots>>
      /\ pc = "idle" /\ saves < MaxSaves /\ saves' = saves + 1
  BY DEF Save, diskVars
<1>2. saves' \in 0 .. MaxSaves /\ saves' # 0
  BY <1>1, Typed, Geometry
<1>3. CASE Fits(SectorsFor(n)) /\ FreeInodes # {}
  <2> DEFINE k == Min(FreeInodes)
             b == [FreeInode EXCEPT !.used = TRUE]
  <2>1. /\ inodes' = [inodes EXCEPT ![k] = b] /\ pc' = "data"
        /\ loc' = [NoLocals EXCEPT !.k = k, !.n = n]
    BY <1>3 DEF Save
  <2>2. k \in Index /\ n \in Nat
    BY <1>3, FirstFree, Geometry
  <2>3. b \in Inode
    BY Values DEF Inode
  <2> HIDE DEF k, b
  <2>4. inodes' \in Table
    BY <2>1, <2>2, <2>3, Typed DEF Table
  <2>5. loc' \in Locals /\ loc'.i = 0 /\ loc'.n = n
    BY <2>1, <2>2, Values DEF Locals
  <2>6. TypeOK'
    BY <1>1, <1>2, <2>1, <2>4, <2>5, Typed, TypedConverse DEF Places
  <2>7. Fits(SectorsFor(loc.n))'
    BY <1>1, <1>3, <2>5 DEF Fits, SectorsFor
  <2>8. (loc.i < SectorsFor(loc.n))'
    <3>1. SectorsFor(n) \in Nat \ {0} /\ SectorsFor(loc.n)' = SectorsFor(n)
      BY <2>2, <2>5, SectorsPositive DEF SectorsFor
    <3> QED
      BY <2>5, <3>1
  <2> QED
    BY <1>2, <2>6, <2>7, <2>8 DEF TypeInv
<1>4. CASE ~(Fits(SectorsFor(n)) /\ FreeInodes # {})
  <2>1. UNCHANGED <<inodes, loc, pc>>
    BY <1>4 DEF Save
  <2>2. TypeOK'
    BY <1>1, <1>2, <2>1, Typed, TypedConverse
  <2> QED
    BY <1>1, <2>1, <2>2 DEF TypeInv
<1> QED
  BY <1>3, <1>4

\* The sector being written, and the tables once the last one is.
LEMMA DataTypes ==
  ASSUME TypeInv, pc = "data"
  PROVE  /\ superblock.next_free + loc.i \in 0 .. DataSectors - 1
         /\ superblock.next_free \in 0 .. DataSectors
         /\ saves \in Content /\ loc.i \in Nat /\ loc.k \in Index
         /\ SectorsFor(loc.n) \in 0 .. DataSectors
         /\ superblock.next_free + SectorsFor(loc.n) \in 0 .. DataSectors
         /\ superblock.next_session \in Nat
<1> DEFINE f == superblock.next_free
           i == loc.i
           c == SectorsFor(loc.n)
<1>1. f \in 0 .. DataSectors /\ i \in Nat /\ loc.k \in Index /\ loc.n \in Nat
      /\ superblock.next_session \in Nat
  BY Typed DEF Super, Locals
<1>2. c \in Nat /\ i < c /\ f + c <= DataSectors
  BY <1>1, SectorsPositive DEF TypeInv, Fits
<1>3. saves \in Content
  BY Typed, Geometry DEF Content
<1> HIDE DEF f, i, c
<1>4. f + i \in 0 .. DataSectors - 1 /\ c \in 0 .. DataSectors /\ f + c \in 0 .. DataSectors
  BY <1>1, <1>2, Geometry
<1> QED
  BY <1>1, <1>3, <1>4 DEF f, i, c

\* The inode and the superblock that fs_write_trace_session fills in.
NewInode == [used |-> TRUE, type |-> "trace", session |-> superblock.next_session,
             start |-> superblock.next_free, count |-> SectorsFor(loc.n),
             size |-> loc.n, hash |-> saves]

LEMMA FilledIn ==
  ASSUME TypeInv, pc = "data"
  PROVE  /\ NewInode \in Inode /\ SuperAfter(SectorsFor(loc.n)) \in Super
         /\ SuperAfter(SectorsFor(loc.n)).next_free = superblock.next_free + SectorsFor(loc.n)
         /\ SuperAfter(SectorsFor(loc.n)).next_session = superblock.next_session + 1
         /\ SuperAfter(SectorsFor(loc.n)).magic = superblock.magic
<1> DEFINE f == superblock.next_free
           c == SectorsFor(loc.n)
           s == superblock.next_session
           n == loc.n
           a == s + 1
           b == f + c
<1>1. /\ f \in 0 .. DataSectors /\ c \in 0 .. DataSectors /\ s \in Nat /\ n \in Nat
      /\ b \in 0 .. DataSectors /\ saves \in Content /\ superblock \in Super
  BY DataTypes, Typed DEF Locals
<1>2. SuperAfter(c) = [superblock EXCEPT !.next_session = a, !.next_free = b]
  BY DEF SuperAfter
<1>3. NewInode = [used |-> TRUE, type |-> "trace", session |-> s, start |-> f, count |-> c,
                  size |-> n, hash |-> saves]
  BY DEF NewInode
<1>4. a \in Nat
  BY <1>1
<1> HIDE DEF f, c, s, n, a, b
<1>5. NewInode \in Inode
  BY <1>1, <1>3 DEF Inode
<1>6. /\ SuperAfter(c) \in Super /\ SuperAfter(c).next_free = b /\ SuperAfter(c).next_session = a
      /\ SuperAfter(c).magic = superblock.magic
  BY <1>1, <1>2, <1>4 DEF Super
<1> QED
  BY <1>5, <1>6 DEF f, c, s, a, b

LEMMA SaveDataTypes ==
  ASSUME TypeInv, SaveData
  PROVE  TypeInv'
<1> DEFINE a == superblock.next_free + loc.i
           w == loc.i + 1
<1>1. /\ disk_data' = [disk_data EXCEPT ![a] = Sector(saves, loc.i)] /\ pc = "data"
      /\ UNCHANGED <<disk_super, disk_inodes, saves, stored, boots>>
  BY DEF SaveData, histVars
<1>2. disk_data' \in Data
  BY <1>1, DataTypes, Typed, Written
<1>3. CASE w < SectorsFor(loc.n)
  <2>1. loc' = [loc EXCEPT !.i = w] /\ UNCHANGED <<superblock, inodes, pc>>
    BY <1>3 DEF SaveData, memVars
  <2>2. loc \in Locals /\ w \in Nat
    BY Typed DEF Locals
  <2>3. loc' \in Locals /\ loc'.n = loc.n /\ loc'.i = w
    <3> HIDE DEF w
    <3> QED
      BY <2>1, <2>2 DEF Locals
  <2>4. TypeOK'
    BY <1>1, <1>2, <2>1, <2>3, Typed, TypedConverse
  <2>5. SectorsFor(loc.n)' = SectorsFor(loc.n)
    BY <2>3 DEF SectorsFor
  <2>6. Fits(SectorsFor(loc.n))' /\ (loc.i < SectorsFor(loc.n))'
    BY <1>1, <1>3, <2>1, <2>3, <2>5 DEF TypeInv, Fits
  <2> QED
    BY <1>1, <2>1, <2>4, <2>6 DEF TypeInv
<1>4. CASE ~(w < SectorsFor(loc.n))
  <2>1. /\ inodes' = [inodes EXCEPT ![loc.k] = NewInode]
        /\ superblock' = SuperAfter(SectorsFor(loc.n))
        /\ loc' = [loc EXCEPT !.i = 0] /\ pc' = "inodes"
    BY <1>4 DEF SaveData, NewInode
  <2>2. inodes' \in Table /\ superblock' \in Super
    BY <1>1, <2>1, FilledIn, DataTypes, Typed DEF Table
  <2>3. loc' \in Locals
    BY <2>1, Typed DEF Locals
  <2>4. TypeOK'
    BY <1>1, <1>2, <2>1, <2>2, <2>3, Typed, TypedConverse DEF Places
  <2> QED
    BY <1>1, <2>1, <2>4 DEF TypeInv
<1> QED
  BY <1>3, <1>4

LEMMA SaveSuperTypes ==
  ASSUME TypeInv, SaveSuper
  PROVE  TypeInv'
<1>1. /\ disk_super' = superblock /\ stored' = stored \cup {saves} /\ pc' = "idle" /\ loc' = NoLocals
      /\ UNCHANGED <<disk_inodes, disk_data, superblock, inodes, saves, boots>> /\ pc = "super"
  BY DEF SaveSuper, memVars
<1>2. saves \in 1 .. MaxSaves
  BY <1>1, Typed, Geometry DEF TypeInv
<1>3. TypeOK'
  BY <1>1, <1>2, Typed, TypedConverse, Values DEF Places
<1> QED
  BY <1>1, <1>3, QuietStep DEF Quiet, Places

LEMMA SaveErrorTypes ==
  ASSUME TypeInv, SaveError
  PROVE  TypeInv'
<1> DEFINE a == superblock.next_free + loc.i
<1>1. /\ pc' = "idle" /\ loc' = NoLocals /\ UNCHANGED <<superblock, saves, stored, boots>>
      /\ pc \in {"data", "inodes", "super"}
  BY DEF SaveError, histVars
<1>2. disk_super' \in Super
  BY Typed DEF SaveError
<1>3. disk_inodes' \in Table
  BY Typed, TableType DEF SaveError
<1>4. disk_data' \in Data
  <2>1. disk_data' = disk_data
        \/ (pc = "data" /\ disk_data' = [disk_data EXCEPT ![a] = Sector(saves, loc.i)])
    BY DEF SaveError
  <2> QED
    BY <2>1, DataTypes, Typed, Written
<1>5. inodes' \in Table
  <2>1. inodes' = inodes \/ inodes' = [inodes EXCEPT ![loc.k].used = FALSE]
    BY DEF SaveError
  <2> DEFINE k == loc.k
             b == [inodes[k] EXCEPT !.used = FALSE]
  <2>2. k \in Index
    BY Typed DEF Locals
  <2>3. b \in Inode
    BY <2>2, Typed, ZenonT(30) DEF Table, Inode
  <2>4. inodes' = inodes \/ inodes' = [inodes EXCEPT ![k] = b]
    BY <2>1
  <2> HIDE DEF k, b
  <2> QED
    BY <2>2, <2>3, <2>4, Typed DEF Table
<1>6. TypeOK'
  BY <1>1, <1>2, <1>3, <1>4, <1>5, Typed, TypedConverse, Values DEF Places
<1> QED
  BY <1>1, <1>6, QuietStep DEF Quiet, Places

LEMMA InitTypes == Init => TypeInv
<1> SUFFICES ASSUME Init
             PROVE  TypeInv
  OBVIOUS
<1>1. disk_data \in [0 .. DataSectors - 1 -> [file : Content, part : Nat]]
  <2>1. 0 \in Content
    BY Geometry DEF Content
  <2> QED
    BY <2>1 DEF Init, BlankSector, Sector
<1>2. 1 \in 1 .. MaxBoots /\ 0 \in 0 .. MaxSaves
  BY Geometry
<1>3. TypeOK
  BY <1>1, <1>2, Values DEF Init, TypeOK, Places, Table, Locals
<1> QED
  BY <1>3 DEF TypeInv, Init

LEMMA StepTypes ==
  ASSUME TypeInv, [Next]_vars
  PROVE  TypeInv'
<1>1. CASE Boot
  BY <1>1, BootTypes, SeedStepTypes DEF Boot
<1>2. CASE Saving
  BY <1>2, SaveTypes, SaveDataTypes, SaveSuperTypes DEF Saving
<1>3. CASE DiskError
  BY <1>3, BootTypes, ErrorTypes, SeedStepTypes, SaveErrorTypes DEF DiskError
<1>4. CASE UNCHANGED vars
  <2>1. UNCHANGED <<disk_super, disk_inodes, disk_data, superblock, inodes, pc, loc, saves, stored, boots>>
    BY <1>4 DEF vars, diskVars, memVars, histVars
  <2> QED
    BY <2>1 DEF TypeInv, TypeOK, Fits, SectorsFor
<1> QED
  BY <1>1, <1>2, <1>3, <1>4, BootTypes, FlushTypes DEF Next

\* Wherever power is lost and whatever the disk reports, the allocation
\* pointer and every extent that fs.c computes stay on the disk.
THEOREM ExtentsOnDisk == Spec => []TypeOK
<1>1. TypeInv => TypeOK
  BY DEF TypeInv
<1> QED
  BY <1>1, InitTypes, StepTypes, PTL DEF Spec

-----------------------------------------------------------------------------
(* Tables, sectors and what keeps them sound.                               *)

LEMMA EmptySound ==
  ASSUME NEW t, NEW s, NEW d, Empty(t)
  PROVE  Sound(t, s, d)
  BY DEF Empty, Sound

LEMMA WithinSelf == \A t : Within(t, t)
  BY DEF Within

\* A table with fewer files is sound, with the pointers it had when it was.
LEMMA Below ==
  ASSUME NEW t, NEW u, NEW s, NEW d, Within(t, u), Sound(u, s, d)
  PROVE  /\ Sound(t, s, d)
         /\ \A r, c : Sound(t, r, c) => Sound(t, r, d)
<1>1. \A i \in Index : t[i].used => t[i] = u[i] /\ u[i].used
  BY DEF Within
<1>2. Sound(t, s, d)
  BY <1>1 DEF Sound
<1>3. ASSUME NEW r, NEW c, Sound(t, r, c)
      PROVE  Sound(t, r, d)
  <2>1. ASSUME NEW i \in Index, t[i].used
        PROVE  Whole(t[i], r, d)
    BY <1>2, <1>3, <2>1 DEF Sound, Whole
  <2> QED
    BY <1>3, <2>1 DEF Sound
<1> QED
  BY <1>2, <1>3

\* Sectors above the pointer may be written, and the pointers may grow.
LEMMA Grow ==
  ASSUME NEW t \in Table, NEW s \in Super, NEW r \in Super, NEW d, NEW c, Sound(t, s, d),
         s.next_free <= r.next_free, s.next_session <= r.next_session,
         \A x \in 0 .. DataSectors - 1 : x < s.next_free => c[x] = d[x]
  PROVE  Sound(t, r, c)
<1>1. ASSUME NEW i \in Index, t[i].used
      PROVE  Whole(t[i], r, c)
  <2> DEFINE f == t[i]
             a == f.start
             n == f.count
             p == s.next_free
             q == r.next_free
             v == s.next_session
             w == r.next_session
             e == f.session
  <2>1. Whole(f, s, d)
    BY <1>1 DEF Sound
  <2>2. a \in 0 .. DataSectors /\ n \in 0 .. DataSectors /\ e \in Nat
    BY DEF Table, Inode
  <2>3. p \in 0 .. DataSectors /\ q \in 0 .. DataSectors /\ v \in Nat /\ w \in Nat /\ p <= q /\ v <= w
    BY DEF Super
  <2>4. a + n <= p /\ (f.type = "trace" => e < v)
        /\ \A x \in a .. a + n - 1 : d[x] = Sector(f.hash, x - a)
    BY <2>1 DEF Whole
  <2>5. \A x \in 0 .. DataSectors - 1 : x < p => c[x] = d[x]
    OBVIOUS
  <2> HIDE DEF a, n, p, q, v, w, e
  <2>6. a + n <= q /\ (f.type = "trace" => e < w)
    BY ONLY <2>2, <2>3, <2>4, Geometry
  <2>7. ASSUME NEW x \in a .. a + n - 1
        PROVE  c[x] = Sector(f.hash, x - a)
    <3>1. x \in 0 .. DataSectors - 1 /\ x < p
      BY ONLY <2>2, <2>3, <2>4, <2>7, Geometry
    <3> QED
      BY <2>4, <2>5, <3>1
  <2> QED
    BY <2>6, <2>7 DEF Whole, a, n, q, w, e
<1> QED
  BY <1>1 DEF Sound

LEMMA ApartSymmetric ==
  ASSUME NEW f, NEW g, Apart(f, g)
  PROVE  Apart(g, f)
  BY DEF Apart

\* A file put in place of another, apart from the rest.
LEMMA PutFile ==
  ASSUME NEW t \in Table, NEW s, NEW d, NEW k \in Index, NEW f, Sound(t, s, d), Whole(f, s, d),
         \A i \in Index : i # k /\ t[i].used => Apart(t[i], f)
  PROVE  Sound([t EXCEPT ![k] = f], s, d)
<1> DEFINE u == [t EXCEPT ![k] = f]
<1>1. u[k] = f /\ \A i \in Index : i # k => u[i] = t[i]
  BY DEF Table
<1> HIDE DEF u
<1>2. \A i \in Index : u[i].used => Whole(u[i], s, d)
  BY <1>1 DEF Sound
<1>3. ASSUME NEW i \in Index, NEW j \in Index, u[i].used, u[j].used, i # j
      PROVE  Apart(u[i], u[j])
  <2>1. CASE i = k
    BY <1>1, <1>3, <2>1, ApartSymmetric
  <2>2. CASE j = k
    BY <1>1, <1>3, <2>2
  <2>3. CASE i # k /\ j # k
    BY <1>1, <1>3, <2>3 DEF Sound
  <2> QED
    BY <2>1, <2>2, <2>3
<1>4. Sound(u, s, d)
  BY <1>2, <1>3 DEF Sound
<1> QED
  BY <1>4 DEF u

\* A file written where the pointer stands, the pointers moved past it.
LEMMA AddFile ==
  ASSUME NEW t \in Table, NEW s \in Super, NEW r \in Super, NEW d, NEW c,
         NEW k \in Index, NEW f \in Inode, Sound(t, s, d),
         f.start = s.next_free, r.next_free = s.next_free + f.count,
         s.next_session <= r.next_session,
         f.type = "trace" => f.session = s.next_session /\ s.next_session < r.next_session,
         \A x \in 0 .. DataSectors - 1 : x < s.next_free => c[x] = d[x],
         \A x \in f.start .. f.start + f.count - 1 : c[x] = Sector(f.hash, x - f.start)
  PROVE  Sound([t EXCEPT ![k] = f], r, c)
<1> DEFINE p == s.next_free
           q == r.next_free
           n == f.count
           v == s.next_session
           w == r.next_session
           e == f.session
<1>1. /\ p \in 0 .. DataSectors /\ q \in 0 .. DataSectors /\ n \in 0 .. DataSectors
      /\ v \in Nat /\ w \in Nat /\ e \in Nat /\ q = p + n /\ f.start = p /\ v <= w
      /\ f.type = "trace" => e = v /\ v < w
  BY DEF Super, Inode
<1>2. Sound(t, r, c)
  <2>1. s.next_free <= r.next_free
    <3> HIDE DEF p, q, n, v, w, e
    <3>1. p <= q
      BY ONLY <1>1, Geometry
    <3> QED
      BY <3>1 DEF p, q
  <2> QED
    BY <2>1, Grow
<1>3. Whole(f, r, c)
  <2> HIDE DEF p, q, n, v, w, e
  <2>1. p + n <= q /\ (f.type = "trace" => e < w)
    BY ONLY <1>1, Geometry
  <2> QED
    BY <1>1, <2>1 DEF Whole, n, q, e, w
<1>4. ASSUME NEW i \in Index, t[i].used
      PROVE  Apart(t[i], f)
  <2> DEFINE a == t[i].start
             m == t[i].count
             g == t[i].session
  <2>1. a \in 0 .. DataSectors /\ m \in 0 .. DataSectors /\ g \in Nat
    BY DEF Table, Inode
  <2>2. a + m <= p /\ (t[i].type = "trace" => g < v)
    BY <1>4 DEF Sound, Whole
  <2> HIDE DEF a, m, g, p, n, v, q, w, e
  <2>3. ASSUME NEW x \in a .. a + m - 1, x \in p .. p + n - 1
        PROVE  FALSE
    BY ONLY <1>1, <2>1, <2>2, <2>3, Geometry
  <2>4. (a .. a + m - 1) \cap (p .. p + n - 1) = {}
    BY <2>3
  <2>5. t[i].type = "trace" /\ f.type = "trace" => g # e
    BY ONLY <1>1, <2>1, <2>2
  <2> QED
    BY <1>1, <2>4, <2>5 DEF Apart, a, m, g, n, e
<1> QED
  BY <1>2, <1>3, <1>4, PutFile

\* What writing a sector of table u over table t does.
LEMMA FlushStep ==
  ASSUME NEW t \in Table, NEW u \in Table, NEW n \in Nat
  PROVE  /\ Within(t, u) => Within(WithSector(t, u, n), u)
         /\ Empty(t) /\ Empty(u) => Empty(WithSector(t, u, n))
         /\ Flushed(t, u, 0)
         /\ Flushed(t, u, n) => Flushed(WithSector(t, u, n), u, n + 1)
         /\ Flushed(t, u, n) /\ ~(n + 1 < TableSectors) => WithSector(t, u, n) = u
         /\ \A S : Kept(S, t) /\ Within(t, u) => Kept(S, WithSector(t, u, n))
<1> DEFINE w == WithSector(t, u, n)
<1>1. w \in Table /\ \A i \in Index : w[i] = IF i \div PerSector = n THEN u[i] ELSE t[i]
  BY TableType
<1> HIDE DEF w
<1>2. Within(t, u) => Within(w, u)
  BY <1>1 DEF Within
<1>3. Empty(t) /\ Empty(u) => Empty(w)
  BY <1>1 DEF Empty
<1>4. \A i \in Index : i \div PerSector \in Nat /\ i \div PerSector < TableSectors
  BY TableCovers
<1>5. Flushed(t, u, 0)
  BY <1>4 DEF Flushed
<1>6. Flushed(t, u, n) => Flushed(w, u, n + 1)
  BY <1>1, <1>4 DEF Flushed
<1>7. ASSUME Flushed(t, u, n), ~(n + 1 < TableSectors)
      PROVE  w = u
  <2>1. ASSUME NEW i \in Index
        PROVE  i \div PerSector < n + 1
    BY <1>4, <1>7, TableCovers
  <2>2. \A i \in Index : w[i] = u[i]
    BY <1>6, <1>7, <2>1 DEF Flushed
  <2> QED
    BY <1>1, <2>2 DEF Table
<1>8. ASSUME NEW S, Kept(S, t), Within(t, u)
      PROVE  Kept(S, w)
  BY <1>1, <1>8 DEF Kept, Within
<1> QED
  BY <1>2, <1>3, <1>5, <1>6, <1>7, <1>8 DEF w

-----------------------------------------------------------------------------
(* Where power loss and disk errors are harmless, the invariant is kept.    *)

Harmless == CrashAt \subseteq SafeCrashes /\ FailAt \subseteq SafeErrors

LEMMA LoadKeeps ==
  ASSUME FsInv, TypeInv', Load \/ Reload
  PROVE  FsInv'
<1>1. /\ superblock' = disk_super /\ inodes' = disk_inodes
      /\ UNCHANGED <<disk_super, disk_inodes, disk_data, saves, stored, boots>>
  BY DEF Load, Reload, diskVars, histVars
<1>2. ~loc'.again /\ loc'.i = 0
  BY Values DEF Load, Reload, NoLocals
<1>3. CASE pc' = "seed"
  <2>1. disk_super.magic /\ Sound(disk_inodes, disk_super, disk_data)
    <3>1. CASE Load
      BY <1>3, <3>1 DEF Load, FsInv, DiskInv
    <3>2. CASE Reload
      BY <3>2, EmptySound, Values DEF Reload, FsInv, FormatInv
    <3> QED
      BY <3>1, <3>2
  <2>2. DiskInv'
    BY <1>1, <1>3, <2>1 DEF FsInv, DiskInv
  <2>3. FormatInv'
    BY <1>2, <1>3 DEF FormatInv, Formatting
  <2>4. MemoryInv'
    BY <1>1, <1>3, <2>1, WithinSelf DEF MemoryInv
  <2> QED
    BY <1>3, <2>2, <2>3, <2>4 DEF FsInv, SaveInv
<1>4. CASE pc' # "seed"
  <2>1. pc = "load" /\ pc' = "fmtsuper" /\ ~disk_super.magic
    BY <1>4 DEF Load, Reload
  <2>2. Empty(disk_inodes) /\ stored = {}
    BY <2>1 DEF FsInv, DiskInv, Empty, Kept
  <2>3. DiskInv'
    BY <1>1, <2>1, <2>2 DEF FsInv, DiskInv
  <2>4. FormatInv'
    BY <1>1, <1>2, <2>1, <2>2 DEF FormatInv, Formatting
  <2>5. MemoryInv'
    BY <2>1 DEF MemoryInv, Mounted
  <2> QED
    BY <2>1, <2>3, <2>4, <2>5 DEF FsInv, SaveInv
<1> QED
  BY <1>3, <1>4

LEMMA LoadErrorKeeps ==
  ASSUME FsInv, TypeInv', LoadError
  PROVE  FsInv'
<1>1. /\ pc' = "fmtsuper" /\ stored' = {}
      /\ UNCHANGED <<disk_super, disk_inodes, disk_data>>
  BY DEF LoadError, diskVars
<1>2. loc'.again /\ loc'.i = 0
  BY Values DEF LoadError, NoLocals
<1>3. DiskInv'
  BY <1>1 DEF FsInv, DiskInv, Kept
<1>4. FormatInv'
  BY <1>1, <1>2 DEF FormatInv, Formatting
<1> QED
  BY <1>1, <1>3, <1>4 DEF FsInv, MemoryInv, Mounted, SaveInv

LEMMA NoDriveKeeps ==
  ASSUME FsInv, TypeInv', NoDrive
  PROVE  FsInv'
<1>1. /\ pc = "load" /\ pc' = "offline"
      /\ UNCHANGED <<disk_super, disk_inodes, disk_data, loc, stored>>
  BY DEF NoDrive, diskVars, histVars
<1>2. DiskInv'
  BY <1>1 DEF FsInv, DiskInv
<1>3. FormatInv'
  BY <1>1 DEF FsInv, FormatInv, Formatting
<1> QED
  BY <1>1, <1>2, <1>3 DEF FsInv, MemoryInv, Mounted, SaveInv

LEMMA FmtSuperKeeps ==
  ASSUME FsInv, TypeInv', FmtSuper
  PROVE  FsInv'
<1>1. /\ pc = "fmtsuper" /\ pc' = "fmtinodes" /\ disk_super' = FreshSuper /\ inodes' = NoInodes
      /\ UNCHANGED <<disk_inodes, disk_data, loc, stored>>
  BY DEF FmtSuper, histVars
<1>2. DiskInv'
  BY <1>1, Values DEF FsInv, DiskInv
<1>3. FormatInv'
  BY <1>1, Values DEF FsInv, FormatInv, Formatting
<1>4. Flushed(disk_inodes', inodes', loc'.i)
  <2>1. loc.i = 0 /\ disk_inodes \in Table
    BY <1>1, Typed DEF FsInv, FormatInv
  <2> QED
    BY <1>1, <2>1, FlushStep, Values
<1>5. MemoryInv'
  BY <1>1, <1>4 DEF MemoryInv, Mounted
<1> QED
  BY <1>1, <1>2, <1>3, <1>5 DEF FsInv, SaveInv

LEMMA FormatErrorKeeps ==
  ASSUME Harmless, FsInv, TypeInv', FormatError
  PROVE  FsInv'
<1>1. /\ pc \in Formatting /\ pc' = "offline" /\ loc' = NoLocals
      /\ UNCHANGED <<disk_data, stored>>
      /\ disk_super' = disk_super \/ disk_super' = FreshSuper
      /\ \/ disk_inodes' = disk_inodes
         \/ pc = "fmtinodes" /\ disk_inodes' = WithSector(disk_inodes, inodes, loc.i)
  BY DEF FormatError, histVars, Formatting
<1>2. ~loc.again
  BY DEF FormatError, Harmless, Place, SafeErrors
<1>3. Empty(disk_inodes) /\ stored = {}
  BY <1>1, <1>2 DEF FsInv, FormatInv
<1>4. Empty(disk_inodes')
  <2>1. pc = "fmtinodes" => Empty(inodes)
    BY DEF FsInv, FormatInv
  <2>2. disk_inodes \in Table /\ inodes \in Table /\ loc.i \in Nat
    BY Typed DEF FsInv, Locals
  <2> QED
    BY <1>1, <1>3, <2>1, <2>2, FlushStep
<1>5. DiskInv'
  BY <1>1, <1>3, <1>4, EmptySound DEF DiskInv, Kept
<1>6. FormatInv'
  BY <1>1, Values DEF FormatInv, Formatting
<1> QED
  BY <1>1, <1>5, <1>6 DEF FsInv, MemoryInv, Mounted, SaveInv

\* The tables in memory get one more file, or only a sector is written.
LEMMA SeedData ==
  ASSUME FsInv, TypeInv', pc = "seed", SeedExec \/ SeedError
  PROVE  /\ Sound(inodes', superblock', disk_data') /\ Within(disk_inodes, inodes')
         /\ superblock'.magic = superblock.magic
<1> DEFINE f == superblock.next_free
           h == -loc.e
           new == [used |-> TRUE, type |-> "exec", session |-> 0, start |-> f,
                   count |-> 1, size |-> 1, hash |-> h]
           k == Min(FreeInodes)
<1>1. Sound(inodes, superblock, disk_data) /\ Within(disk_inodes, inodes)
  BY DEF FsInv, MemoryInv, Mounted
<1>2. CASE UNCHANGED <<disk_data, inodes, superblock>>
  BY <1>1, <1>2
<1>3. CASE /\ loc.e > 0 /\ FreeInodes # {} /\ Fits(1)
           /\ disk_data' \in {disk_data, [disk_data EXCEPT ![f] = Sector(h, 0)]}
           /\ \/ UNCHANGED <<inodes, superblock>>
              \/ /\ disk_data' = [disk_data EXCEPT ![f] = Sector(h, 0)]
                 /\ inodes' = [inodes EXCEPT ![k] = new]
                 /\ superblock' = [superblock EXCEPT !.next_free = @ + 1]
  <2>1. /\ h \in Content /\ f \in 0 .. DataSectors - 1 /\ new \in Inode
        /\ [superblock EXCEPT !.next_free = @ + 1] \in Super
        /\ k \in Index /\ ~inodes[k].used
    BY <1>3, SeedTypes, FirstFree DEF FsInv
  <2>2. inodes \in Table /\ superblock \in Super /\ disk_data \in Data /\ disk_inodes \in Table
    BY Typed DEF FsInv
  <2>3. new.start = f /\ new.count = 1 /\ new.type = "exec" /\ new.hash = h
    OBVIOUS
  <2>4. superblock.next_session \in Nat /\ f = superblock.next_free
    BY <2>2 DEF Super
  <2> DEFINE r == [superblock EXCEPT !.next_free = @ + 1]
             c == [disk_data EXCEPT ![f] = Sector(h, 0)]
  <2>5. r.next_free = f + 1 /\ r.next_session = superblock.next_session /\ r.magic = superblock.magic
    BY <2>2 DEF Super
  <2>6. c[f] = Sector(h, 0) /\ \A x \in 0 .. DataSectors - 1 : x < f => c[x] = disk_data[x]
    <3> HIDE DEF f, h
    <3>1. 0 \in Nat /\ f \in 0 .. DataSectors - 1 /\ h \in Content /\ disk_data \in Data
      BY <2>1, <2>2
    <3>2. c[f] = Sector(h, 0) /\ \A x \in 0 .. DataSectors - 1 : x # f => c[x] = disk_data[x]
      BY ONLY <3>1 DEF Data
    <3> QED
      BY <2>1, <3>2, Geometry
  <2> HIDE DEF f, h, new, r, c, k
  <2>7. Sound(inodes, superblock, c)
    <3>1. f <= f /\ superblock.next_session <= superblock.next_session
      BY <2>1, <2>4, Geometry
    <3> QED
      BY <1>1, <2>2, <2>4, <2>6, <3>1, Grow
  <2>8. Sound([inodes EXCEPT ![k] = new], r, c)
    <3>1. \A x \in f .. f + 1 - 1 : c[x] = Sector(h, x - f)
      <4>1. ASSUME NEW x \in f .. f + 1 - 1
            PROVE  x = f /\ x - f = 0
        BY <2>1, <4>1, Geometry
      <4> QED
        BY <2>6, <4>1
    <3>2. superblock.next_session <= r.next_session
      BY <2>4, <2>5
    <3>3. new.type # "trace"
      BY <2>3
    <3>4. r \in Super
      BY <2>1 DEF r
    <3>5. new.start = superblock.next_free /\ r.next_free = superblock.next_free + new.count
      BY <2>3, <2>4, <2>5
    <3>6. \A x \in new.start .. new.start + new.count - 1 : c[x] = Sector(new.hash, x - new.start)
      BY <2>3, <3>1
    <3>7. \A x \in 0 .. DataSectors - 1 : x < superblock.next_free => c[x] = disk_data[x]
      BY <2>4, <2>6
    <3> QED
      BY <1>1, <2>1, <2>2, <3>2, <3>3, <3>4, <3>5, <3>6, <3>7, AddFile
  <2>9. Within(disk_inodes, [inodes EXCEPT ![k] = new])
    BY <1>1, <2>1, <2>2 DEF Within, Table
  <2> QED
    BY <1>1, <1>3, <2>5, <2>7, <2>8, <2>9 DEF c, r
<1> QED
  BY <1>2, <1>3 DEF SeedExec, SeedError, memVars

LEMMA SeedKeeps ==
  ASSUME FsInv, TypeInv', SeedExec \/ SeedError
  PROVE  FsInv'
<1>1. /\ pc = "seed" /\ pc' = "seed" /\ UNCHANGED <<disk_super, disk_inodes, stored>>
      /\ loc' = [loc EXCEPT !.e = @ - 1]
  BY DEF SeedExec, SeedError, histVars
<1>2. ~loc'.again
  <2>1. loc \in Locals /\ ~loc.again
    BY <1>1, Typed DEF FsInv, FormatInv, Formatting
  <2> QED
    BY <1>1, <2>1 DEF Locals
<1>3. /\ Sound(inodes', superblock', disk_data') /\ Within(disk_inodes, inodes')
      /\ superblock'.magic = superblock.magic
  BY <1>1, SeedData
<1>4. Sound(disk_inodes, disk_super, disk_data')
  <2>1. Sound(disk_inodes, disk_super, disk_data)
    BY <1>1 DEF FsInv, DiskInv
  <2> QED
    BY <1>3, <2>1, Below
<1>5. DiskInv'
  BY <1>1, <1>4 DEF FsInv, DiskInv
<1>6. FormatInv'
  BY <1>1, <1>2 DEF FormatInv, Formatting
<1>7. MemoryInv'
  BY <1>1, <1>3 DEF FsInv, MemoryInv, Mounted
<1> QED
  BY <1>1, <1>5, <1>6, <1>7 DEF FsInv, SaveInv

LEMMA SeedDoneKeeps ==
  ASSUME FsInv, TypeInv', SeedDone
  PROVE  FsInv'
<1>1. /\ pc = "seed" /\ pc' = "bootinodes"
      /\ UNCHANGED <<disk_super, disk_inodes, disk_data, superblock, inodes, loc, stored>>
  BY DEF SeedDone, diskVars, memVars, histVars
<1>2. DiskInv'
  BY <1>1 DEF FsInv, DiskInv
<1>3. FormatInv'
  BY <1>1 DEF FsInv, FormatInv, Formatting
<1>4. MemoryInv'
  BY <1>1 DEF FsInv, MemoryInv, Mounted
<1> QED
  BY <1>1, <1>2, <1>3, <1>4 DEF FsInv, SaveInv

LEMMA FlushKeeps ==
  ASSUME FsInv, TypeInv', FlushInodes
  PROVE  FsInv'
<1> DEFINE w == loc.i + 1
<1>1. /\ disk_inodes' = WithSector(disk_inodes, inodes, loc.i)
      /\ UNCHANGED <<disk_super, disk_data, superblock, inodes, saves, stored>>
      /\ pc \in {"fmtinodes", "bootinodes", "inodes"}
  BY DEF FlushInodes, memVars, histVars
<1>2. \/ pc' = pc /\ loc' = [loc EXCEPT !.i = w]
      \/ pc' = AfterInodes /\ loc' = [loc EXCEPT !.i = 0] /\ ~(w < TableSectors)
  BY DEF FlushInodes
<1>3. /\ disk_inodes \in Table /\ inodes \in Table /\ loc.i \in Nat /\ loc \in Locals /\ w \in Nat
  BY Typed DEF FsInv, Locals
<1>4. /\ loc'.again = loc.again /\ loc'.k = loc.k
      /\ pc' = pc => loc'.i = w \/ pc' = AfterInodes
  <2> HIDE DEF w
  <2> QED
    BY <1>2, <1>3 DEF Locals
<1>5. CASE pc = "fmtinodes"
  <2>1. pc' \in {"fmtinodes", "reload"} /\ (pc' = "fmtinodes" => loc'.i = w)
    BY <1>2, <1>4, <1>5 DEF AfterInodes
  <2>2. /\ Empty(inodes) /\ stored = {} /\ disk_super = FreshSuper
        /\ ~loc.again => Empty(disk_inodes)
        /\ Flushed(disk_inodes, inodes, loc.i)
    BY <1>5 DEF FsInv, FormatInv, MemoryInv, Formatting
  <2>3. ~loc.again => Empty(disk_inodes')
    BY <1>1, <1>3, <2>2, FlushStep
  <2>4. pc' = "fmtinodes" => Flushed(disk_inodes', inodes', loc'.i)
    BY <1>1, <1>3, <2>1, <2>2, FlushStep
  <2>5. pc' = "reload" => Empty(disk_inodes')
    BY <1>1, <1>2, <1>3, <1>5, <2>2, FlushStep
  <2>6. DiskInv'
    BY <1>1, <2>1, <2>2, Values DEF DiskInv, Kept
  <2>7. FormatInv'
    BY <1>1, <1>4, <2>1, <2>2, <2>3, <2>5 DEF FormatInv, Formatting
  <2>8. MemoryInv'
    BY <2>1, <2>4 DEF MemoryInv, Mounted
  <2> QED
    BY <2>1, <2>6, <2>7, <2>8 DEF FsInv, SaveInv
<1>6. CASE pc # "fmtinodes"
  <2>1. /\ pc' \in {"bootinodes", "bootsuper", "inodes", "super"}
        /\ pc' = "inodes" => pc = "inodes" /\ loc'.i = w
        /\ pc' = "super" => pc = "inodes" /\ ~(w < TableSectors)
    BY <1>1, <1>2, <1>4, <1>6 DEF AfterInodes
  <2>2. /\ disk_super.magic /\ superblock.magic
        /\ Sound(inodes, superblock, disk_data) /\ Within(disk_inodes, inodes)
        /\ pc = "inodes" => Flushed(disk_inodes, inodes, loc.i)
        /\ Kept(stored, disk_inodes) /\ ~loc.again
    BY <1>1, <1>6 DEF FsInv, MemoryInv, Mounted, DiskInv, FormatInv, Formatting
  <2>3. Within(disk_inodes', inodes) /\ Kept(stored, disk_inodes')
    BY <1>1, <1>3, <2>2, FlushStep
  <2>4. pc' = "inodes" => Flushed(disk_inodes', inodes', loc'.i)
    BY <1>1, <1>3, <2>1, <2>2, FlushStep
  <2>5. pc' = "super" => disk_inodes' = inodes'
    BY <1>1, <1>3, <2>1, <2>2, FlushStep
  <2>6. DiskInv'
    BY <1>1, <2>1, <2>2, <2>3 DEF DiskInv
  <2>7. FormatInv'
    BY <1>4, <2>1, <2>2 DEF FormatInv, Formatting
  <2>8. MemoryInv'
    BY <1>1, <2>1, <2>2, <2>3, <2>4, <2>5 DEF MemoryInv
  <2>9. SaveInv'
    BY <1>1, <1>4, <2>1 DEF FsInv, SaveInv
  <2> QED
    BY <2>6, <2>7, <2>8, <2>9 DEF FsInv
<1> QED
  BY <1>5, <1>6

LEMMA BootEndKeeps ==
  ASSUME Harmless, FsInv, TypeInv', BootSuper \/ BootError
  PROVE  FsInv'
<1>1. /\ loc' = NoLocals /\ UNCHANGED <<disk_data, superblock, inodes, stored>>
      /\ \/ pc = "bootsuper" /\ pc' = "idle" /\ disk_super' = superblock /\ disk_inodes' = disk_inodes
         \/ /\ pc = "bootinodes" /\ pc' = "bootsuper" /\ disk_super' = disk_super
            /\ \/ disk_inodes' = disk_inodes
               \/ disk_inodes' = WithSector(disk_inodes, inodes, loc.i)
  BY DEF BootSuper, BootError, memVars, histVars, Harmless, SafeErrors
<1>2. /\ disk_inodes \in Table /\ inodes \in Table /\ loc.i \in Nat
  BY Typed DEF FsInv, Locals
<1>3. /\ disk_super.magic /\ superblock.magic
      /\ Sound(inodes, superblock, disk_data) /\ Within(disk_inodes, inodes)
      /\ Kept(stored, disk_inodes)
  BY <1>1 DEF FsInv, MemoryInv, Mounted, DiskInv
<1>4. Within(disk_inodes', inodes) /\ Kept(stored, disk_inodes')
  BY <1>1, <1>2, <1>3, FlushStep
<1>5. DiskInv'
  BY <1>1, <1>3, <1>4 DEF DiskInv
<1>6. FormatInv'
  BY <1>1, Values DEF FormatInv, Formatting
<1>7. MemoryInv'
  BY <1>1, <1>3, <1>4 DEF MemoryInv
<1> QED
  BY <1>1, <1>5, <1>6, <1>7 DEF FsInv, SaveInv

LEMMA SaveKeeps ==
  ASSUME FsInv, TypeInv', NEW n \in Sizes, Save(n)
  PROVE  FsInv'
<1>1. /\ UNCHANGED <<disk_super, disk_inodes, disk_data, superblock, stored>> /\ pc = "idle"
  BY DEF Save, diskVars
<1>2. /\ disk_super.magic /\ superblock.magic /\ disk_super = superblock
      /\ Sound(inodes, superblock, disk_data) /\ Within(disk_inodes, inodes)
      /\ Kept(stored, disk_inodes) /\ ~loc.again
  BY <1>1 DEF FsInv, MemoryInv, Mounted, DiskInv, FormatInv, Formatting
<1>3. CASE Fits(SectorsFor(n)) /\ FreeInodes # {}
  <2> DEFINE k == Min(FreeInodes)
             b == [FreeInode EXCEPT !.used = TRUE]
  <2>1. /\ inodes' = [inodes EXCEPT ![k] = b] /\ pc' = "data"
        /\ loc' = [NoLocals EXCEPT !.k = k, !.n = n]
    BY <1>3 DEF Save
  <2>2. k \in Index /\ ~inodes[k].used /\ inodes \in Table /\ disk_inodes \in Table /\ superblock \in Super
    BY <1>3, FirstFree, Typed DEF FsInv
  <2>3. b.used /\ b.start = 0 /\ b.count = 0 /\ b.type = "none"
    BY DEF FreeInode
  <2>4. loc'.k = k /\ loc'.i = 0 /\ ~loc'.again
    BY <2>1, Values DEF NoLocals
  <2> HIDE DEF k
  <2>5. Sound(inodes', superblock, disk_data)
    <3>1. Whole(b, superblock, disk_data)
      <4>1. b.start + b.count <= superblock.next_free
        <5>1. superblock.next_free \in Nat
          BY <2>2, Geometry DEF Super
        <5> QED
          BY <2>3, <5>1
      <4>2. b.start .. b.start + b.count - 1 = {}
        BY <2>3
      <4> HIDE DEF b
      <4> QED
        BY <2>3, <4>1, <4>2 DEF Whole
    <3>2. ASSUME NEW f
          PROVE  Apart(f, b)
      <4>1. b.start .. b.start + b.count - 1 = {}
        BY <2>3
      <4> HIDE DEF b
      <4> QED
        BY <2>3, <4>1 DEF Apart
    <3> HIDE DEF b
    <3> QED
      BY <1>2, <2>1, <2>2, <3>1, <3>2, PutFile
  <2>6. inodes'[k] = b /\ ~disk_inodes[k].used
    BY <1>2, <2>1, <2>2 DEF Within, Table
  <2>7. Within(disk_inodes, inodes')
    BY <1>2, <2>1, <2>2 DEF Within, Table
  <2>8. DiskInv'
    BY <1>1, <1>2, <2>1 DEF DiskInv
  <2>9. FormatInv'
    BY <2>1, <2>4 DEF FormatInv, Formatting
  <2>10. MemoryInv'
    BY <1>1, <1>2, <2>1, <2>5, <2>7 DEF MemoryInv
  <2>11. SaveInv'
    BY <1>1, <2>1, <2>4, <2>6 DEF SaveInv
  <2> QED
    BY <2>8, <2>9, <2>10, <2>11 DEF FsInv
<1>4. CASE ~(Fits(SectorsFor(n)) /\ FreeInodes # {})
  <2>1. UNCHANGED <<inodes, loc, pc>>
    BY <1>4 DEF Save
  <2>2. DiskInv' /\ FormatInv' /\ MemoryInv'
    BY <1>1, <1>2, <2>1 DEF FsInv, DiskInv, FormatInv, MemoryInv, Formatting
  <2> QED
    BY <1>1, <2>1, <2>2 DEF FsInv, SaveInv
<1> QED
  BY <1>3, <1>4

\* A sector of the session being saved is written above every file.
LEMMA SectorSaved ==
  ASSUME FsInv, pc = "data"
  PROVE  LET c == [disk_data EXCEPT ![superblock.next_free + loc.i] = Sector(saves, loc.i)]
         IN /\ Sound(inodes, superblock, c)
            /\ \A x \in 0 .. DataSectors - 1 : x < superblock.next_free => c[x] = disk_data[x]
            /\ \A j \in 0 .. loc.i : c[superblock.next_free + j] = Sector(saves, j)
<1> DEFINE f == superblock.next_free
           i == loc.i
           a == f + i
           c == [disk_data EXCEPT ![a] = Sector(saves, i)]
<1>1. /\ a \in 0 .. DataSectors - 1 /\ f \in 0 .. DataSectors /\ i \in Nat /\ disk_data \in Data
      /\ superblock \in Super /\ inodes \in Table /\ superblock.next_session \in Nat
  BY DataTypes, Typed DEF FsInv
<1>2. \A j \in 0 .. i - 1 : disk_data[f + j] = Sector(saves, j)
  BY DEF FsInv, SaveInv
<1>3. c[a] = Sector(saves, i) /\ \A x \in 0 .. DataSectors - 1 : x # a => c[x] = disk_data[x]
  <2> HIDE DEF a, i
  <2> QED
    BY ONLY <1>1 DEF Data
<1>4. a = f + i
  OBVIOUS
<1> HIDE DEF f, i, a, c
<1>5. \A x \in 0 .. DataSectors - 1 : x < f => c[x] = disk_data[x]
  <2>1. ASSUME NEW x \in 0 .. DataSectors - 1, x < f
        PROVE  x # a
    BY ONLY <1>1, <1>4, <2>1, Geometry
  <2> QED
    BY <1>3, <2>1
<1>6. ASSUME NEW j \in 0 .. i
      PROVE  c[f + j] = Sector(saves, j)
  <2>1. CASE j = i
    BY <1>3, <1>4, <2>1
  <2>2. CASE j # i
    <3>1. f + j \in 0 .. DataSectors - 1 /\ f + j # a /\ j \in 0 .. i - 1
      BY ONLY <1>1, <1>4, <1>6, <2>2, Geometry
    <3> QED
      BY <1>2, <1>3, <3>1
  <2> QED
    BY <2>1, <2>2
<1>7. Sound(inodes, superblock, c)
  <2>1. Sound(inodes, superblock, disk_data)
    BY DEF FsInv, MemoryInv, Mounted
  <2>2. superblock.next_free <= superblock.next_free /\ superblock.next_session <= superblock.next_session
    BY <1>1, Geometry DEF f
  <2>3. \A x \in 0 .. DataSectors - 1 : x < superblock.next_free => c[x] = disk_data[x]
    BY <1>5 DEF f
  <2> QED
    BY <1>1, <2>1, <2>2, <2>3, Grow
<1> QED
  BY <1>5, <1>6, <1>7 DEF c, a, i, f

LEMMA SaveDataKeeps ==
  ASSUME FsInv, TypeInv', SaveData
  PROVE  FsInv'
<1> DEFINE f == superblock.next_free
           i == loc.i
           k == loc.k
           n == SectorsFor(loc.n)
           w == loc.i + 1
<1>1. /\ disk_data' = [disk_data EXCEPT ![f + i] = Sector(saves, i)] /\ pc = "data"
      /\ UNCHANGED <<disk_super, disk_inodes, saves, stored>>
  BY DEF SaveData, histVars
<1>2. /\ Sound(inodes, superblock, disk_data')
      /\ \A x \in 0 .. DataSectors - 1 : x < f => disk_data'[x] = disk_data[x]
      /\ \A j \in 0 .. i : disk_data'[f + j] = Sector(saves, j)
  BY <1>1, SectorSaved
<1>3. /\ disk_super.magic /\ superblock.magic /\ disk_super = superblock
      /\ Within(disk_inodes, inodes) /\ Kept(stored, disk_inodes) /\ ~loc.again
      /\ ~disk_inodes[k].used /\ Sound(inodes, superblock, disk_data)
      /\ inodes[k] = [FreeInode EXCEPT !.used = TRUE]
  BY <1>1 DEF FsInv, MemoryInv, Mounted, DiskInv, FormatInv, Formatting, SaveInv
<1>4. /\ loc \in Locals /\ i \in Nat /\ k \in Index /\ w \in Nat /\ n \in Nat /\ w = i + 1 /\ i < n
      /\ f \in 0 .. DataSectors /\ inodes \in Table /\ superblock \in Super
  BY <1>1, Typed, DataTypes, Geometry DEF FsInv, TypeInv, Locals
<1>5. CASE w < n
  <2>1. loc' = [loc EXCEPT !.i = w] /\ UNCHANGED <<superblock, inodes, pc>>
    BY <1>5 DEF SaveData, memVars
  <2>2. loc'.i = w /\ loc'.k = k /\ ~loc'.again
    <3>1. ~loc.again
      BY <1>3
    <3> HIDE DEF w
    <3> QED
      BY <1>4, <2>1, <3>1 DEF Locals
  <2>3. DiskInv'
    BY <1>1, <1>3, <2>1 DEF DiskInv
  <2>4. FormatInv'
    BY <1>1, <2>1, <2>2 DEF FormatInv, Formatting
  <2>5. MemoryInv'
    BY <1>1, <1>2, <1>3, <2>1 DEF MemoryInv, Mounted
  <2>6. SaveInv'
    <3>1. \A j \in 0 .. w - 1 : disk_data'[f + j] = Sector(saves, j)
      <4> HIDE DEF i, w, f
      <4>1. w - 1 = i
        BY <1>4
      <4> QED
        BY <1>2, <4>1
    <3> QED
      BY <1>1, <1>3, <2>1, <2>2, <3>1 DEF SaveInv
  <2> QED
    BY <2>3, <2>4, <2>5, <2>6 DEF FsInv
<1>6. CASE ~(w < n)
  <2> DEFINE r == SuperAfter(SectorsFor(loc.n))
             s == superblock.next_session
  <2>1. /\ inodes' = [inodes EXCEPT ![k] = NewInode]
        /\ superblock' = r /\ loc' = [loc EXCEPT !.i = 0] /\ pc' = "inodes"
    BY <1>6 DEF SaveData, NewInode
  <2>2. /\ NewInode \in Inode /\ r \in Super /\ r.next_free = f + n /\ r.next_session = s + 1
        /\ r.magic /\ s \in Nat
    BY <1>1, <1>3, FilledIn, DataTypes DEF FsInv
  <2>3. /\ NewInode.used /\ NewInode.type = "trace" /\ NewInode.hash = saves
        /\ NewInode.start = f /\ NewInode.count = n /\ NewInode.session = s
    BY DEF NewInode
  <2>4. loc'.i = 0 /\ loc'.k = k /\ ~loc'.again
    BY <1>3, <1>4, <2>1 DEF Locals
  <2>5. Sound([inodes EXCEPT ![k] = NewInode], r, disk_data')
    <3>1. s <= s + 1 /\ s < s + 1
      BY <2>2
    <3>2. \A x \in f .. f + n - 1 : disk_data'[x] = Sector(saves, x - f)
      <4> HIDE DEF f, i, n, w, r, s
      <4>1. ASSUME NEW x \in f .. f + n - 1
            PROVE  x - f \in 0 .. i /\ x = f + (x - f)
        BY ONLY <1>4, <1>6, <4>1, Geometry
      <4> QED
        BY <1>2, <4>1
    <3>3. /\ NewInode.start = superblock.next_free
          /\ r.next_free = superblock.next_free + NewInode.count
          /\ superblock.next_session <= r.next_session
          /\ NewInode.session = superblock.next_session
          /\ superblock.next_session < r.next_session
      BY <2>2, <2>3, <3>1
    <3>4. \A x \in 0 .. DataSectors - 1 : x < superblock.next_free => disk_data'[x] = disk_data[x]
      BY <1>2
    <3>5. \A x \in NewInode.start .. NewInode.start + NewInode.count - 1 :
            disk_data'[x] = Sector(NewInode.hash, x - NewInode.start)
      BY <2>3, <3>2
    <3> HIDE DEF r, k
    <3> QED
      BY <1>3, <1>4, <2>2, <3>3, <3>4, <3>5, AddFile
  <2>6. inodes'[k] = NewInode /\ Within(disk_inodes, inodes')
    BY <1>3, <1>4, <2>1 DEF Within, Table
  <2>7. DiskInv'
    BY <1>1, <1>3, <2>1 DEF DiskInv
  <2>8. FormatInv'
    BY <2>1, <2>4 DEF FormatInv, Formatting
  <2>9. Flushed(disk_inodes', inodes', loc'.i)
    <3>1. disk_inodes' \in Table /\ inodes' \in Table /\ 0 \in Nat
      BY DEF TypeInv, TypeOK, Table
    <3> QED
      BY <2>4, <3>1, FlushStep
  <2>10. MemoryInv'
    BY <1>1, <1>3, <2>1, <2>2, <2>5, <2>6, <2>9 DEF MemoryInv
  <2>11. SaveInv'
    BY <1>1, <2>1, <2>3, <2>4, <2>6 DEF SaveInv
  <2> QED
    BY <2>7, <2>8, <2>10, <2>11 DEF FsInv
<1> QED
  BY <1>5, <1>6

LEMMA SaveSuperKeeps ==
  ASSUME FsInv, TypeInv', SaveSuper
  PROVE  FsInv'
<1>1. /\ disk_super' = superblock /\ stored' = stored \cup {saves} /\ pc' = "idle" /\ loc' = NoLocals
      /\ UNCHANGED <<disk_inodes, disk_data, superblock, inodes>> /\ pc = "super"
  BY DEF SaveSuper, memVars
<1>2. /\ superblock.magic /\ Sound(inodes, superblock, disk_data) /\ disk_inodes = inodes
      /\ Kept(stored, disk_inodes)
      /\ inodes[loc.k].used /\ inodes[loc.k].type = "trace" /\ inodes[loc.k].hash = saves
  BY <1>1 DEF FsInv, MemoryInv, Mounted, DiskInv, SaveInv
<1>3. loc.k \in Index
  BY Typed DEF FsInv, Locals
<1>4. Kept(stored', disk_inodes')
  BY <1>1, <1>2, <1>3 DEF Kept
<1>5. DiskInv'
  BY <1>1, <1>2, <1>4 DEF DiskInv
<1>6. FormatInv'
  BY <1>1, Values DEF FormatInv, Formatting
<1>7. MemoryInv'
  BY <1>1, <1>2, WithinSelf DEF MemoryInv
<1> QED
  BY <1>1, <1>5, <1>6, <1>7 DEF FsInv, SaveInv

LEMMA SaveErrorKeeps ==
  ASSUME Harmless, FsInv, TypeInv', SaveError
  PROVE  FsInv'
<1> DEFINE k == loc.k
           b == [inodes[k] EXCEPT !.used = FALSE]
<1>1. pc = "data"
  BY DEF SaveError, Harmless, SafeErrors
<1>2. /\ pc' = "idle" /\ loc' = NoLocals
      /\ UNCHANGED <<disk_super, disk_inodes, superblock, stored>>
      /\ inodes' = [inodes EXCEPT ![k] = b]
      /\ \/ disk_data' = disk_data
         \/ disk_data' = [disk_data EXCEPT ![superblock.next_free + loc.i] = Sector(saves, loc.i)]
  BY <1>1 DEF SaveError, histVars
<1>3. /\ disk_super.magic /\ superblock.magic /\ disk_super = superblock
      /\ Within(disk_inodes, inodes) /\ Kept(stored, disk_inodes)
      /\ ~disk_inodes[k].used /\ Sound(inodes, superblock, disk_data)
  BY <1>1 DEF FsInv, MemoryInv, Mounted, DiskInv, SaveInv
<1>4. Sound(inodes, superblock, disk_data')
  BY <1>1, <1>2, <1>3, SectorSaved
<1>5. k \in Index /\ inodes \in Table /\ ~b.used
  BY Typed DEF FsInv, Locals, Table, Inode
<1> HIDE DEF b, k
<1>6. inodes'[k] = b /\ \A i \in Index : i # k => inodes'[i] = inodes[i]
  BY <1>2, <1>5 DEF Table
<1>7. Within(inodes', inodes) /\ Within(disk_inodes, inodes')
  BY <1>3, <1>5, <1>6 DEF Within
<1>8. Sound(inodes', superblock, disk_data')
  BY <1>4, <1>7, Below
<1>9. DiskInv'
  BY <1>2, <1>3 DEF DiskInv
<1>10. FormatInv'
  BY <1>2, Values DEF FormatInv, Formatting
<1>11. MemoryInv'
  BY <1>2, <1>3, <1>7, <1>8 DEF MemoryInv
<1> QED
  BY <1>2, <1>9, <1>10, <1>11 DEF FsInv, SaveInv

LEMMA CrashKeeps ==
  ASSUME Harmless, FsInv, TypeInv', Crash
  PROVE  FsInv'
<1>1. /\ pc' = "load" /\ loc' = NoLocals
      /\ UNCHANGED <<disk_super, disk_inodes, disk_data, stored>>
      /\ ~loc.again /\ pc \in SafeCrashes
  BY DEF Crash, diskVars, Harmless, SafeCrashes, Place
<1>2. Sound(disk_inodes, disk_super, disk_data)
  <2>1. CASE pc \in {"load", "offline", "seed"}
    BY <2>1 DEF FsInv, DiskInv
  <2>2. CASE pc \in Formatting
    BY <1>1, <2>2, EmptySound DEF FsInv, FormatInv
  <2>3. CASE pc \in {"idle", "data"}
    <3>1. /\ Sound(inodes, superblock, disk_data) /\ Within(disk_inodes, inodes)
          /\ disk_super = superblock
      BY <2>3 DEF FsInv, MemoryInv, Mounted, DiskInv
    <3> QED
      BY <3>1, Below
  <2> QED
    BY <1>1, <2>1, <2>2, <2>3 DEF SafeCrashes, Formatting
<1>3. DiskInv'
  BY <1>1, <1>2 DEF FsInv, DiskInv
<1>4. FormatInv'
  BY <1>1, Values DEF FormatInv, Formatting
<1> QED
  BY <1>1, <1>3, <1>4 DEF FsInv, MemoryInv, Mounted, SaveInv

LEMMA FsInit == Init => FsInv
<1> SUFFICES ASSUME Init
             PROVE  FsInv
  OBVIOUS
<1>1. /\ disk_inodes = NoInodes /\ pc = "load" /\ loc = NoLocals /\ stored = {}
  BY DEF Init
<1>2. DiskInv
  BY <1>1, Values, EmptySound DEF DiskInv, Kept
<1>3. FormatInv
  BY <1>1, Values DEF FormatInv, Formatting
<1> QED
  BY <1>1, <1>2, <1>3, InitTypes DEF FsInv, MemoryInv, Mounted, SaveInv

LEMMA FsInductive ==
  ASSUME Harmless, FsInv, [Next]_vars
  PROVE  FsInv'
<1>1. TypeInv'
  BY StepTypes DEF FsInv
<1>2. CASE Boot
  BY <1>1, <1>2, LoadKeeps, FmtSuperKeeps, SeedKeeps, SeedDoneKeeps, BootEndKeeps DEF Boot
<1>3. CASE Saving
  BY <1>1, <1>3, SaveKeeps, SaveDataKeeps, SaveSuperKeeps DEF Saving
<1>4. CASE DiskError
  BY <1>1, <1>4, LoadErrorKeeps, NoDriveKeeps, FormatErrorKeeps, SeedKeeps, BootEndKeeps, SaveErrorKeeps
     DEF DiskError
<1>5. CASE UNCHANGED vars
  <2>1. UNCHANGED <<disk_super, disk_inodes, disk_data, superblock, inodes, pc, loc, saves, stored, boots>>
    BY <1>5 DEF vars, diskVars, memVars, histVars
  <2>2. DiskInv' /\ FormatInv' /\ MemoryInv' /\ SaveInv'
    BY <2>1 DEF FsInv, DiskInv, FormatInv, MemoryInv, SaveInv
  <2> QED
    BY <1>1, <2>2 DEF FsInv
<1> QED
  BY <1>1, <1>2, <1>3, <1>4, <1>5, FlushKeeps, CrashKeeps DEF Next

LEMMA FsInvImplies == FsInv => MetadataConsistent /\ FilesReadBack /\ SessionsPersist
<1> SUFFICES ASSUME FsInv
             PROVE  MetadataConsistent /\ FilesReadBack /\ SessionsPersist
  OBVIOUS
<1>1. TypeOK
  BY DEF FsInv, TypeInv
<1>2. CASE pc = "idle"
  <2>1. /\ Sound(inodes, superblock, disk_data) /\ Within(disk_inodes, inodes)
        /\ Kept(stored, disk_inodes)
    BY <1>2 DEF FsInv, MemoryInv, Mounted, DiskInv
  <2>2. MetadataConsistent
    BY <1>1, <2>1 DEF MetadataConsistent, Sound, Whole, Apart, Files, Extent
  <2>3. FilesReadBack
    BY <2>1 DEF FilesReadBack, Sound, Whole, Files, Extent
  <2>4. SessionsPersist
    BY <2>1 DEF SessionsPersist, Kept, Within, Files
  <2> QED
    BY <2>2, <2>3, <2>4
<1>3. CASE pc # "idle"
  BY <1>1, <1>3 DEF MetadataConsistent, FilesReadBack, SessionsPersist
<1> QED
  BY <1>2, <1>3

LEMMA FsCorrect == Harmless => (Spec => []FsInv)
<1> SUFFICES ASSUME Harmless
             PROVE  Spec => []FsInv
  OBVIOUS
<1>1. FsInv /\ [Next]_vars => FsInv'
  BY FsInductive
<1> QED
  BY <1>1, FsInit, PTL DEF Spec

\* Whatever is saved, however often power is lost outside the flushes of
\* the tables and whatever error the disk reports outside them, the
\* metadata that fs_init finds or makes is consistent.
THEOREM MetadataHolds ==
  CrashAt \subseteq SafeCrashes /\ FailAt \subseteq SafeErrors => (Spec => []MetadataConsistent)
<1> SUFFICES ASSUME Harmless
             PROVE  Spec => []MetadataConsistent
  BY DEF Harmless
<1> QED
  BY FsCorrect, FsInvImplies, PTL

\* With the same crashes and errors, fs_read finds in every file what was
\* written to it.
THEOREM ContentsHold ==
  CrashAt \subseteq SafeCrashes /\ FailAt \subseteq SafeErrors => (Spec => []FilesReadBack)
<1> SUFFICES ASSUME Harmless
             PROVE  Spec => []FilesReadBack
  BY DEF Harmless
<1> QED
  BY FsCorrect, FsInvImplies, PTL

\* With the same crashes and errors, a session that fs_write_trace_session
\* reported as saved is found by every later boot.
THEOREM SessionsSurvive ==
  CrashAt \subseteq SafeCrashes /\ FailAt \subseteq SafeErrors => (Spec => []SessionsPersist)
<1> SUFFICES ASSUME Harmless
             PROVE  Spec => []SessionsPersist
  BY DEF Harmless
<1> QED
  BY FsCorrect, FsInvImplies, PTL

-----------------------------------------------------------------------------
(* The descriptors of Vfs.                                                  *)

FdRecord == [used : BOOLEAN, flags : AllFlags, pos : 0 .. Scratch, node : Nodes \cup {NoNode}]

\* Descriptor d, from which s has been read: a free one is as vfs_close left
\* it, an open one has a node that can be rendered.
FdSound(d, s) ==
  /\ d \in FdRecord /\ IsSeq(s) /\ Len(s) <= d.pos
  /\ ~d.used => d = FreeFd /\ s = <<>>
  /\ d.used => d.node \in Nodes /\ d.node.type \notin {"invalid", "long"}

FdInv ==
  /\ FdsAccounted
  /\ \A f \in Fd : FdSound(fd_table[f], got[f])
  /\ \A f \in stale : fd_table[f].used

-----------------------------------------------------------------------------
(* What the filesystem must keep so that texts stay as they are.            *)

\* Used inodes come before free ones.
Packed(t) == \A i, j \in Index : i < j /\ t[j].used => t[i].used

\* A session has the sectors its size calls for.
Sized(t) == \A i \in Index : Listed(t[i], "trace") => t[i].count = SectorsFor(t[i].size)

Saves == {"idle", "data", "inodes", "super"}

TableInv ==
  /\ Sized(inodes) /\ Sized(disk_inodes)
  /\ ~loc.again => Packed(disk_inodes)
  /\ pc \in Mounted => Packed(inodes)
  /\ pc = "seed" => loc.i = 0
  /\ pc = "bootinodes" => Flushed(disk_inodes, inodes, loc.i)
  /\ pc = "data" => \A j \in Index : j > loc.k => ~inodes[j].used

\* What was read from a descriptor at pos is the beginning of its text.
Begun(d, s, text) ==
  \/ d.pos = 0 /\ s = <<>>
  \/ text # Failed /\ d.pos <= Len(text) /\ s = SubSeq(text, 1, d.pos)

ReadInv ==
  /\ pc \notin Saves \cup {"offline"} => \A f \in Fd : ~fd_table[f].used
  /\ \A f \in Fd \ stale : fd_table[f].used =>
       Begun(fd_table[f], got[f], Text(fd_table[f].node, TRUE))

VfsInv == FdInv /\ FsInv /\ TableInv /\ ReadInv

-----------------------------------------------------------------------------
(* The texts.                                                               *)

LEMMA MinPair ==
  ASSUME NEW a \in Int, NEW b \in Int
  PROVE  Min({a, b}) = IF a <= b THEN a ELSE b
<1>1. \E x \in {a, b} : \A y \in {a, b} : x <= y
  OBVIOUS
<1>2. Min({a, b}) \in {a, b} /\ \A y \in {a, b} : Min({a, b}) <= y
  BY <1>1 DEF Min
<1> QED
  BY <1>2

\* The gathering of inodes, step by step.
LEMMA GatherSteps ==
  ASSUME NEW t \in Table, NEW type
  PROVE  \E f \in [0 .. MaxInodes -> Seq(Inode)] :
           /\ f[0] = <<>>
           /\ \A i \in 1 .. MaxInodes : f[i] = Gather(f[i - 1], t[i - 1], type)
           /\ Gathered(t, type) = f[MaxInodes]
<1> DEFINE k == MaxInodes
           D == Seq(Inode)
           h == [p \in D \X (1 .. k) |-> Gather(p[1], t[p[2] - 1], type)]
           Body(f) == [i \in 0 .. k |-> IF i = 0 THEN <<>> ELSE Gather(f[i - 1], t[i - 1], type)]
           g == CHOOSE f : f = Body(f)
<1>1. k \in Nat /\ <<>> \in D /\ \A i \in 1 .. k : t[i - 1] \in Inode
  BY Geometry DEF Table, Index
<1>2. h \in [D \X (1 .. k) -> D]
  <2>1. ASSUME NEW p \in D \X (1 .. k)
        PROVE  Gather(p[1], t[p[2] - 1], type) \in D
    <3>1. p[1] \in D /\ t[p[2] - 1] \in Inode
      BY <1>1
    <3> QED
      BY <3>1 DEF Gather
  <2> QED
    BY <2>1
<1>3. PICK f \in [0 .. k -> D] : f[0] = <<>> /\ \A i \in 1 .. k : f[i] = h[<<f[i - 1], i>>]
  <2> HIDE DEF k, h, D
  <2>1. \E f : IsRecursion(f, k, D, <<>>, h)
    BY <1>1, <1>2, RecursionExists DEF Steps
  <2> QED
    BY <2>1 DEF IsRecursion
<1>4. \A i \in 1 .. k : f[i] = Gather(f[i - 1], t[i - 1], type)
  <2> TAKE i \in 1 .. k
  <2>1. f[i - 1] \in D
    BY <1>1, <1>3
  <2> HIDE DEF D
  <2> QED
    BY <1>3, <2>1
<1> HIDE DEF D
<1>5. f = Body(f)
  <2> HIDE DEF k
  <2>1. \A i \in 0 .. k : f[i] = IF i = 0 THEN <<>> ELSE Gather(f[i - 1], t[i - 1], type)
    BY <1>1, <1>3, <1>4
  <2> QED
    BY <1>3, <2>1
<1>6. g = Body(g)
  <2> HIDE DEF Body
  <2> QED
    BY <1>5
<1>7. \A i \in 0 .. k : g[i] = f[i]
  <2> HIDE DEF g, k
  <2> DEFINE T == {i \in 0 .. k : g[i] = f[i]}
  <2>1. 0 \in T
    <3>1. 0 \in 0 .. k
      BY <1>1
    <3>2. g[0] = Body(g)[0]
      BY <1>6
    <3>3. Body(g)[0] = <<>>
      BY <3>1
    <3> QED
      BY <1>3, <3>1, <3>2, <3>3
  <2>2. ASSUME NEW n \in 0 .. k - 1, n \in T
        PROVE  n + 1 \in T
    <3>1. n + 1 \in 1 .. k /\ n + 1 \in 0 .. k /\ (n + 1) - 1 = n /\ n + 1 # 0
      BY <1>1
    <3>2. g[n + 1] = Body(g)[n + 1]
      BY <1>6
    <3>3. Body(g)[n + 1] = Gather(g[n], t[n], type)
      BY <3>1
    <3>4. f[n + 1] = Gather(f[n], t[n], type)
      BY <1>4, <3>1
    <3> QED
      BY <2>2, <3>1, <3>2, <3>3, <3>4
  <2> HIDE DEF T
  <2>3. 0 .. k \subseteq T
    BY <1>1, <2>1, <2>2, SetInduction
  <2> QED
    BY <2>3 DEF T
<1>8. Gathered(t, type) = g[k]
  BY DEF Gathered
<1>9. Gathered(t, type) = f[k]
  BY <1>1, <1>7, <1>8
<1> HIDE DEF g, h, Body
<1> QED
  BY <1>3, <1>4, <1>9 DEF D

LEMMA GatheredType ==
  ASSUME NEW t \in Table, NEW type
  PROVE  Gathered(t, type) \in Seq(Inode) /\ Len(Gathered(t, type)) \in Nat
<1>1. PICK f \in [0 .. MaxInodes -> Seq(Inode)] : Gathered(t, type) = f[MaxInodes]
  BY GatherSteps
<1>2. Gathered(t, type) \in Seq(Inode)
  BY <1>1, Geometry
<1> QED
  BY <1>2, LenProperties

LEMMA SessionFound ==
  ASSUME inodes \in Table, NEW id, Sessions(id) # {}
  PROVE  /\ Min(Sessions(id)) \in Sessions(id) /\ SessionInode(id) \in Inode
         /\ SessionInode(id).size \in Nat
<1>1. Sessions(id) \subseteq Nat
  BY Geometry DEF Sessions, Index
<1>2. \E x \in Sessions(id) : \A y \in Sessions(id) : x <= y
  BY <1>1, LeastNatural
<1>3. Min(Sessions(id)) \in Sessions(id)
  BY <1>2 DEF Min
<1>4. SessionInode(id) \in Inode
  BY <1>3 DEF Sessions, SessionInode, Table
<1> QED
  BY <1>3, <1>4 DEF Inode

LEMMA RenderedIs ==
  ASSUME NEW s, IsSeq(s), Scratch \in Nat
  PROVE  /\ IsSeq(Rendered(s)) /\ Len(Rendered(s)) <= Scratch /\ Len(Rendered(s)) \in Nat
         /\ Rendered(s) = SubSeq(s, 1, IF Len(s) <= Scratch THEN Len(s) ELSE Scratch)
         /\ Len(Rendered(s)) = IF Len(s) <= Scratch THEN Len(s) ELSE Scratch
<1> DEFINE n == IF Len(s) <= Scratch THEN Len(s) ELSE Scratch
<1>1. Len(s) \in Nat
  BY AnySeq DEF IsSeq
<1>2. Rendered(s) = SubSeq(s, 0 + 1, 0 + n)
  BY <1>1, MinPair DEF Rendered
<1>3. n \in Nat /\ 0 + n <= Len(s) /\ n <= Scratch
  BY <1>1
<1> HIDE DEF n
<1>4. IsSeq(SubSeq(s, 0 + 1, 0 + n)) /\ Len(SubSeq(s, 0 + 1, 0 + n)) = n
  BY <1>1, <1>3, CutSeq
<1>5. 0 + 1 = 1 /\ 0 + n = n
  BY <1>3
<1> QED
  BY <1>2, <1>3, <1>4, <1>5 DEF n

LEMMA Buffers ==
  /\ MaxFds \in Nat \ {0} /\ Chunk \in Nat \ {0} /\ IndexMax \in Nat /\ MaxChanges \in Nat
  /\ Scratch \in Nat /\ Scratch >= 4
  /\ Nodes \subseteq [type : NodeTypes, id : Nat] /\ Flags \subseteq AllFlags /\ ReadFails \in BOOLEAN
  BY VfsAssumption

\* The lines of render_trace_index and of builtin_exec_render_path.
IndexLines(x, n) == << <<"index", 0>> >> \o [i \in 1 .. n |-> <<"line", x[i].session>>]
BinLines(x) == << <<"bin", 0>> >> \o [i \in 1 .. Len(x) |-> <<"line", x[i].hash>>]
Fewer(x) == IF Len(x) <= IndexMax THEN Len(x) ELSE IndexMax

LEMMA IndexIs ==
  ASSUME NEW t \in Table
  PROVE  LET x == Gathered(t, "trace")
         IN /\ Min({Len(x), IndexMax}) = Fewer(x) /\ Fewer(x) \in Nat /\ Fewer(x) <= Len(x)
            /\ IsSeq(IndexLines(x, Fewer(x))) /\ Len(IndexLines(x, Fewer(x))) = Fewer(x) + 1
<1> DEFINE x == Gathered(t, "trace")
           n == Fewer(x)
           s == [i \in 1 .. n |-> <<"line", x[i].session>>]
<1>1. x \in Seq(Inode) /\ Len(x) \in Nat
  BY GatheredType
<1>2. n \in Nat /\ n <= Len(x) /\ Min({Len(x), IndexMax}) = n
  BY <1>1, Buffers, MinPair DEF Fewer
<1> HIDE DEF x, n
<1>3. IsSeq(s) /\ Len(s) = n
  <2>1. s = [i \in 1 .. n |-> s[i]]
    OBVIOUS
  <2> HIDE DEF s
  <2> QED
    BY <1>2, <2>1, FunctionIsSeq
<1>4. IsSeq(IndexLines(x, n)) /\ Len(IndexLines(x, n)) = n + 1
  <2> HIDE DEF s
  <2>1. IsSeq(<< <<"index", 0>> >> \o s) /\ Len(<< <<"index", 0>> >> \o s) = 1 + n
    BY <1>3, ShortSeqs, JoinSeq
  <2> QED
    BY <1>2, <2>1 DEF s, IndexLines
<1> QED
  BY <1>2, <1>4 DEF x, n

LEMMA BinIs ==
  ASSUME inodes \in Table
  PROVE  IsSeq(BinText) /\ Len(BinText) <= Scratch /\ Len(BinText) \in Nat
<1> DEFINE x == Gathered(inodes, "exec")
           n == Len(x)
           s == [i \in 1 .. n |-> <<"line", x[i].hash>>]
           b == IF x = <<>> THEN << <<"builtin", 0>> >> ELSE << <<"bin", 0>> >> \o s
<1>1. x \in Seq(Inode) /\ n \in Nat
  BY GatheredType
<1>2. BinText = Rendered(b)
  BY DEF BinText
<1> HIDE DEF x, n
<1>3. IsSeq(s) /\ Len(s) = n
  <2>1. s = [i \in 1 .. n |-> s[i]]
    OBVIOUS
  <2> HIDE DEF s
  <2> QED
    BY <1>1, <2>1, FunctionIsSeq
<1> HIDE DEF s
<1>4. IsSeq(b)
  BY <1>3, ShortSeqs, JoinSeq
<1> QED
  BY <1>2, <1>4, Buffers, RenderedIs

LEMMA FileIs ==
  ASSUME NEW x, x.size \in Nat
  PROVE  /\ IsSeq(FileText(x)) /\ Len(FileText(x)) = x.size
         /\ FileText(x) = [u \in 1 .. x.size |-> FileText(x)[u]]
<1>1. FileText(x) = [u \in 1 .. x.size |-> FileText(x)[u]]
  BY DEF FileText
<1> QED
  BY <1>1, FunctionIsSeq

LEMMA LiveIs ==
  ASSUME live \in Nat
  PROVE  IsSeq(LiveText) /\ Len(LiveText) <= 4 /\ Len(LiveText) \in Nat
<1> DEFINE n == 3 + (live % 2)
<1>1. n \in Nat /\ n <= 4
  BY ModRange
<1>2. LiveText = [u \in 1 .. n |-> LiveText[u]]
  BY DEF LiveText
<1> HIDE DEF n
<1> QED
  BY <1>1, <1>2, FunctionIsSeq

\* What vfs_read renders fits into the scratch buffer.
LEMMA TextFits ==
  ASSUME inodes \in Table, live \in Nat, NEW node \in Nodes, node.type \notin {"invalid", "long"},
         NEW ok, Text(node, ok) # Failed
  PROVE  IsSeq(Text(node, ok)) /\ Len(Text(node, ok)) \in Nat /\ Len(Text(node, ok)) <= Scratch
<1>1. node.type \in {"session", "meta", "index", "bin", "program", "live", "tx"}
  BY Buffers DEF NodeTypes
<1>2. CASE node.type = "session"
  <2>1. Text(node, ok) = SessionText(node.id, ok)
    BY <1>2 DEF Text
  <2>2. /\ Sessions(node.id) # {} /\ SessionInode(node.id).size <= Scratch
        /\ Text(node, ok) = FileText(SessionInode(node.id))
    BY <2>1, SessionFound, Buffers DEF SessionText
  <2> QED
    BY <2>2, SessionFound, FileIs
<1>3. CASE node.type = "meta"
  <2>1. Text(node, ok) = MetaText(node.id)
    BY <1>3 DEF Text
  <2> QED
    BY <2>1, ShortSeqs, Buffers DEF MetaText
<1>4. CASE node.type = "index"
  <2> DEFINE x == Gathered(inodes, "trace")
  <2>1. Text(node, ok) = IndexText
    BY <1>4 DEF Text
  <2>2. IndexText = Rendered(IndexLines(x, Fewer(x)))
    BY IndexIs DEF IndexText, IndexLines
  <2>3. IsSeq(IndexLines(x, Fewer(x)))
    BY IndexIs
  <2> HIDE DEF x
  <2> QED
    BY <2>1, <2>2, <2>3, RenderedIs, Buffers
<1>5. CASE node.type = "bin"
  <2>1. Text(node, ok) = BinText
    BY <1>5 DEF Text
  <2> QED
    BY <2>1, BinIs
<1>6. CASE node.type = "program"
  <2>1. Text(node, ok) = ProgramText(node.id, ok)
    BY <1>6 DEF Text
  <2> QED
    BY <2>1, ShortSeqs, Buffers DEF ProgramText
<1>7. CASE node.type = "live"
  <2>1. Text(node, ok) = LiveText
    BY <1>7 DEF Text
  <2> QED
    BY <2>1, LiveIs, Buffers
<1>8. CASE node.type = "tx"
  <2>1. Text(node, ok) = << <<"tx", 0>> >>
    BY <1>8 DEF Text
  <2> QED
    BY <2>1, ShortSeqs, Buffers
<1> QED
  BY <1>1, <1>2, <1>3, <1>4, <1>5, <1>6, <1>7, <1>8

-----------------------------------------------------------------------------
(* The table of descriptors, wherever power is lost and the disk fails.     *)

\* The parts of FdInv, one by one.
LEMMA FdParts ==
  ASSUME FdInv
  PROVE  /\ fd_table \in [Fd -> FdRecord] /\ DOMAIN got = Fd
         /\ cat \in Fd \cup {NoFd} /\ cat \notin held /\ live \in 0 .. MaxChanges /\ live \in Nat
         /\ stale \subseteq Fd /\ held \subseteq Fd
         /\ {f \in Fd : fd_table[f].used} = held \cup ({cat} \ {NoFd})
         /\ \A f \in Fd : FdSound(fd_table[f], got[f])
         /\ \A f \in stale : fd_table[f].used
         /\ NoFd \notin Fd
<1>1. NoFd \notin Fd
  BY Buffers DEF NoFd, Fd
<1>2. fd_table \in [Fd -> FdRecord]
  BY DEF FdInv, FdsAccounted, VfsTypeOK, FdRecord
<1>3. live \in 0 .. MaxChanges
  BY DEF FdInv, FdsAccounted, VfsTypeOK
<1>4. live \in Nat
  BY <1>3, Buffers
<1> QED
  BY <1>1, <1>2, <1>3, <1>4 DEF FdInv, FdsAccounted, VfsTypeOK

LEMMA FdWhole ==
  ASSUME fd_table' \in [Fd -> FdRecord], DOMAIN got' = Fd,
         cat' \in Fd \cup {NoFd}, cat' \notin held', live' \in 0 .. MaxChanges,
         stale' \subseteq Fd, held' \subseteq Fd,
         {f \in Fd : fd_table'[f].used} = held' \cup ({cat'} \ {NoFd}),
         \A f \in Fd : FdSound(fd_table'[f], got'[f]),
         \A f \in stale' : fd_table'[f].used
  PROVE  FdInv'
<1>1. \A f \in Fd : Len(got'[f]) <= fd_table'[f].pos
  BY DEF FdSound
<1>2. VfsTypeOK'
  BY <1>1 DEF VfsTypeOK, FdRecord
<1> QED
  BY <1>2 DEF FdInv, FdsAccounted

\* One entry of the table changes.
LEMMA OneFd ==
  ASSUME FdInv, NEW f \in Fd, NEW d, NEW s, FdSound(d, s),
         fd_table' = [fd_table EXCEPT ![f] = d], got' = [got EXCEPT ![f] = s]
  PROVE  /\ fd_table' \in [Fd -> FdRecord] /\ DOMAIN got' = Fd
         /\ fd_table'[f] = d /\ got'[f] = s
         /\ \A g \in Fd : g # f => fd_table'[g] = fd_table[g] /\ got'[g] = got[g]
         /\ \A g \in Fd : FdSound(fd_table'[g], got'[g])
<1>1. d \in FdRecord
  BY DEF FdSound
<1>2. /\ fd_table' \in [Fd -> FdRecord] /\ DOMAIN got' = Fd
      /\ fd_table'[f] = d /\ got'[f] = s
      /\ \A g \in Fd : g # f => fd_table'[g] = fd_table[g] /\ got'[g] = got[g]
  BY <1>1, FdParts
<1>3. ASSUME NEW g \in Fd
      PROVE  FdSound(fd_table'[g], got'[g])
  <2>1. CASE g = f
    BY <1>2, <2>1
  <2>2. CASE g # f
    <3>1. FdSound(fd_table[g], got[g])
      BY FdParts
    <3> QED
      BY <1>2, <2>2, <3>1
  <2> QED
    BY <2>1, <2>2
<1> QED
  BY <1>2, <1>3

\* An entry from which nothing was read.
LEMMA UnreadIsSound ==
  ASSUME NEW d \in FdRecord, d.pos = 0, ~d.used => d = FreeFd,
         d.used => d.node \in Nodes /\ d.node.type \notin {"invalid", "long"}
  PROVE  FdSound(d, <<>>)
  BY BlankSeq DEF FdSound

LEMMA FreeIsSound == FdSound(FreeFd, <<>>)
<1>1. FreeFd \in FdRecord /\ ~FreeFd.used /\ FreeFd.pos = 0
  BY Buffers DEF FreeFd, FdRecord, AllFlags
<1> QED
  BY <1>1, UnreadIsSound

\* vfs_open finds a free entry, which is as vfs_close leaves it.
LEMMA NewFdIs ==
  ASSUME FdInv, FreeFds # {}
  PROVE  NewFd \in Fd /\ ~fd_table[NewFd].used /\ fd_table[NewFd] = FreeFd /\ got[NewFd] = <<>>
<1>1. FreeFds \subseteq Nat
  BY Buffers DEF FreeFds, Fd
<1>2. \E x \in FreeFds : \A y \in FreeFds : x <= y
  BY <1>1, LeastNatural
<1>3. NewFd \in FreeFds
  BY <1>2 DEF Min, NewFd
<1>4. NewFd \in Fd /\ ~fd_table[NewFd].used
  BY <1>3 DEF FreeFds
<1> QED
  BY <1>4, FdParts DEF FdSound

\* The entry vfs_open makes.
LEMMA OpenedIs ==
  ASSUME NEW node \in Nodes, CanOpen(node), NEW flags \in AllFlags
  PROVE  LET d == [used |-> TRUE, flags |-> flags, pos |-> 0, node |-> node]
         IN FdSound(d, <<>>) /\ d.used /\ d.pos = 0 /\ d.node = node
<1> DEFINE d == [used |-> TRUE, flags |-> flags, pos |-> 0, node |-> node]
<1>1. d \in FdRecord /\ d.used /\ d.pos = 0 /\ d.node = node
  BY Buffers DEF FdRecord
<1>2. node.type \notin {"invalid", "long"}
  BY DEF CanOpen
<1> HIDE DEF d
<1>3. FdSound(d, <<>>)
  BY <1>1, <1>2, UnreadIsSound
<1> QED
  BY <1>1, <1>3 DEF d

\* Open and the opening of cat.
LEMMA OpenKeepsFds ==
  ASSUME FdInv, NEW node \in Nodes, CanOpen(node), NEW flags \in AllFlags, Prompt,
         fd_table' = vfs_open(node, flags), got' = [got EXCEPT ![NewFd] = <<>>],
         UNCHANGED <<live, stale>>,
         \/ held' = held \cup {NewFd} /\ cat' = cat
         \/ held' = held /\ cat' = NewFd
  PROVE  FdInv'
<1> DEFINE n == NewFd
           d == [used |-> TRUE, flags |-> flags, pos |-> 0, node |-> node]
<1>1. n \in Fd /\ ~fd_table[n].used
  BY NewFdIs DEF CanOpen
<1>2. FdSound(d, <<>>) /\ d.used
  BY OpenedIs
<1>3. fd_table' = [fd_table EXCEPT ![n] = d]
  BY DEF vfs_open
<1>4. cat = NoFd
  BY DEF Prompt
<1> HIDE DEF n, d
<1>5. /\ fd_table' \in [Fd -> FdRecord] /\ DOMAIN got' = Fd /\ fd_table'[n] = d
      /\ \A g \in Fd : g # n => fd_table'[g] = fd_table[g] /\ got'[g] = got[g]
      /\ \A g \in Fd : FdSound(fd_table'[g], got'[g])
  BY <1>1, <1>2, <1>3, OneFd DEF n
<1>6. {f \in Fd : fd_table'[f].used} = {f \in Fd : fd_table[f].used} \cup {n}
  BY <1>1, <1>2, <1>5
<1>7. {f \in Fd : fd_table[f].used} = held /\ NoFd \notin Fd /\ held \subseteq Fd /\ n \notin held
  BY <1>1, <1>4, FdParts
<1>8. /\ cat' \in Fd \cup {NoFd} /\ cat' \notin held' /\ held' \subseteq Fd
      /\ held \cup {n} = held' \cup ({cat'} \ {NoFd})
  BY <1>1, <1>4, <1>7 DEF n
<1>9. stale' \subseteq Fd /\ live' \in 0 .. MaxChanges /\ \A f \in stale' : fd_table'[f].used
  <2>1. stale' = stale /\ live' = live
    OBVIOUS
  <2> QED
    BY <1>2, <1>5, <2>1, FdParts
<1> QED
  BY <1>5, <1>6, <1>7, <1>8, <1>9, FdWhole

\* Close and the closing of cat.
LEMMA CloseKeepsFds ==
  ASSUME FdInv, NEW f \in Fd, fd_table' = vfs_close(fd_table, f), got' = [got EXCEPT ![f] = <<>>],
         stale' = stale \ {f}, UNCHANGED live,
         \/ held' = held \ {f} /\ cat' = cat /\ cat = NoFd
         \/ held' = held /\ cat' = NoFd /\ cat = f
  PROVE  FdInv'
<1>1. fd_table' = [fd_table EXCEPT ![f] = FreeFd] /\ ~FreeFd.used
  BY DEF vfs_close, FreeFd
<1>2. /\ fd_table' \in [Fd -> FdRecord] /\ DOMAIN got' = Fd /\ fd_table'[f] = FreeFd
      /\ \A g \in Fd : g # f => fd_table'[g] = fd_table[g] /\ got'[g] = got[g]
      /\ \A g \in Fd : FdSound(fd_table'[g], got'[g])
  BY <1>1, FreeIsSound, OneFd
<1>3. {g \in Fd : fd_table'[g].used} = {g \in Fd : fd_table[g].used} \ {f}
  BY <1>1, <1>2
<1>4. /\ cat' \in Fd \cup {NoFd} /\ cat' \notin held' /\ held' \subseteq Fd
      /\ (held \cup ({cat} \ {NoFd})) \ {f} = held' \cup ({cat'} \ {NoFd})
  BY FdParts
<1>5. stale' \subseteq Fd /\ live' \in 0 .. MaxChanges /\ \A g \in stale' : fd_table'[g].used
  BY <1>2, FdParts
<1> QED
  BY <1>2, <1>3, <1>4, <1>5, FdParts, FdWhole

\* vfs_read copies n units: what it does to the entry of its descriptor.
Reading(f, ok, n) ==
  LET text == Text(fd_table[f].node, ok)
      pos == fd_table[f].pos
      d == [fd_table[f] EXCEPT !.pos = pos + n]
      s == got[f] \o SubSeq(text, pos + 1, pos + n)
  IN /\ text # Failed /\ IsSeq(text) /\ Len(text) \in Nat /\ pos \in Nat
     /\ pos + n <= Len(text) /\ Len(text) <= Scratch
     /\ d.used /\ d.pos = pos + n /\ d.node = fd_table[f].node /\ FdSound(d, s)
     /\ fd_table' = [fd_table EXCEPT ![f] = d] /\ got' = [got EXCEPT ![f] = s]

LEMMA ReadIs ==
  ASSUME FdInv, inodes \in Table, NEW f \in Fd, fd_table[f].used, NEW ok, vfs_read(f, ok)
  PROVE  \E n \in Nat \ {0} : Reading(f, ok, n)
<1> DEFINE node == fd_table[f].node
           text == Text(node, ok)
           pos == fd_table[f].pos
           n == Piece(text, pos)
           d == [fd_table[f] EXCEPT !.pos = pos + n]
           piece == SubSeq(text, pos + 1, pos + n)
<1>1. FdSound(fd_table[f], got[f]) /\ live \in Nat /\ DOMAIN got = Fd /\ fd_table \in [Fd -> FdRecord]
  BY FdParts
<1>2. /\ node \in Nodes /\ node.type \notin {"invalid", "long"}
      /\ fd_table[f] \in FdRecord /\ pos \in Nat /\ IsSeq(got[f]) /\ Len(got[f]) <= pos
  BY <1>1, Buffers DEF FdSound, FdRecord
<1>3. text # Failed /\ pos < Len(text)
  BY DEF vfs_read
<1>4. IsSeq(text) /\ Len(text) \in Nat /\ Len(text) <= Scratch
  BY <1>1, <1>2, <1>3, TextFits
<1> HIDE DEF text, pos, node
<1>5. n \in Nat \ {0} /\ pos + n <= Len(text)
  BY <1>2, <1>3, <1>4, Buffers, MinPair DEF Piece
<1>6. /\ fd_table' = [fd_table EXCEPT ![f].pos = pos + n]
      /\ got' = [got EXCEPT ![f] = got[f] \o piece]
  BY <1>1 DEF vfs_read, Copied, text, pos, node
<1> HIDE DEF n
<1>7. fd_table' = [fd_table EXCEPT ![f] = d]
  BY <1>1, <1>6
<1>8. d \in FdRecord /\ d.used /\ d.pos = pos + n /\ d.node = fd_table[f].node
  <2>1. pos + n \in 0 .. Scratch
    BY <1>2, <1>4, <1>5, Buffers
  <2> QED
    BY <1>2, <2>1 DEF FdRecord
<1>9. IsSeq(piece) /\ Len(piece) = n
  BY <1>2, <1>4, <1>5, CutSeq
<1>10. IsSeq(got[f] \o piece) /\ Len(got[f] \o piece) <= pos + n
  <2> DEFINE l == got[f] \o piece
  <2>1. IsSeq(got[f] \o piece) /\ Len(got[f] \o piece) = Len(got[f]) + Len(piece)
    BY <1>2, <1>9, JoinSeq
  <2>2. Len(got[f]) \in Nat
    BY <1>2, AnySeq DEF IsSeq
  <2> HIDE DEF l, piece
  <2>3. IsSeq(l) /\ Len(l) = Len(got[f]) + n
    BY <1>9, <2>1 DEF l
  <2>4. Len(l) <= pos + n
    BY <1>2, <1>5, <2>2, <2>3
  <2> QED
    BY <2>3, <2>4 DEF l
<1> HIDE DEF d, piece
<1>11. FdSound(d, got[f] \o piece)
  BY <1>2, <1>8, <1>10 DEF FdSound, node
<1>12. Reading(f, ok, n)
  BY <1>2, <1>3, <1>4, <1>5, <1>6, <1>7, <1>8, <1>11 DEF Reading, d, piece, text, pos, node
<1> QED
  BY <1>5, <1>12

LEMMA ReadKeepsFds ==
  ASSUME FdInv, inodes \in Table, NEW f \in Fd, fd_table[f].used, NEW ok, vfs_read(f, ok),
         UNCHANGED <<cat, live, held>>
  PROVE  FdInv'
<1>1. PICK n \in Nat \ {0} : Reading(f, ok, n)
  BY ReadIs
<1>2. PICK d, s : /\ FdSound(d, s) /\ d.used
                  /\ fd_table' = [fd_table EXCEPT ![f] = d] /\ got' = [got EXCEPT ![f] = s]
  BY <1>1 DEF Reading
<1>3. /\ fd_table' \in [Fd -> FdRecord] /\ DOMAIN got' = Fd /\ fd_table'[f] = d
      /\ \A g \in Fd : g # f => fd_table'[g] = fd_table[g] /\ got'[g] = got[g]
      /\ \A g \in Fd : FdSound(fd_table'[g], got'[g])
  BY <1>2, OneFd
<1>4. {g \in Fd : fd_table'[g].used} = {g \in Fd : fd_table[g].used}
  BY <1>2, <1>3
<1>5. stale' = stale \/ stale' = stale \cup {f}
  BY DEF vfs_read
<1>6. stale' \subseteq Fd /\ \A g \in stale' : fd_table'[g].used
  BY <1>2, <1>3, <1>5, FdParts
<1>7. cat' = cat /\ live' = live /\ held' = held
  OBVIOUS
<1> QED
  BY <1>3, <1>4, <1>6, <1>7, FdParts, FdWhole

\* Nothing but live nodes changes, or nothing at all.
LEMMA LiveKeepsFds ==
  ASSUME FdInv, UNCHANGED <<fd_table, cat, got, held>>, LiveChange \/ UNCHANGED <<live, stale>>
  PROVE  FdInv'
<1>1. fd_table' = fd_table /\ cat' = cat /\ got' = got /\ held' = held
  OBVIOUS
<1>2. live' \in 0 .. MaxChanges
  BY FdParts, Buffers DEF LiveChange
<1>3. ASSUME NEW f \in stale', f \notin stale
      PROVE  f \in Fd /\ fd_table[f].used
  <2>1. f \in Fd /\ fd_table[f].node.type = "live"
    BY <1>3 DEF LiveChange
  <2> QED
    BY <2>1, FdParts DEF FdSound, FreeFd, NoNode
<1> QED
  BY <1>1, <1>2, <1>3, FdParts, FdWhole

LEMMA CommandKeepsFds ==
  ASSUME FdInv, inodes \in Table, Command
  PROVE  FdInv' /\ UNCHANGED vars
<1>1. ASSUME NEW node \in Nodes, NEW flags \in Flags, Open(node, flags)
      PROVE  FdInv' /\ UNCHANGED vars
  <2>1. flags \in AllFlags
    BY Buffers
  <2> QED
    BY <1>1, <2>1, OpenKeepsFds DEF Open
<1>2. ASSUME NEW node \in Nodes, Write(node)
      PROVE  FdInv' /\ UNCHANGED vars
  <2>1. NewFd \in Fd /\ fd_table[NewFd] = FreeFd
    BY <1>2, NewFdIs DEF Write, CanOpen
  <2>2. fd_table \in [Fd -> FdRecord]
    BY FdParts
  <2>3. fd_table' = [fd_table EXCEPT ![NewFd] = FreeFd]
    BY <1>2, <2>1, <2>2 DEF Write, AfterWrite, vfs_close, vfs_open
  <2>4. fd_table' = fd_table
    BY <2>1, <2>2, <2>3
  <2> QED
    BY <1>2, <2>4, LiveKeepsFds DEF Write
<1>3. ASSUME NEW node \in Nodes, CatOpen(node)
      PROVE  FdInv' /\ UNCHANGED vars
  <2>1. "r" \in AllFlags
    BY DEF AllFlags
  <2> QED
    BY <1>3, <2>1, OpenKeepsFds DEF CatOpen
<1>4. ASSUME NEW f \in Fd, NEW ok, ReadFd(f, ok)
      PROVE  FdInv' /\ UNCHANGED vars
  BY <1>4, ReadKeepsFds DEF ReadFd, Readable
<1>5. ASSUME NEW f \in Fd, WriteFd(f)
      PROVE  FdInv' /\ UNCHANGED vars
  BY <1>5, LiveKeepsFds DEF WriteFd
<1>6. ASSUME NEW f \in Fd, Close(f)
      PROVE  FdInv' /\ UNCHANGED vars
  BY <1>6, CloseKeepsFds DEF Close, Prompt
<1> QED
  BY <1>1, <1>2, <1>3, <1>4, <1>5, <1>6 DEF Command

LEMMA CatKeepsFds ==
  ASSUME FdInv, inodes \in Table, CatStep
  PROVE  FdInv' /\ UNCHANGED vars
<1>1. cat # NoFd
  BY DEF CatStep, CatRead, CatEnd, CatFail
<1>2. cat \in Fd /\ fd_table[cat].used
  BY <1>1, FdParts
<1>3. ASSUME NEW ok, CatRead(ok)
      PROVE  FdInv' /\ UNCHANGED vars
  BY <1>2, <1>3, ReadKeepsFds DEF CatRead
<1>4. ASSUME CatClose
      PROVE  FdInv' /\ UNCHANGED vars
  BY <1>2, <1>4, CloseKeepsFds DEF CatClose
<1> QED
  BY <1>3, <1>4 DEF CatStep, CatEnd, CatFail

LEMMA NoFdsKeep ==
  ASSUME fd_table' = [f \in Fd |-> FreeFd], cat' = NoFd, got' = [f \in Fd |-> <<>>],
         stale' = {}, held' = {}, live' \in 0 .. MaxChanges
  PROVE  FdInv'
<1>1. FreeFd \in FdRecord /\ ~FreeFd.used
  BY FreeIsSound DEF FdSound, FreeFd
<1>2. \A f \in Fd : FdSound(fd_table'[f], got'[f])
  BY FreeIsSound
<1>3. {f \in Fd : fd_table'[f].used} = {}
  BY <1>1
<1> QED
  BY <1>1, <1>2, <1>3, FdWhole

\* Every step of the descriptors leaves the filesystem alone or is one of its own.
LEMMA FdStep ==
  ASSUME FdInv, inodes \in Table, [VfsNext]_vfsVars
  PROVE  FdInv' /\ [Next]_vars
<1>1. CASE Command
  BY <1>1, CommandKeepsFds
<1>2. CASE CatStep
  BY <1>2, CatKeepsFds
<1>3. CASE Elsewhere
  BY <1>3, LiveKeepsFds DEF Elsewhere
<1>4. CASE FsStep
  BY <1>4, LiveKeepsFds DEF FsStep, fdVars, Next
<1>5. CASE Restart
  <2>1. Crash /\ NoFds /\ live' = live
    BY <1>5 DEF Restart
  <2>2. live' \in 0 .. MaxChanges
    BY <2>1, FdParts
  <2> QED
    BY <2>1, <2>2, NoFdsKeep DEF NoFds, Next
<1>6. CASE UNCHANGED vfsVars
  BY <1>6, LiveKeepsFds DEF vfsVars, fdVars
<1> QED
  BY <1>1, <1>2, <1>3, <1>4, <1>5, <1>6 DEF VfsNext

LEMMA FdInitially == VfsInit => FdInv /\ TypeInv
<1> SUFFICES ASSUME VfsInit
             PROVE  FdInv
  BY InitTypes DEF VfsInit
<1>1. \A f \in Fd : fd_table[f] = FreeFd /\ got[f] = <<>>
  BY DEF VfsInit
<1>2. \A f \in Fd : FdSound(fd_table[f], got[f])
  BY <1>1, FreeIsSound
<1>3. FreeFd \in FdRecord /\ ~FreeFd.used /\ FreeFd.pos = 0
  BY FreeIsSound DEF FdSound, FreeFd
<1>4. fd_table \in [Fd -> FdRecord] /\ DOMAIN got = Fd /\ cat = NoFd /\ live \in 0 .. MaxChanges
      /\ stale = {} /\ held = {}
  BY <1>3, Buffers DEF VfsInit
<1>5. \A f \in Fd : Len(got[f]) <= fd_table[f].pos
  BY <1>2 DEF FdSound
<1>6. VfsTypeOK
  BY <1>4, <1>5 DEF VfsTypeOK, FdRecord
<1> QED
  BY <1>1, <1>2, <1>3, <1>4, <1>6 DEF FdInv, FdsAccounted

\* For every size of the table, the scratch buffer and the reads, whatever the
\* user opens, reads, writes and closes in whatever order, however the commands
\* fail and wherever power is lost or the disk fails: the open descriptors are
\* those the user holds and that of the running cat, so none is leaked, and no
\* offset passes the scratch buffer.
THEOREM NoDescriptorLeaks == VfsSpec => []FdsAccounted
<1>1. FdInv /\ TypeInv /\ [VfsNext]_vfsVars => (FdInv /\ TypeInv)'
  BY FdStep, StepTypes, Typed
<1>2. FdInv => FdsAccounted
  BY DEF FdInv
<1> QED
  BY <1>1, <1>2, FdInitially, PTL DEF VfsSpec

-----------------------------------------------------------------------------
(* The order of the inodes in the table.                                    *)

LEMMA EmptyIsPacked ==
  ASSUME NEW t, Empty(t)
  PROVE  Packed(t) /\ Sized(t)
  BY DEF Empty, Packed, Sized, Listed

LEMMA DivMonotone ==
  ASSUME NEW i \in Index, NEW j \in Index, i < j
  PROVE  i \div PerSector <= j \div PerSector
<1> DEFINE p == PerSector
           a == i \div p
           b == j \div p
           r == i % p
           s == j % p
           x == b - a
<1>1. i \in Int /\ j \in Int /\ p \in Nat \ {0}
  BY Geometry DEF Index
<1> HIDE DEF p
<1>2. i = p * a + r /\ a \in Int /\ r \in 0 .. p - 1 /\ j = p * b + s /\ b \in Int /\ s \in 0 .. p - 1
  BY <1>1, DivMod, ModRange
<1> HIDE DEF a, b, r, s
<1>3. x \in Int /\ p * x = p * b - p * a /\ p * a \in Int /\ p * b \in Int
  BY <1>1, <1>2
<1>4. x <= -1 => p * x <= -p
  BY <1>1, <1>3, MulMonotone
<1> HIDE DEF x
<1>5. ~(x <= -1)
  BY <1>1, <1>2, <1>3, <1>4
<1> QED
  BY <1>2, <1>5 DEF x, a, b, p

\* A flush writes the table from its beginning on.
LEMMA FlushPacked ==
  ASSUME NEW t \in Table, NEW u \in Table, NEW n \in Nat, Packed(t), Packed(u), Within(t, u),
         Flushed(t, u, n)
  PROVE  Packed(WithSector(t, u, n))
<1> DEFINE w == WithSector(t, u, n)
<1>1. \A i \in Index : w[i] = IF i \div PerSector = n THEN u[i] ELSE t[i]
  BY TableType
<1>2. \A i \in Index : i \div PerSector \in Nat
  BY TableCovers
<1> HIDE DEF w
<1>3. \A i \in Index : i \div PerSector <= n => w[i] = u[i]
  BY <1>1, <1>2 DEF Flushed
<1>4. \A i \in Index : w[i].used => w[i] = u[i]
  BY <1>1 DEF Within
<1>5. ASSUME NEW i \in Index, NEW j \in Index, i < j, w[j].used
      PROVE  w[i].used
  <2>1. i \div PerSector <= j \div PerSector
    BY <1>5, DivMonotone
  <2>2. CASE i \div PerSector <= n
    <3>1. u[i].used
      BY <1>4, <1>5 DEF Packed
    <3> QED
      BY <1>3, <2>2, <3>1
  <2>3. CASE ~(i \div PerSector <= n)
    <3>1. w[i] = t[i] /\ w[j] = t[j]
      BY <1>1, <1>2, <2>1, <2>3
    <3> QED
      BY <1>5, <3>1 DEF Packed
  <2> QED
    BY <2>2, <2>3
<1> QED
  BY <1>5 DEF Packed, w

LEMMA SectorSized ==
  ASSUME NEW t \in Table, NEW u \in Table, NEW n, Sized(t), Sized(u)
  PROVE  Sized(WithSector(t, u, n))
  BY TableType DEF Sized

\* The last used inode, or the first free one, may become anything.
LEMMA LastChanges ==
  ASSUME NEW t \in Table, NEW k \in Index, \A i \in Index : i < k => t[i].used,
         \A j \in Index : k < j => ~t[j].used, NEW x
  PROVE  Packed([t EXCEPT ![k] = x])
<1> DEFINE u == [t EXCEPT ![k] = x]
<1>1. u[k] = x /\ \A i \in Index : i # k => u[i] = t[i]
  BY DEF Table
<1> HIDE DEF u
<1>2. ASSUME NEW i \in Index, NEW j \in Index, i < j, u[j].used
      PROVE  u[i].used
  <2>1. i \in Int /\ j \in Int /\ k \in Int
    BY Geometry DEF Index
  <2>2. i < k /\ i # k
    BY <1>1, <1>2, <2>1
  <2> QED
    BY <1>1, <2>2
<1> QED
  BY <1>2 DEF Packed, u

\* fs_alloc_inode takes the inode after the used ones.
LEMMA TakenInOrder ==
  ASSUME inodes \in Table, Packed(inodes), FreeInodes # {}
  PROVE  LET k == Min(FreeInodes)
         IN /\ k \in Index /\ ~inodes[k].used
            /\ \A j \in Index : k < j => ~inodes[j].used
            /\ \A i \in Index : i < k => inodes[i].used
            /\ \A x : Packed([inodes EXCEPT ![k] = x])
<1> DEFINE k == Min(FreeInodes)
<1>1. k \in Index /\ ~inodes[k].used
  BY FirstFree
<1>2. FreeInodes \subseteq Nat
  BY Geometry DEF FreeInodes, Index
<1>3. \E x \in FreeInodes : \A y \in FreeInodes : x <= y
  BY <1>2, LeastNatural
<1>4. \A y \in FreeInodes : k <= y
  BY <1>3 DEF Min
<1> HIDE DEF k
<1>5. \A j \in Index : k < j => ~inodes[j].used
  BY <1>1 DEF Packed
<1>6. ASSUME NEW i \in Index, i < k, ~inodes[i].used
      PROVE  FALSE
  <2>1. k <= i
    BY <1>4, <1>6 DEF FreeInodes
  <2> QED
    BY <1>1, <1>6, <2>1, Geometry DEF Index
<1> QED
  BY <1>1, <1>5, <1>6, LastChanges DEF k

\* An inode that is no session, or a session on the sectors it needs.
LEMMA OneSized ==
  ASSUME NEW t \in Table, NEW k \in Index, NEW x, Sized(t),
         Listed(x, "trace") => x.count = SectorsFor(x.size)
  PROVE  Sized([t EXCEPT ![k] = x])
  BY DEF Sized, Table

\* The boot up to the tables in memory, and power loss.
LEMMA BootTables ==
  ASSUME Harmless, FsInv, TableInv,
         Load \/ Reload \/ LoadError \/ NoDrive \/ FmtSuper \/ FormatError \/ Crash
  PROVE  TableInv'
<1>1. /\ disk_inodes \in Table /\ inodes \in Table /\ loc.i \in Nat
      /\ Sized(disk_inodes) /\ Sized(inodes) /\ (~loc.again => Packed(disk_inodes))
  BY Typed DEF FsInv, Locals, TableInv
<1>2. Packed(NoInodes) /\ Sized(NoInodes) /\ ~NoLocals.again /\ NoLocals.i = 0
  BY Values, EmptyIsPacked
<1>3. CASE Load \/ Reload
  <2>1. disk_inodes' = disk_inodes /\ inodes' = disk_inodes
    BY <1>3 DEF Load, Reload, diskVars
  <2>2. ~loc'.again /\ loc'.i = 0 /\ pc' \in {"seed", "fmtsuper"}
    BY <1>3, Values DEF Load, Reload, NoLocals
  <2>3. Packed(disk_inodes)
    <3>1. CASE Load
      BY <1>1, <3>1 DEF Load, FsInv, FormatInv, Formatting
    <3>2. CASE Reload
      BY <3>2, EmptyIsPacked DEF Reload, FsInv, FormatInv
    <3> QED
      BY <1>3, <3>1, <3>2
  <2> QED
    BY <1>1, <2>1, <2>2, <2>3 DEF TableInv
<1>4. CASE LoadError \/ NoDrive \/ FmtSuper
  <2>1. /\ disk_inodes' = disk_inodes /\ (inodes' = inodes \/ inodes' = NoInodes)
        /\ pc' \in {"fmtsuper", "offline", "fmtinodes"}
        /\ loc'.again \/ loc'.again = loc.again
    BY <1>4, Values DEF LoadError, NoDrive, FmtSuper, diskVars, memVars, NoLocals
  <2> QED
    BY <1>1, <1>2, <2>1 DEF TableInv, Mounted
<1>5. CASE FormatError
  <2>1. /\ pc' = "offline" /\ (inodes' = inodes \/ inodes' = NoInodes)
        /\ \/ disk_inodes' = disk_inodes
           \/ pc = "fmtinodes" /\ disk_inodes' = WithSector(disk_inodes, inodes, loc.i)
    BY <1>5 DEF FormatError
  <2>2. ~loc.again /\ pc \in Formatting
    BY <1>5 DEF FormatError, Harmless, Place, SafeErrors, Formatting
  <2>3. Empty(disk_inodes) /\ (pc = "fmtinodes" => Empty(inodes))
    BY <2>2 DEF FsInv, FormatInv
  <2>4. Empty(disk_inodes')
    BY <1>1, <2>1, <2>3, FlushStep
  <2>5. Packed(disk_inodes') /\ Sized(disk_inodes')
    BY <2>4, EmptyIsPacked
  <2> QED
    BY <1>1, <1>2, <2>1, <2>5 DEF TableInv, Mounted
<1>6. CASE Crash
  <2>1. /\ pc' = "load" /\ inodes' = NoInodes /\ disk_inodes' = disk_inodes
        /\ ~loc.again
    BY <1>6 DEF Crash, diskVars, Harmless, SafeCrashes, Place
  <2> QED
    BY <1>1, <1>2, <2>1 DEF TableInv, Mounted
<1> QED
  BY <1>3, <1>4, <1>5, <1>6

LEMMA SeedTables ==
  ASSUME FsInv, TableInv, SeedExec \/ SeedError \/ SeedDone
  PROVE  TableInv'
<1> DEFINE k == Min(FreeInodes)
           x == [used |-> TRUE, type |-> "exec", session |-> 0, start |-> superblock.next_free,
                 count |-> 1, size |-> 1, hash |-> -loc.e]
<1>1. /\ disk_inodes \in Table /\ inodes \in Table /\ loc \in Locals /\ loc.i = 0 /\ ~loc.again
      /\ Sized(disk_inodes) /\ Sized(inodes) /\ Packed(disk_inodes) /\ Packed(inodes) /\ pc = "seed"
  <2>1. pc = "seed"
    BY DEF SeedExec, SeedError, SeedDone
  <2> QED
    BY <2>1, Typed DEF FsInv, FormatInv, Formatting, TableInv, Mounted
<1>2. /\ disk_inodes' = disk_inodes
      /\ inodes' = inodes \/ (inodes' = [inodes EXCEPT ![k] = x] /\ FreeInodes # {})
      /\ pc' = "seed" \/ pc' = "bootinodes"
      /\ pc' = "bootinodes" => inodes' = inodes
      /\ loc' = loc \/ loc' = [loc EXCEPT !.e = @ - 1]
  BY <1>1 DEF SeedExec, SeedError, SeedDone, diskVars, memVars
<1>3. loc'.i = 0 /\ ~loc'.again
  BY <1>1, <1>2 DEF Locals
<1>4. ~Listed(x, "trace")
  BY DEF Listed
<1> HIDE DEF x, k
<1>5. Packed(inodes') /\ Sized(inodes')
  <2>1. CASE inodes' = inodes
    BY <1>1, <2>1
  <2>2. CASE inodes' = [inodes EXCEPT ![k] = x] /\ FreeInodes # {}
    <3>1. k \in Index /\ \A y : Packed([inodes EXCEPT ![k] = y])
      BY <1>1, <2>2, TakenInOrder DEF k
    <3> QED
      BY <1>1, <1>4, <2>2, <3>1, OneSized
  <2> QED
    BY <1>2, <2>1, <2>2
<1>6. pc' = "bootinodes" => Flushed(disk_inodes', inodes', loc'.i)
  BY <1>1, <1>2, <1>3, FlushStep
<1> QED
  BY <1>1, <1>2, <1>3, <1>5, <1>6 DEF TableInv

LEMMA FlushTables ==
  ASSUME Harmless, FsInv, TableInv, FlushInodes \/ BootSuper \/ BootError
  PROVE  TableInv'
<1> DEFINE w == loc.i + 1
<1>1. /\ disk_inodes \in Table /\ inodes \in Table /\ loc \in Locals /\ loc.i \in Nat /\ w \in Nat
      /\ Sized(disk_inodes) /\ Sized(inodes) /\ (~loc.again => Packed(disk_inodes))
  BY Typed DEF FsInv, Locals, TableInv
<1>2. /\ inodes' = inodes
      /\ \/ disk_inodes' = disk_inodes
         \/ /\ pc \in {"fmtinodes", "bootinodes", "inodes"}
            /\ disk_inodes' = WithSector(disk_inodes, inodes, loc.i)
  BY DEF FlushInodes, BootSuper, BootError, memVars
<1>3. Sized(disk_inodes')
  BY <1>1, <1>2, SectorSized
<1>4. /\ pc' \in {"fmtinodes", "reload", "bootinodes", "bootsuper", "inodes", "super", "idle"}
      /\ pc' \in Mounted => pc \in Mounted
      /\ loc'.again => loc.again
      /\ pc' = "bootinodes" =>
           /\ pc = "bootinodes" /\ loc'.i = w
           /\ disk_inodes' = WithSector(disk_inodes, inodes, loc.i)
  <2>1. CASE FlushInodes
    <3>1. /\ disk_inodes' = WithSector(disk_inodes, inodes, loc.i)
          /\ pc \in {"fmtinodes", "bootinodes", "inodes"}
          /\ \/ pc' = pc /\ loc' = [loc EXCEPT !.i = w]
             \/ pc' = AfterInodes /\ loc' = [loc EXCEPT !.i = 0]
      BY <2>1 DEF FlushInodes
    <3>2. loc'.again = loc.again /\ (loc'.i = w \/ pc' = AfterInodes)
      <4> HIDE DEF w
      <4> QED
        BY <1>1, <3>1 DEF Locals
    <3> HIDE DEF w
    <3> QED
      BY <3>1, <3>2 DEF AfterInodes, Mounted
  <2>2. CASE BootSuper \/ BootError
    BY <2>2, Values DEF BootSuper, BootError, Mounted
  <2> QED
    BY <2>1, <2>2
<1>5. pc \in Mounted => /\ Packed(inodes) /\ Packed(disk_inodes) /\ Within(disk_inodes, inodes) /\ ~loc.again
                        /\ pc \in {"bootinodes", "inodes"} => Flushed(disk_inodes, inodes, loc.i)
  BY DEF FsInv, MemoryInv, Mounted, FormatInv, Formatting, TableInv
<1>6. ~loc'.again => Packed(disk_inodes')
  <2>1. CASE disk_inodes' = disk_inodes /\ ~loc.again
    BY <1>1, <2>1
  <2>2. CASE pc \in {"bootinodes", "inodes"}
    <3>1. pc \in Mounted
      BY <2>2 DEF Mounted
    <3> QED
      BY <1>1, <1>2, <1>5, <2>2, <3>1, FlushPacked
  <2>3. CASE pc = "fmtinodes"
    <3>1. Empty(inodes) /\ (~loc.again => Empty(disk_inodes))
      BY <2>3 DEF FsInv, FormatInv, Formatting
    <3>2. ~loc.again => Empty(disk_inodes')
      BY <1>1, <1>2, <3>1, FlushStep
    <3>3. FlushInodes
      BY <2>3 DEF BootSuper, BootError
    <3>4. loc'.again = loc.again
      BY <1>1, <3>3 DEF FlushInodes, Locals
    <3> QED
      BY <3>2, <3>4, EmptyIsPacked
  <2>4. ~loc.again \/ pc = "fmtinodes"
    <3>1. pc \in {"fmtinodes", "bootinodes", "inodes", "bootsuper"}
      BY DEF FlushInodes, BootSuper, BootError
    <3> QED
      BY <3>1 DEF FsInv, FormatInv, Formatting
  <2> QED
    BY <1>2, <2>1, <2>2, <2>3, <2>4
<1>7. pc' = "bootinodes" => Flushed(disk_inodes', inodes', loc'.i)
  <2>1. pc = "bootinodes" => pc \in Mounted
    BY DEF Mounted
  <2> HIDE DEF w
  <2>2. pc' = "bootinodes" => Flushed(WithSector(disk_inodes, inodes, loc.i), inodes, loc.i + 1)
    BY <1>1, <1>4, <1>5, <2>1, FlushStep
  <2> QED
    BY <1>2, <1>4, <2>2 DEF w
<1> QED
  BY <1>1, <1>2, <1>3, <1>4, <1>5, <1>6, <1>7 DEF TableInv

\* A saving changes the inode it took, which is the last one used, and nothing
\* else that is listed; disk sectors it writes lie above every file.
LEMMA SaveIs ==
  ASSUME Harmless, FsInv, TableInv, Saving \/ SaveError
  PROVE  /\ UNCHANGED disk_inodes /\ ~loc'.again /\ pc \in Saves /\ pc' \in Saves
         /\ \A x \in 0 .. DataSectors - 1 : x < superblock.next_free => disk_data'[x] = disk_data[x]
         /\ \/ inodes' = inodes /\ loc'.k = loc.k /\ (pc' = "data" => pc = "data")
            \/ inodes' = inodes /\ pc' # "data"
            \/ \E k \in Index :
                 /\ \A i \in Index : i < k => inodes[i].used
                 /\ \A j \in Index : k < j => ~inodes[j].used
                 /\ ~Listed(inodes[k], "trace") /\ ~Listed(inodes[k], "exec")
                 /\ \E x \in Inode :
                      /\ inodes' = [inodes EXCEPT ![k] = x] /\ ~Listed(x, "exec")
                      /\ Listed(x, "trace") => x.session = superblock.next_session /\ x.count = SectorsFor(x.size)
                 /\ pc' = "data" => loc'.k = k
<1>1. /\ disk_inodes \in Table /\ inodes \in Table /\ loc \in Locals /\ loc.k \in Index
      /\ disk_data \in Data /\ superblock \in Super
  BY Typed DEF FsInv, Locals
<1>2. CASE \E n \in Sizes : Save(n)
  <2>1. PICK n \in Sizes : Save(n)
    BY <1>2
  <2>2. UNCHANGED <<disk_inodes, disk_data>> /\ pc = "idle"
    BY <2>1 DEF Save, diskVars
  <2>3. ~loc.again /\ Packed(inodes)
    BY <2>2 DEF FsInv, FormatInv, Formatting, TableInv, Mounted
  <2>4. CASE Fits(SectorsFor(n)) /\ FreeInodes # {}
    <3> DEFINE k == Min(FreeInodes)
               b == [FreeInode EXCEPT !.used = TRUE]
    <3>1. /\ inodes' = [inodes EXCEPT ![k] = b] /\ pc' = "data"
          /\ loc' = [NoLocals EXCEPT !.k = k, !.n = n]
      BY <2>1, <2>4 DEF Save
    <3>2. /\ k \in Index /\ ~inodes[k].used
          /\ \A j \in Index : k < j => ~inodes[j].used
          /\ \A i \in Index : i < k => inodes[i].used
      BY <1>1, <2>3, <2>4, TakenInOrder
    <3>3. loc'.k = k /\ ~loc'.again
      BY <3>1, Values DEF NoLocals
    <3>4. b \in Inode /\ b.type = "none"
      <4>1. FreeInode \in Inode
        BY Values
      <4>2. b.type = "none"
        BY DEF FreeInode
      <4> QED
        BY <4>1, <4>2 DEF Inode
    <3> HIDE DEF k, b
    <3>5. /\ ~Listed(inodes[k], "trace") /\ ~Listed(inodes[k], "exec")
          /\ ~Listed(b, "trace") /\ ~Listed(b, "exec")
      BY <3>2, <3>4 DEF Listed
    <3> QED
      BY <2>2, <3>1, <3>2, <3>3, <3>4, <3>5 DEF Saves
  <2>5. CASE ~(Fits(SectorsFor(n)) /\ FreeInodes # {})
    BY <2>1, <2>2, <2>3, <2>5 DEF Save, Saves
  <2> QED
    BY <2>4, <2>5
<1>3. CASE SaveSuper
  BY <1>3, Values DEF SaveSuper, memVars, Saves
<1>4. ASSUME pc = "data"
      PROVE  /\ \A i \in Index : i < loc.k => inodes[i].used
             /\ \A j \in Index : loc.k < j => ~inodes[j].used
             /\ ~Listed(inodes[loc.k], "trace") /\ ~Listed(inodes[loc.k], "exec")
             /\ ~loc.again
             /\ LET c == [disk_data EXCEPT ![superblock.next_free + loc.i] = Sector(saves, loc.i)]
                IN \A x \in 0 .. DataSectors - 1 : x < superblock.next_free => c[x] = disk_data[x]
  <2>1. /\ inodes[loc.k] = [FreeInode EXCEPT !.used = TRUE] /\ Packed(inodes) /\ ~loc.again
        /\ \A j \in Index : j > loc.k => ~inodes[j].used
    BY <1>4 DEF FsInv, SaveInv, FormatInv, Formatting, TableInv, Mounted
  <2>2. inodes[loc.k].used /\ inodes[loc.k].type = "none"
    BY <2>1 DEF FreeInode
  <2>3. \A j \in Index : loc.k < j => ~inodes[j].used
    BY <1>1, <2>1, Geometry DEF Index
  <2>4. \A i \in Index : i < loc.k => inodes[i].used
    BY <1>1, <2>1, <2>2 DEF Packed
  <2>5. LET c == [disk_data EXCEPT ![superblock.next_free + loc.i] = Sector(saves, loc.i)]
        IN \A x \in 0 .. DataSectors - 1 : x < superblock.next_free => c[x] = disk_data[x]
    BY <1>4, SectorSaved
  <2> QED
    BY <2>1, <2>2, <2>3, <2>4, <2>5 DEF Listed
<1>5. CASE SaveData
  <2>1. /\ pc = "data" /\ disk_inodes' = disk_inodes
        /\ disk_data' = [disk_data EXCEPT ![superblock.next_free + loc.i] = Sector(saves, loc.i)]
    BY <1>5 DEF SaveData
  <2>2. \/ pc' = "data" /\ loc' = [loc EXCEPT !.i = loc.i + 1] /\ inodes' = inodes
        \/ /\ pc' = "inodes" /\ loc' = [loc EXCEPT !.i = 0]
           /\ inodes' = [inodes EXCEPT ![loc.k] = NewInode]
    BY <1>5, <2>1 DEF SaveData, memVars, NewInode
  <2>3. loc'.again = loc.again /\ loc'.k = loc.k
    <3> DEFINE w == loc.i + 1
    <3>1. loc' = [loc EXCEPT !.i = w] \/ loc' = [loc EXCEPT !.i = 0]
      BY <2>2
    <3> HIDE DEF w
    <3> QED
      BY <1>1, <3>1 DEF Locals
  <2>4. /\ NewInode \in Inode /\ NewInode.type = "trace" /\ NewInode.session = superblock.next_session
        /\ NewInode.count = SectorsFor(NewInode.size)
    BY <2>1, FilledIn DEF NewInode, FsInv
  <2>5. ~Listed(NewInode, "exec")
    BY <2>4 DEF Listed
  <2> QED
    BY <1>1, <1>4, <2>1, <2>2, <2>3, <2>4, <2>5 DEF Saves
<1>6. CASE SaveError
  <2> DEFINE b == [inodes[loc.k] EXCEPT !.used = FALSE]
  <2>1. pc = "data"
    BY <1>6 DEF SaveError, Harmless, SafeErrors
  <2>2. /\ pc' = "idle" /\ loc' = NoLocals /\ disk_inodes' = disk_inodes
        /\ inodes' = [inodes EXCEPT ![loc.k] = b]
        /\ \/ disk_data' = disk_data
           \/ disk_data' = [disk_data EXCEPT ![superblock.next_free + loc.i] = Sector(saves, loc.i)]
    BY <1>6, <2>1 DEF SaveError
  <2>3. b \in Inode /\ ~b.used
    <3>1. inodes[loc.k] \in Inode
      BY <1>1 DEF Table
    <3> QED
      BY <3>1 DEF Inode
  <2>4. ~Listed(b, "exec") /\ ~Listed(b, "trace")
    BY <2>3 DEF Listed
  <2> HIDE DEF b
  <2>5. ~loc'.again
    BY <2>2, Values
  <2>6. \A x \in 0 .. DataSectors - 1 : x < superblock.next_free => disk_data'[x] = disk_data[x]
    BY <1>4, <2>1, <2>2
  <2>7. \E k \in Index :
          /\ \A i \in Index : i < k => inodes[i].used
          /\ \A j \in Index : k < j => ~inodes[j].used
          /\ ~Listed(inodes[k], "trace") /\ ~Listed(inodes[k], "exec")
          /\ \E x \in Inode :
               /\ inodes' = [inodes EXCEPT ![k] = x] /\ ~Listed(x, "exec")
               /\ Listed(x, "trace") => x.session = superblock.next_session /\ x.count = SectorsFor(x.size)
          /\ pc' = "data" => loc'.k = k
    BY <1>1, <1>4, <2>1, <2>2, <2>3, <2>4
  <2> QED
    BY <2>1, <2>2, <2>5, <2>6, <2>7 DEF Saves
<1> QED
  BY <1>2, <1>3, <1>5, <1>6 DEF Saving

LEMMA SaveTables ==
  ASSUME Harmless, FsInv, TableInv, Saving \/ SaveError
  PROVE  TableInv'
<1>1. /\ disk_inodes \in Table /\ inodes \in Table /\ pc \in Mounted /\ Packed(inodes)
      /\ Sized(inodes) /\ Sized(disk_inodes) /\ Packed(disk_inodes)
      /\ disk_inodes' = disk_inodes /\ ~loc'.again /\ pc' \in Saves
  <2>1. pc \in Saves
    BY SaveIs
  <2>2. pc \in Mounted /\ ~loc.again
    BY <2>1 DEF Saves, Mounted, FsInv, FormatInv, Formatting
  <2> QED
    BY <2>2, SaveIs, Typed DEF FsInv, TableInv
<1>2. CASE inodes' = inodes /\ loc'.k = loc.k /\ (pc' = "data" => pc = "data")
  BY <1>1, <1>2 DEF TableInv, Saves
<1>3. CASE inodes' = inodes /\ pc' # "data"
  BY <1>1, <1>3 DEF TableInv, Saves
<1>4. ASSUME NEW k \in Index, NEW x \in Inode,
             \A i \in Index : i < k => inodes[i].used,
             \A j \in Index : k < j => ~inodes[j].used,
             inodes' = [inodes EXCEPT ![k] = x],
             Listed(x, "trace") => x.count = SectorsFor(x.size),
             pc' = "data" => loc'.k = k
      PROVE  TableInv'
  <2>1. Packed(inodes')
    BY <1>1, <1>4, LastChanges
  <2>2. Sized(inodes')
    BY <1>1, <1>4, OneSized
  <2>3. pc' = "data" => \A j \in Index : j > loc'.k => ~inodes'[j].used
    <3>1. ASSUME NEW j \in Index, j > k
          PROVE  ~inodes'[j].used
      <4>1. k < j /\ j # k
        BY <3>1, Geometry DEF Index
      <4> QED
        BY <1>1, <1>4, <4>1 DEF Table
    <3> QED
      BY <1>4, <3>1
  <2> QED
    BY <1>1, <2>1, <2>2, <2>3 DEF TableInv, Saves
<1> QED
  BY <1>2, <1>3, <1>4, SaveIs

LEMMA TableStep ==
  ASSUME Harmless, FsInv, TableInv, [Next]_vars
  PROVE  TableInv'
<1>1. CASE UNCHANGED vars
  BY <1>1 DEF TableInv, vars, diskVars, memVars, histVars
<1>2. CASE Next
  BY <1>2, BootTables, SeedTables, FlushTables, SaveTables DEF Next, Boot, DiskError
<1> QED
  BY <1>1, <1>2

LEMMA TablesInitially == Init => TableInv
<1> SUFFICES ASSUME Init
             PROVE  TableInv
  OBVIOUS
<1>1. inodes = NoInodes /\ disk_inodes = NoInodes /\ pc = "load"
  BY DEF Init
<1> QED
  BY <1>1, Values, EmptyIsPacked DEF TableInv, Mounted

-----------------------------------------------------------------------------
(* A text that was read in part does not change where it was read.          *)

\* Text b is a, or goes on after it.
Continues(a, b) == b = a \/ (Extends(a, b) /\ Len(a) >= 1 /\ IsSeq(a) /\ IsSeq(b))

\* The unit a session's text ends with lies in its last sector.
LEMMA UnitSector ==
  ASSUME NEW n \in Nat, NEW u \in 1 .. n
  PROVE  /\ (u - 1) \div SectorUnits \in Nat
         /\ (u - 1) \div SectorUnits < SectorsFor(n)
<1> DEFINE p == SectorUnits
           a == u - 1
           b == n + p - 1
           q == a \div p
           c == b \div p
           r == a % p
           s == b % p
           x == q - c
<1>1. p \in Nat \ {0} /\ a \in Nat /\ b \in Nat /\ a = u - 1 /\ b = n + p - 1 /\ n # 0
  BY Geometry
<1>2. SectorsFor(n) = c
  BY <1>1 DEF SectorsFor
<1> HIDE DEF p, a, b
<1>3. a = p * q + r /\ q \in Int /\ r \in 0 .. p - 1 /\ b = p * c + s /\ c \in Int /\ s \in 0 .. p - 1
  <2>1. a \in Int /\ b \in Int
    BY <1>1
  <2>2. a = p * q + r /\ q \in Int /\ r \in 0 .. p - 1
    BY <1>1, <2>1, DivMod, ModRange
  <2>3. b = p * c + s /\ c \in Int /\ s \in 0 .. p - 1
    BY <1>1, <2>1, DivMod, ModRange
  <2> QED
    BY <2>2, <2>3
<1> HIDE DEF q, c, r, s
<1>4. x \in Int /\ p * x = p * q - p * c /\ p * q \in Int /\ p * c \in Int
  BY <1>1, <1>3
<1>5. p * x <= -1
  BY <1>1, <1>3, <1>4
<1>6. (x >= 1 => p * x >= p) /\ (x = 0 => p * x = 0)
  BY <1>1, <1>4, MulMonotone
<1> HIDE DEF x
<1>7. x < 0
  BY <1>1, <1>4, <1>5, <1>6
<1>8. q <= -1 => p * q <= -p
  BY <1>1, <1>3, MulMonotone
<1>9. q \in Nat
  BY <1>1, <1>3, <1>4, <1>8
<1> QED
  BY <1>2, <1>3, <1>7, <1>9 DEF x, q, a, p

\* A session's text does not depend on sectors above the files.
LEMMA FileSame ==
  ASSUME NEW x \in Inode, x.count = SectorsFor(x.size), superblock \in Super,
         x.start + x.count <= superblock.next_free,
         \A y \in 0 .. DataSectors - 1 : y < superblock.next_free => disk_data'[y] = disk_data[y]
  PROVE  \A u \in 1 .. x.size :
           disk_data'[x.start + (u - 1) \div SectorUnits] = disk_data[x.start + (u - 1) \div SectorUnits]
<1> TAKE u \in 1 .. x.size
<1> DEFINE q == (u - 1) \div SectorUnits
           f == superblock.next_free
<1>1. x.size \in Nat /\ x.start \in Nat /\ x.count \in Nat /\ f \in Nat /\ f <= DataSectors
  BY Geometry DEF Inode, Super
<1>2. q \in Nat /\ q < x.count
  BY <1>1, UnitSector
<1> HIDE DEF q, f
<1>3. x.start + q \in 0 .. DataSectors - 1 /\ x.start + q < f
  BY <1>1, <1>2, Geometry DEF f
<1> QED
  BY <1>3 DEF q, f

\* The table's listing when an inode above all that are used changes.
LEMMA GatheredGrows ==
  ASSUME NEW t \in Table, NEW u \in Table, NEW type, NEW k \in Index, ~Listed(t[k], type),
         \A i \in Index : i # k => u[i] = t[i], \A j \in Index : k < j => ~t[j].used
  PROVE  Gathered(u, type) = Gather(Gathered(t, type), u[k], type)
<1> DEFINE m == MaxInodes
<1>1. PICK f \in [0 .. m -> Seq(Inode)] :
        /\ f[0] = <<>>
        /\ \A i \in 1 .. m : f[i] = Gather(f[i - 1], t[i - 1], type)
        /\ Gathered(t, type) = f[m]
  BY GatherSteps
<1>2. PICK g \in [0 .. m -> Seq(Inode)] :
        /\ g[0] = <<>>
        /\ \A i \in 1 .. m : g[i] = Gather(g[i - 1], u[i - 1], type)
        /\ Gathered(u, type) = g[m]
  BY GatherSteps
<1>3. m \in Nat \ {0} /\ Index = 0 .. m - 1 /\ k \in Int
  BY Geometry DEF Index
<1> HIDE DEF m
<1> DEFINE T == {i \in 0 .. m : g[i] = IF i <= k THEN f[i] ELSE Gather(f[i], u[k], type)}
<1>4. 0 \in T
  BY <1>1, <1>2, <1>3
<1>5. ASSUME NEW n \in 0 .. m - 1, n \in T
      PROVE  n + 1 \in T
  <2>1. n + 1 \in 1 .. m /\ n + 1 \in 0 .. m /\ (n + 1) - 1 = n /\ n \in Index
    BY <1>3
  <2>2. f[n + 1] = Gather(f[n], t[n], type) /\ g[n + 1] = Gather(g[n], u[n], type)
    BY <1>1, <1>2, <2>1
  <2>3. CASE n < k
    <3>1. n <= k /\ n + 1 <= k /\ n # k
      BY <1>3, <2>3
    <3>2. g[n + 1] = f[n + 1]
      BY <1>5, <2>1, <2>2, <3>1
    <3> QED
      BY <2>1, <3>1, <3>2
  <2>4. CASE n = k
    <3>1. n <= k /\ ~(n + 1 <= k)
      BY <1>3, <2>4
    <3>2. f[n + 1] = f[n]
      BY <2>2, <2>4 DEF Gather
    <3>3. g[n + 1] = Gather(f[n + 1], u[k], type)
      BY <1>5, <2>2, <2>4, <3>1, <3>2
    <3> QED
      BY <2>1, <3>1, <3>3
  <2>5. CASE n > k
    <3>1. ~(n <= k) /\ ~(n + 1 <= k) /\ n # k /\ k < n
      BY <1>3, <2>5
    <3>2. ~Listed(t[n], type) /\ u[n] = t[n]
      BY <2>1, <3>1 DEF Listed
    <3>3. f[n + 1] = f[n] /\ g[n + 1] = g[n]
      BY <2>2, <3>2 DEF Gather
    <3>4. g[n + 1] = Gather(f[n + 1], u[k], type)
      BY <1>5, <3>1, <3>3
    <3> QED
      BY <2>1, <3>1, <3>4
  <2> QED
    BY <1>3, <2>3, <2>4, <2>5
<1> HIDE DEF T
<1>6. 0 .. m \subseteq T
  BY <1>3, <1>4, <1>5, SetInduction
<1>7. m \in T /\ ~(m <= k)
  BY <1>3, <1>6
<1>8. g[m] = Gather(f[m], u[k], type)
  BY <1>7 DEF T
<1> QED
  BY <1>1, <1>2, <1>8

LEMMA RenderedGrows ==
  ASSUME NEW s, NEW t, IsSeq(s), IsSeq(t), Extends(s, t)
  PROVE  Extends(Rendered(s), Rendered(t))
<1> DEFINE m == IF Len(s) <= Scratch THEN Len(s) ELSE Scratch
           n == IF Len(t) <= Scratch THEN Len(t) ELSE Scratch
           E == Elements(s)
           F == Elements(t)
<1>1. /\ Rendered(s) = SubSeq(s, 1, m) /\ Len(Rendered(s)) = m
      /\ Rendered(t) = SubSeq(t, 1, n) /\ Len(Rendered(t)) = n
  BY RenderedIs, Buffers
<1>2. s \in Seq(E) /\ Len(s) \in Nat /\ t \in Seq(F) /\ Len(t) \in Nat
  BY AnySeq DEF IsSeq
<1> HIDE DEF E, F
<1>3. Len(s) <= Len(t) /\ \A i \in 1 .. Len(s) : t[i] = s[i]
  BY DEF Extends
<1>4. m \in Nat /\ n \in Nat /\ m <= n /\ m <= Len(s) /\ n <= Len(t)
  BY <1>2, <1>3, Buffers
<1> HIDE DEF m, n
<1>5. SubSeq(s, 1, m) = [i \in 1 .. m |-> s[i]] /\ SubSeq(t, 1, n) = [i \in 1 .. n |-> t[i]]
  BY <1>2, <1>4
<1>6. ASSUME NEW i \in 1 .. m
      PROVE  Rendered(t)[i] = Rendered(s)[i]
  <2>1. i \in 1 .. n /\ i \in 1 .. Len(s)
    BY <1>2, <1>4
  <2>2. Rendered(t)[i] = t[i] /\ Rendered(s)[i] = s[i]
    BY <1>1, <1>5, <2>1
  <2>3. t[i] = s[i]
    BY <1>3, <2>1
  <2> QED
    BY <2>2, <2>3
<1> QED
  BY <1>1, <1>4, <1>6 DEF Extends

LEMMA LinesAt ==
  ASSUME NEW x, NEW n \in Nat
  PROVE  \A i \in 1 .. n + 1 :
           IndexLines(x, n)[i] = IF i = 1 THEN <<"index", 0>> ELSE <<"line", x[i - 1].session>>
<1> DEFINE s == [i \in 1 .. n |-> <<"line", x[i].session>>]
           h == << <<"index", 0>> >>
           E == Elements(h) \cup Elements(s)
<1>1. IsSeq(s) /\ Len(s) = n
  <2>1. s = [i \in 1 .. n |-> s[i]]
    OBVIOUS
  <2> HIDE DEF s
  <2> QED
    BY <2>1, FunctionIsSeq
<1>2. IsSeq(h) /\ Len(h) = 1 /\ h[1] = <<"index", 0>>
  BY ShortSeqs
<1>3. \A i \in 1 .. n : s[i] = <<"line", x[i].session>>
  OBVIOUS
<1>4. IndexLines(x, n) = h \o s
  BY DEF IndexLines
<1> HIDE DEF s, h
<1>5. h \in Seq(E) /\ s \in Seq(E)
  BY <1>1, <1>2, SeqMonotonic DEF IsSeq
<1> HIDE DEF E
<1>6. ASSUME NEW i \in 1 .. n + 1
      PROVE  (h \o s)[i] = IF i = 1 THEN <<"index", 0>> ELSE <<"line", x[i - 1].session>>
  <2>1. (h \o s)[i] = IF i <= Len(h) THEN h[i] ELSE s[i - Len(h)]
    <3>1. i \in 1 .. Len(h) + Len(s)
      BY <1>1, <1>2
    <3>2. \A j \in 1 .. Len(h) + Len(s) : (h \o s)[j] = IF j <= Len(h) THEN h[j] ELSE s[j - Len(h)]
      BY ONLY <1>5, ConcatProperties
    <3> QED
      BY <3>1, <3>2, Zenon
  <2>2. CASE i = 1
    BY <1>2, <2>1, <2>2
  <2>3. CASE i # 1
    <3>1. i - 1 \in 1 .. n /\ ~(i <= 1)
      BY <2>3
    <3> QED
      BY <1>2, <1>3, <2>1, <2>3, <3>1
  <2> QED
    BY <2>2, <2>3
<1> QED
  BY <1>4, <1>6

\* A session added to the listing is a line at the end of the index, unless
\* the buffer is full.
LEMMA IndexGrows ==
  ASSUME NEW t \in Table, NEW u \in Table, NEW y \in Inode,
         Gathered(u, "trace") = Gather(Gathered(t, "trace"), y, "trace")
  PROVE  LET x == Gathered(t, "trace")
             z == Gathered(u, "trace")
             a == Rendered(IndexLines(x, Fewer(x)))
             b == Rendered(IndexLines(z, Fewer(z)))
         IN Extends(a, b) /\ IsSeq(a) /\ IsSeq(b) /\ Len(a) >= 1
<1> DEFINE x == Gathered(t, "trace")
           z == Gathered(u, "trace")
           m == Fewer(x)
           n == Fewer(z)
<1>1. x \in Seq(Inode) /\ Len(x) \in Nat /\ z \in Seq(Inode) /\ Len(z) \in Nat
  BY GatheredType
<1>2. /\ IsSeq(IndexLines(x, m)) /\ Len(IndexLines(x, m)) = m + 1 /\ m \in Nat /\ m <= Len(x)
      /\ IsSeq(IndexLines(z, n)) /\ Len(IndexLines(z, n)) = n + 1 /\ n \in Nat /\ n <= Len(z)
  BY IndexIs
<1>3. z = x \/ z = Append(x, y)
  BY DEF Gather
<1> HIDE DEF x, z
<1>4. Len(x) <= Len(z) /\ \A i \in 1 .. Len(x) : z[i] = x[i]
  BY <1>1, <1>3
<1>5. m <= n
  BY <1>1, <1>4, Buffers DEF Fewer
<1> HIDE DEF m, n
<1>6. ASSUME NEW i \in 1 .. m + 1
      PROVE  IndexLines(z, n)[i] = IndexLines(x, m)[i]
  <2>1. i \in 1 .. n + 1
    BY <1>2, <1>5
  <2>2. i # 1 => i - 1 \in 1 .. Len(x)
    BY <1>1, <1>2
  <2>3. i # 1 => z[i - 1] = x[i - 1]
    BY <1>4, <2>2
  <2>4. IndexLines(z, n)[i] = IF i = 1 THEN <<"index", 0>> ELSE <<"line", z[i - 1].session>>
    BY <1>2, <2>1, LinesAt
  <2>5. IndexLines(x, m)[i] = IF i = 1 THEN <<"index", 0>> ELSE <<"line", x[i - 1].session>>
    BY <1>2, LinesAt
  <2> QED
    BY <2>3, <2>4, <2>5
<1>7. Extends(IndexLines(x, m), IndexLines(z, n))
  <2>1. m + 1 <= n + 1
    BY <1>2, <1>5
  <2> QED
    BY <1>2, <1>6, <2>1 DEF Extends
<1>8. Extends(Rendered(IndexLines(x, m)), Rendered(IndexLines(z, n)))
  BY <1>2, <1>7, RenderedGrows
<1>9. IsSeq(Rendered(IndexLines(x, m))) /\ IsSeq(Rendered(IndexLines(z, n)))
  BY <1>2, RenderedIs, Buffers
<1>10. Len(Rendered(IndexLines(x, m))) >= 1
  <2>1. Len(Rendered(IndexLines(x, m))) = IF m + 1 <= Scratch THEN m + 1 ELSE Scratch
    BY <1>2, RenderedIs, Buffers
  <2> QED
    BY <1>2, <2>1, Buffers
<1> QED
  BY <1>8, <1>9, <1>10 DEF x, z, m, n

\* While a session is being saved those listed stay, and the new one has a
\* number of its own.
LEMMA SaveLists ==
  ASSUME Harmless, FsInv, TableInv, Saving \/ SaveError
  PROVE  /\ inodes \in Table /\ inodes' \in Table /\ superblock \in Super
         /\ Sound(inodes, superblock, disk_data)
         /\ \A i \in Index : Listed(inodes[i], "trace") => inodes'[i] = inodes[i]
         /\ \A i \in Index : Listed(inodes'[i], "trace") =>
              inodes'[i] = inodes[i] \/ inodes'[i].session = superblock.next_session
         /\ \A i \in Index : Listed(inodes[i], "exec") \/ Listed(inodes'[i], "exec") =>
              inodes'[i] = inodes[i]
         /\ \E y \in Inode :
              Gathered(inodes', "trace") = Gather(Gathered(inodes, "trace"), y, "trace")
         /\ Gathered(inodes', "exec") = Gathered(inodes, "exec")
<1>1. inodes \in Table /\ superblock \in Super /\ Sound(inodes, superblock, disk_data)
  <2>1. pc \in Mounted
    BY SaveIs DEF Saves, Mounted
  <2> QED
    BY <2>1, Typed DEF FsInv, MemoryInv
<1>2. CASE inodes' = inodes
  <2>1. FreeInode \in Inode /\ ~Listed(FreeInode, "trace")
    BY Values DEF Listed
  <2>2. Gathered(inodes', "trace") = Gather(Gathered(inodes, "trace"), FreeInode, "trace")
    BY <1>2, <2>1 DEF Gather
  <2> QED
    BY <1>1, <1>2, <2>1, <2>2
<1>3. ASSUME NEW k \in Index, NEW x \in Inode,
             \A j \in Index : k < j => ~inodes[j].used,
             ~Listed(inodes[k], "trace"), ~Listed(inodes[k], "exec"),
             inodes' = [inodes EXCEPT ![k] = x], ~Listed(x, "exec"),
             Listed(x, "trace") => x.session = superblock.next_session
      PROVE  /\ inodes' \in Table
             /\ \A i \in Index : Listed(inodes[i], "trace") => inodes'[i] = inodes[i]
             /\ \A i \in Index : Listed(inodes'[i], "trace") =>
                  inodes'[i] = inodes[i] \/ inodes'[i].session = superblock.next_session
             /\ \A i \in Index : Listed(inodes[i], "exec") \/ Listed(inodes'[i], "exec") =>
                  inodes'[i] = inodes[i]
             /\ \E y \in Inode :
                  Gathered(inodes', "trace") = Gather(Gathered(inodes, "trace"), y, "trace")
             /\ Gathered(inodes', "exec") = Gathered(inodes, "exec")
  <2>1. inodes' \in Table /\ inodes'[k] = x /\ \A i \in Index : i # k => inodes'[i] = inodes[i]
    BY <1>1, <1>3 DEF Table
  <2>2. ASSUME NEW type, ~Listed(inodes[k], type)
        PROVE  Gathered(inodes', type) = Gather(Gathered(inodes, type), x, type)
    <3>1. PICK t \in Table, u \in Table : t = inodes /\ u = inodes'
      BY <1>1, <2>1
    <3>2. ~Listed(t[k], type) /\ u[k] = x
      BY <2>1, <2>2, <3>1
    <3>3. \A i \in Index : i # k => u[i] = t[i]
      BY <2>1, <3>1
    <3>4. \A j \in Index : k < j => ~t[j].used
      BY <1>3, <3>1
    <3>5. Gathered(u, type) = Gather(Gathered(t, type), u[k], type)
      BY <3>2, <3>3, <3>4, GatheredGrows
    <3> QED
      BY <3>1, <3>2, <3>5
  <2>3. /\ Gathered(inodes', "trace") = Gather(Gathered(inodes, "trace"), x, "trace")
        /\ Gathered(inodes', "exec") = Gather(Gathered(inodes, "exec"), x, "exec")
    BY <1>3, <2>2
  <2>4. Gathered(inodes', "exec") = Gathered(inodes, "exec")
    BY <1>3, <2>3 DEF Gather
  <2> QED
    BY <1>3, <2>1, <2>3, <2>4
<1> QED
  BY <1>1, <1>2, <1>3, SaveIs

LEMMA SessionSame ==
  ASSUME Harmless, FsInv, TableInv, Saving \/ SaveError, NEW id, Sessions(id) # {}
  PROVE  /\ Sessions(id)' = Sessions(id) /\ SessionInode(id)' = SessionInode(id)
         /\ FileText(SessionInode(id))' = FileText(SessionInode(id))
<1> DEFINE x == SessionInode(id)
           d == disk_data'
<1>1. /\ inodes \in Table /\ superblock \in Super /\ Sized(inodes)
      /\ \A i \in Index : Listed(inodes[i], "trace") => Whole(inodes[i], superblock, disk_data)
  BY SaveLists DEF Sound, Listed, TableInv
<1>2. superblock.next_session \in Nat
  BY <1>1 DEF Super
<1>3. ASSUME NEW i \in Index, Listed(inodes[i], "trace")
      PROVE  /\ inodes[i].session \in Nat /\ inodes[i].session < superblock.next_session
             /\ inodes[i].session # superblock.next_session
  <2>1. inodes[i] \in Inode /\ inodes[i].type = "trace"
    BY <1>1, <1>3 DEF Table, Listed
  <2>2. inodes[i].session \in Nat /\ inodes[i].session < superblock.next_session
    BY <1>1, <1>3, <2>1 DEF Inode, Whole
  <2> QED
    BY <1>2, <2>2
<1>4. id # superblock.next_session
  BY <1>3 DEF Sessions
<1>5. Sessions(id)' = {i \in Index : Listed(inodes'[i], "trace") /\ inodes'[i].session = id}
  BY DEF Sessions, Listed
<1>6. ASSUME NEW i \in Index
      PROVE  /\ Listed(inodes'[i], "trace") /\ inodes'[i].session = id
                  <=> Listed(inodes[i], "trace") /\ inodes[i].session = id
             /\ Listed(inodes[i], "trace") => inodes'[i] = inodes[i]
  BY <1>4, SaveLists
<1>7. Sessions(id)' = Sessions(id)
  BY <1>5, <1>6 DEF Sessions
<1>8. Min(Sessions(id)) \in Sessions(id) /\ x \in Inode
  BY <1>1, SessionFound
<1>9. SessionInode(id)' = inodes'[Min(Sessions(id))]
  BY <1>7 DEF SessionInode
<1>10. SessionInode(id)' = x
  BY <1>6, <1>8, <1>9 DEF SessionInode, Sessions
<1>11. x.count = SectorsFor(x.size) /\ x.start + x.count <= superblock.next_free
  BY <1>1, <1>8 DEF SessionInode, Sessions, Sized, Whole
<1>12. \A y \in 0 .. DataSectors - 1 : y < superblock.next_free => disk_data'[y] = disk_data[y]
  BY SaveIs
<1> HIDE DEF x
<1>13. \A u \in 1 .. x.size :
         disk_data'[x.start + (u - 1) \div SectorUnits] = disk_data[x.start + (u - 1) \div SectorUnits]
  BY <1>1, <1>8, <1>11, <1>12, FileSame
<1>14. FileText(SessionInode(id))' =
         [u \in 1 .. x.size |->
            LET s == disk_data'[x.start + (u - 1) \div SectorUnits]
            IN <<"file", s.file, s.part * SectorUnits + ((u - 1) % SectorUnits)>>]
  BY <1>10 DEF FileText
<1>15. FileText(x) =
         [u \in 1 .. x.size |->
            LET s == disk_data[x.start + (u - 1) \div SectorUnits]
            IN <<"file", s.file, s.part * SectorUnits + ((u - 1) % SectorUnits)>>]
  BY DEF FileText
<1>16. FileText(SessionInode(id))' = FileText(x)
  BY <1>13, <1>14, <1>15, Zenon
<1> QED
  BY <1>7, <1>10, <1>16 DEF x

\* Texts are computed from the tables, the sectors and the live nodes alone.
LEMMA TextStays ==
  ASSUME UNCHANGED <<inodes, disk_data, live>>, pc' = "offline" <=> pc = "offline", NEW node, NEW ok
  PROVE  Text(node, ok)' = Text(node, ok)
<1>1. /\ Sessions(node.id)' = Sessions(node.id) /\ SessionInode(node.id)' = SessionInode(node.id)
      /\ FileText(SessionInode(node.id))' = FileText(SessionInode(node.id))
      /\ HasExec(node.id)' = HasExec(node.id)
  BY DEF Sessions, SessionInode, FileText, HasExec
<1>2. /\ SessionText(node.id, ok)' = SessionText(node.id, ok) /\ MetaText(node.id)' = MetaText(node.id)
      /\ ProgramText(node.id, ok)' = ProgramText(node.id, ok)
      /\ IndexText' = IndexText /\ BinText' = BinText /\ LiveText' = LiveText
  BY <1>1 DEF SessionText, MetaText, ProgramText, IndexText, BinText, LiveText
<1> QED
  BY <1>2 DEF Text

\* A step of a saving leaves a text as it is or adds to its end.
LEMMA TextGrows ==
  ASSUME Harmless, FsInv, TableInv, Saving \/ SaveError, live' = live, NEW node \in Nodes,
         node.type \notin {"invalid", "long"}, Text(node, TRUE) # Failed
  PROVE  Continues(Text(node, TRUE), Text(node, TRUE)')
<1>1. node.type \in {"session", "meta", "index", "bin", "program", "live", "tx"}
  BY Buffers DEF NodeTypes
<1>2. pc # "offline" /\ pc' # "offline"
  BY SaveIs DEF Saves
<1>3. CASE node.type = "session"
  <2>1. Text(node, TRUE) = SessionText(node.id, TRUE) /\ Text(node, TRUE)' = SessionText(node.id, TRUE)'
    BY <1>3 DEF Text
  <2>2. Sessions(node.id) # {}
    BY <2>1 DEF SessionText
  <2>3. SessionText(node.id, TRUE)' = SessionText(node.id, TRUE)
    BY <1>2, <2>2, SessionSame DEF SessionText
  <2> QED
    BY <2>1, <2>3 DEF Continues
<1>4. CASE node.type = "meta"
  <2>1. Text(node, TRUE) = MetaText(node.id) /\ Text(node, TRUE)' = MetaText(node.id)'
    BY <1>4 DEF Text
  <2>2. Sessions(node.id) # {}
    BY <2>1 DEF MetaText
  <2>3. MetaText(node.id)' = MetaText(node.id)
    BY <1>2, <2>2, SessionSame DEF MetaText
  <2> QED
    BY <2>1, <2>3 DEF Continues
<1>5. CASE node.type = "index"
  <2> DEFINE x == Gathered(inodes, "trace")
             z == Gathered(inodes', "trace")
             a == Rendered(IndexLines(x, Fewer(x)))
             b == Rendered(IndexLines(z, Fewer(z)))
  <2>1. inodes \in Table /\ inodes' \in Table
    BY SaveLists
  <2>2. PICK y \in Inode : z = Gather(x, y, "trace")
    BY SaveLists
  <2>3. Extends(a, b) /\ IsSeq(a) /\ IsSeq(b) /\ Len(a) >= 1
    BY <2>1, <2>2, IndexGrows
  <2>4. Text(node, TRUE) = IndexText /\ Text(node, TRUE)' = IndexText'
    BY <1>5 DEF Text
  <2>5. IndexText = a
    BY <2>1, IndexIs DEF IndexText, IndexLines
  <2>6. IndexText' = b
    <3>1. Min({Len(z), IndexMax}) = Fewer(z)
      BY <2>1, IndexIs
    <3>2. IndexText' = Rendered(IndexLines(z, Min({Len(z), IndexMax})))
      BY DEF IndexText, IndexLines, Gathered, Rendered
    <3> QED
      BY <3>1, <3>2
  <2> HIDE DEF a, b
  <2> QED
    BY <2>3, <2>4, <2>5, <2>6 DEF Continues
<1>6. CASE node.type = "bin"
  <2>1. Text(node, TRUE) = BinText /\ Text(node, TRUE)' = BinText'
    BY <1>6 DEF Text
  <2>2. Gathered(inodes, "exec")' = Gathered(inodes', "exec")
    BY DEF Gathered
  <2>3. Gathered(inodes, "exec")' = Gathered(inodes, "exec")
    BY <2>2, SaveLists
  <2>4. BinText' = BinText
    BY <2>3 DEF BinText, Rendered
  <2> QED
    BY <2>1, <2>4 DEF Continues
<1>7. CASE node.type = "program"
  <2>1. Text(node, TRUE) = ProgramText(node.id, TRUE) /\ Text(node, TRUE)' = ProgramText(node.id, TRUE)'
    BY <1>7 DEF Text
  <2>2. /\ HasExec(node.id) <=> \E i \in Index : Listed(inodes[i], "exec") /\ inodes[i].hash = -node.id
        /\ HasExec(node.id)' <=> \E i \in Index : Listed(inodes'[i], "exec") /\ inodes'[i].hash = -node.id
    BY DEF HasExec, Listed
  <2>3. HasExec(node.id)' <=> HasExec(node.id)
    BY <2>2, SaveLists
  <2>4. ProgramText(node.id, TRUE)' = ProgramText(node.id, TRUE)
    BY <1>2, <2>3 DEF ProgramText
  <2> QED
    BY <2>1, <2>4 DEF Continues
<1>8. CASE node.type = "live"
  BY <1>8 DEF Text, LiveText, Continues
<1>9. CASE node.type = "tx"
  BY <1>9 DEF Text, Continues
<1> QED
  BY <1>1, <1>3, <1>4, <1>5, <1>6, <1>7, <1>8, <1>9

-----------------------------------------------------------------------------
(* Reads.                                                                   *)

\* The text of the node a descriptor has after a step.
LEMMA TextAfter ==
  ASSUME NEW f, NEW node, node = fd_table'[f].node
  PROVE  Text(fd_table[f].node, TRUE)' = Text(node, TRUE)'
  OBVIOUS

LEMMA BegunGrows ==
  ASSUME NEW d, d.pos \in Nat, NEW s, NEW a, NEW b, Begun(d, s, a),
         a # Failed => Continues(a, b)
  PROVE  Begun(d, s, b)
<1>1. CASE (d.pos = 0 /\ s = <<>>) \/ b = a
  BY <1>1 DEF Begun
<1>2. CASE ~(d.pos = 0 /\ s = <<>>) /\ b # a
  <2>1. a # Failed /\ d.pos <= Len(a) /\ s = SubSeq(a, 1, d.pos)
    BY <1>2 DEF Begun
  <2>2. Extends(a, b) /\ Len(a) >= 1 /\ IsSeq(a) /\ IsSeq(b)
    BY <1>2, <2>1 DEF Continues
  <2>3. d.pos <= Len(b) /\ SubSeq(b, 1, d.pos) = SubSeq(a, 1, d.pos)
    BY <2>1, <2>2, PrefixSeq
  <2>4. ASSUME b = Failed
        PROVE  FALSE
    <3>1. Len(b) = 1
      BY <2>4, ShortSeqs DEF Failed
    <3>2. Len(a) \in Nat /\ Len(a) <= Len(b)
      BY <2>2, AnySeq DEF Extends, IsSeq
    <3>3. Len(a) = 1
      <4>1. \A m \in Nat : m >= 1 /\ m <= 1 => m = 1
        OBVIOUS
      <4> QED
        BY <2>2, <3>1, <3>2, <4>1, Zenon
    <3>4. SubSeq(b, 1, 1) = SubSeq(a, 1, 1)
      BY <2>2, <3>3, PrefixSeq
    <3>5. SubSeq(b, 1, Len(b)) = b /\ SubSeq(a, 1, Len(a)) = a
      BY <2>2, WholeSeq
    <3> QED
      BY <1>2, <3>1, <3>3, <3>4, <3>5
  <2> QED
    BY <2>1, <2>3, <2>4 DEF Begun
<1> QED
  BY <1>1, <1>2

\* A read goes on where the last one ended.
LEMMA BegunReads ==
  ASSUME NEW d, d.pos \in Nat, NEW s, NEW text, IsSeq(text), text # Failed, Begun(d, s, text),
         NEW n \in Nat, d.pos + n <= Len(text), NEW e, e.pos = d.pos + n
  PROVE  Begun(e, s \o SubSeq(text, d.pos + 1, d.pos + n), text)
<1> DEFINE p == d.pos
<1>1. p \in Nat /\ Len(text) \in Nat
  BY AnySeq DEF IsSeq
<1>2. s = SubSeq(text, 1, p)
  <2>1. CASE p = 0 /\ s = <<>>
    <3>1. SubSeq(text, 1, 0) = <<>>
      <4> DEFINE E == Elements(text)
      <4>1. text \in Seq(E)
        BY DEF IsSeq
      <4> HIDE DEF E
      <4> QED
        BY <4>1
    <3> QED
      BY <2>1, <3>1
  <2>2. CASE ~(p = 0 /\ s = <<>>)
    BY <2>2 DEF Begun
  <2> QED
    BY <2>1, <2>2
<1> HIDE DEF p
<1>3. s \o SubSeq(text, p + 1, p + n) = SubSeq(text, 1, p + n)
  BY <1>1, <1>2, JoinPieces DEF p
<1> QED
  BY <1>3 DEF Begun, p

\* A rendering the disk failed is an error, or that of a program.
LEMMA RenderedAlike ==
  ASSUME NEW node \in Nodes, node.type \notin {"invalid", "long"}, NEW ok \in BOOLEAN,
         Text(node, ok) # Failed, ok \/ node.type # "program"
  PROVE  Text(node, ok) = Text(node, TRUE)
<1>1. CASE ok
  BY <1>1
<1>2. CASE ~ok /\ node.type = "session"
  <2>1. Text(node, ok) = SessionText(node.id, ok)
    BY <1>2 DEF Text
  <2> QED
    BY <1>2, <2>1 DEF SessionText
<1>3. CASE ~ok /\ node.type # "session"
  <2>1. node.type \in {"meta", "index", "bin", "live", "tx"}
    BY <1>3, Buffers DEF NodeTypes
  <2> QED
    BY <2>1 DEF Text
<1> QED
  BY <1>1, <1>2, <1>3

\* Descriptors that do not change over a step that leaves their text as it is,
\* apart from those that become stale, are closed, or are opened.
LEMMA OtherReads ==
  ASSUME FdInv, FdInv', ReadInv, NEW f \in Fd, f \notin stale', fd_table'[f].used,
         \/ got'[f] = <<>> /\ fd_table'[f].pos = 0
         \/ /\ fd_table'[f] = fd_table[f] /\ got'[f] = got[f] /\ f \notin stale
            /\ \A node \in Nodes :
                 node = fd_table[f].node /\ node.type \notin {"invalid", "long"} /\ Text(node, TRUE) # Failed
                   => Continues(Text(node, TRUE), Text(node, TRUE)')
  PROVE  Begun(fd_table'[f], got'[f], Text(fd_table[f].node, TRUE)')
<1>1. CASE got'[f] = <<>> /\ fd_table'[f].pos = 0
  BY <1>1 DEF Begun
<1>2. CASE ~(got'[f] = <<>> /\ fd_table'[f].pos = 0)
  <2>1. /\ fd_table'[f] = fd_table[f] /\ got'[f] = got[f] /\ f \notin stale /\ fd_table[f].used
        /\ \A node \in Nodes :
             node = fd_table[f].node /\ node.type \notin {"invalid", "long"} /\ Text(node, TRUE) # Failed
               => Continues(Text(node, TRUE), Text(node, TRUE)')
    BY <1>2
  <2>2. FdSound(fd_table[f], got[f])
    BY FdParts
  <2>3. fd_table[f].pos \in Nat
    BY <2>2, Buffers DEF FdSound, FdRecord
  <2>4. PICK node \in Nodes : node = fd_table[f].node
    BY <2>1, <2>2 DEF FdSound
  <2>5. node.type \notin {"invalid", "long"}
    BY <2>1, <2>2, <2>4 DEF FdSound
  <2>6. Begun(fd_table[f], got[f], Text(node, TRUE))
    BY <2>1, <2>4 DEF ReadInv
  <2>7. Begun(fd_table[f], got[f], Text(node, TRUE)')
    BY <2>1, <2>3, <2>4, <2>5, <2>6, BegunGrows
  <2>8. node = fd_table'[f].node
    BY <2>1, <2>4
  <2> QED
    BY <2>1, <2>7, <2>8
<1> QED
  BY <1>1, <1>2

\* A descriptor that is opened or closed, and the others.
LEMMA OpenReads ==
  ASSUME FdInv, FdInv', ReadInv, pc \in Saves \cup {"offline"}, UNCHANGED vars, UNCHANGED live,
         NEW n \in Fd,
         \A f \in Fd : f # n => fd_table'[f] = fd_table[f] /\ got'[f] = got[f],
         \A f \in Fd : f # n => (f \in stale' <=> f \in stale),
         ~fd_table'[n].used \/ (got'[n] = <<>> /\ fd_table'[n].pos = 0)
  PROVE  ReadInv'
<1>1. UNCHANGED <<inodes, disk_data, live>> /\ pc' = pc
  BY DEF vars, diskVars, memVars
<1>2. \A node \in Nodes : Text(node, TRUE)' = Text(node, TRUE)
  BY <1>1, TextStays
<1>3. ASSUME NEW f \in Fd \ stale', fd_table'[f].used
      PROVE  Begun(fd_table'[f], got'[f], Text(fd_table[f].node, TRUE)')
  BY <1>2, <1>3, OtherReads DEF Continues
<1>4. pc' \in Saves \cup {"offline"}
  BY <1>1
<1> QED
  BY <1>3, <1>4 DEF ReadInv

\* One read, and the other descriptors.
LEMMA ReadReads ==
  ASSUME FdInv, FdInv', ReadInv, inodes \in Table, pc \in Saves \cup {"offline"}, UNCHANGED vars, UNCHANGED live,
         NEW g \in Fd, fd_table[g].used, NEW ok \in BOOLEAN, vfs_read(g, ok)
  PROVE  ReadInv'
<1>1. UNCHANGED <<inodes, disk_data, live>> /\ pc' = pc
  BY DEF vars, diskVars, memVars
<1>2. \A node \in Nodes : Text(node, TRUE)' = Text(node, TRUE)
  BY <1>1, TextStays
<1>3. PICK n \in Nat \ {0} : Reading(g, ok, n)
  BY ReadIs
<1> DEFINE text == Text(fd_table[g].node, ok)
           pos == fd_table[g].pos
           d == [fd_table[g] EXCEPT !.pos = pos + n]
           s == got[g] \o SubSeq(text, pos + 1, pos + n)
<1>4. /\ text # Failed /\ IsSeq(text) /\ pos \in Nat /\ pos + n <= Len(text)
      /\ d.pos = pos + n /\ d.node = fd_table[g].node /\ FdSound(d, s)
      /\ fd_table' = [fd_table EXCEPT ![g] = d] /\ got' = [got EXCEPT ![g] = s]
  BY <1>3 DEF Reading
<1> HIDE DEF d, s
<1>5. /\ fd_table'[g] = d /\ got'[g] = s
      /\ \A f \in Fd : f # g => fd_table'[f] = fd_table[f] /\ got'[f] = got[f]
  BY <1>4, OneFd
<1>6. stale' = IF fd_table[g].node.type = "program" /\ ~ok THEN stale \cup {g} ELSE stale
  BY DEF vfs_read
<1>7. ASSUME g \notin stale'
      PROVE  Begun(d, s, Text(fd_table[g].node, TRUE)')
  <2>1. PICK node \in Nodes : node = fd_table[g].node /\ node.type \notin {"invalid", "long"}
    BY FdParts DEF FdSound
  <2>2. g \notin stale /\ (ok \/ node.type # "program")
    BY <1>6, <1>7, <2>1
  <2>3. Text(node, ok) = Text(node, TRUE) /\ text = Text(node, TRUE)
    BY <1>4, <2>1, <2>2, RenderedAlike
  <2>4. Begun(fd_table[g], got[g], text)
    BY <2>1, <2>2, <2>3 DEF ReadInv
  <2> HIDE DEF text
  <2>5. Begun(d, s, text)
    BY <1>4, <2>4, BegunReads DEF s, pos
  <2>6. Text(node, TRUE)' = text
    BY <1>2, <2>3
  <2>7. node = fd_table'[g].node
    BY <1>4, <1>5, <2>1
  <2> QED
    BY <2>5, <2>6, <2>7
<1>8. ASSUME NEW f \in Fd \ stale', fd_table'[f].used
      PROVE  Begun(fd_table'[f], got'[f], Text(fd_table[f].node, TRUE)')
  <2>1. CASE f = g
    BY <1>5, <1>7, <1>8, <2>1
  <2>2. CASE f # g
    <3>1. fd_table'[f] = fd_table[f] /\ got'[f] = got[f] /\ f \notin stale
      BY <1>5, <1>6, <1>8, <2>2
    <3> QED
      BY <1>2, <1>8, <3>1, OtherReads DEF Continues
  <2> QED
    BY <2>1, <2>2
<1> QED
  BY <1>1, <1>8 DEF ReadInv

\* Who has read of a live node that changes becomes stale.
LEMMA LiveReads ==
  ASSUME FdInv, FdInv', ReadInv, pc \in {"idle", "offline"}, UNCHANGED vars,
         UNCHANGED <<fd_table, got>>, LiveChange \/ UNCHANGED <<live, stale>>
  PROVE  ReadInv'
<1>1. /\ UNCHANGED <<inodes, disk_data>> /\ pc' = pc /\ fd_table' = fd_table /\ got' = got
      /\ stale \subseteq stale'
  BY DEF vars, diskVars, memVars, LiveChange
<1>2. ASSUME NEW node \in Nodes, node.type # "live", node.type \notin {"invalid", "long"}
      PROVE  Text(node, TRUE)' = Text(node, TRUE)
  <2>1. node.type \in {"session", "meta", "index", "bin", "program", "tx"}
    BY <1>2, Buffers DEF NodeTypes
  <2>2. /\ Sessions(node.id)' = Sessions(node.id) /\ SessionInode(node.id)' = SessionInode(node.id)
        /\ FileText(SessionInode(node.id))' = FileText(SessionInode(node.id))
        /\ HasExec(node.id)' = HasExec(node.id)
    BY <1>1 DEF Sessions, SessionInode, FileText, HasExec
  <2>3. /\ SessionText(node.id, TRUE)' = SessionText(node.id, TRUE) /\ MetaText(node.id)' = MetaText(node.id)
        /\ ProgramText(node.id, TRUE)' = ProgramText(node.id, TRUE)
        /\ IndexText' = IndexText /\ BinText' = BinText
    BY <1>1, <2>2 DEF SessionText, MetaText, ProgramText, IndexText, BinText
  <2> QED
    BY <2>1, <2>3 DEF Text
<1>3. ASSUME NEW f \in Fd \ stale', fd_table'[f].used
      PROVE  Begun(fd_table'[f], got'[f], Text(fd_table[f].node, TRUE)')
  <2>1. f \notin stale /\ fd_table[f].used
    BY <1>1, <1>3
  <2>2. CASE UNCHANGED live
    <3>1. \A node \in Nodes : Text(node, TRUE)' = Text(node, TRUE)
      BY <1>1, <2>2, TextStays
    <3> QED
      BY <1>1, <1>3, <2>1, <3>1, OtherReads DEF Continues
  <2>3. CASE LiveChange /\ fd_table[f].node.type = "live"
    <3>1. got[f] = <<>>
      BY <1>3, <2>3 DEF LiveChange
    <3>2. Begun(fd_table[f], got[f], Text(fd_table[f].node, TRUE))
      BY <2>1 DEF ReadInv
    <3>3. fd_table[f].pos = 0
      <4>1. FdSound(fd_table[f], got[f]) /\ live \in Nat
        BY FdParts
      <4>2. fd_table[f].pos \in Nat /\ fd_table[f].node \in Nodes
        BY <2>1, <4>1, Buffers DEF FdSound, FdRecord
      <4>3. IsSeq(LiveText) /\ Len(LiveText) \in Nat /\ Text(fd_table[f].node, TRUE) = LiveText
        BY <2>3, <4>1, LiveIs DEF Text
      <4>4. CASE ~(fd_table[f].pos = 0)
        <5> DEFINE p == fd_table[f].pos
        <5>1. p \in Nat /\ p <= Len(LiveText) /\ SubSeq(LiveText, 1, p) = <<>>
          BY <3>1, <3>2, <4>2, <4>3, <4>4 DEF Begun
        <5> HIDE DEF p
        <5>2. Len(SubSeq(LiveText, 0 + 1, 0 + p)) = p
          <6>1. 0 + p <= Len(LiveText)
            BY <5>1
          <6> QED
            BY <4>3, <5>1, <6>1, CutSeq
        <5>3. 0 + 1 = 1 /\ 0 + p = p
          BY <5>1
        <5>4. Len(<<>>) = p
          BY <5>1, <5>2, <5>3
        <5> QED
          BY <5>4, BlankSeq DEF p
      <4> QED
        BY <4>4
    <3> QED
      BY <1>1, <3>1, <3>3 DEF Begun
  <2>4. CASE LiveChange /\ fd_table[f].node.type # "live"
    <3>1. \A node \in Nodes :
            node = fd_table[f].node /\ node.type \notin {"invalid", "long"} =>
              Text(node, TRUE)' = Text(node, TRUE)
      BY <1>2, <2>4
    <3> QED
      BY <1>1, <1>3, <2>1, <3>1, OtherReads DEF Continues
  <2> QED
    BY <2>2, <2>3, <2>4
<1>4. pc' \in Saves \cup {"offline"}
  BY <1>1 DEF Saves
<1> QED
  BY <1>3, <1>4 DEF ReadInv

LEMMA CommandReads ==
  ASSUME FdInv, FdInv', ReadInv, inodes \in Table, Command
  PROVE  ReadInv'
<1>1. ASSUME NEW node \in Nodes, NEW flags, CanOpen(node), Prompt, UNCHANGED <<vars, live, stale>>,
             fd_table' = vfs_open(node, flags), got' = [got EXCEPT ![NewFd] = <<>>]
      PROVE  ReadInv'
  <2>1. NewFd \in Fd
    BY <1>1, NewFdIs DEF CanOpen
  <2>2. fd_table \in [Fd -> FdRecord] /\ DOMAIN got = Fd
    BY FdParts
  <2>3. /\ fd_table'[NewFd].pos = 0 /\ got'[NewFd] = <<>>
        /\ \A f \in Fd : f # NewFd => fd_table'[f] = fd_table[f] /\ got'[f] = got[f]
    BY <1>1, <2>1, <2>2 DEF vfs_open
  <2>4. pc \in Saves \cup {"offline"} /\ stale' = stale /\ UNCHANGED vars /\ UNCHANGED live
    BY <1>1 DEF Prompt, Saves
  <2> QED
    BY <2>1, <2>3, <2>4, OpenReads
<1>2. ASSUME NEW node \in Nodes, Write(node)
      PROVE  ReadInv'
  <2>1. NewFd \in Fd /\ fd_table[NewFd] = FreeFd
    BY <1>2, NewFdIs DEF Write, CanOpen
  <2>2. fd_table \in [Fd -> FdRecord]
    BY FdParts
  <2>3. fd_table' = [fd_table EXCEPT ![NewFd] = FreeFd]
    BY <1>2, <2>1, <2>2 DEF Write, AfterWrite, vfs_close, vfs_open
  <2>4. fd_table' = fd_table
    BY <2>1, <2>2, <2>3
  <2> QED
    BY <1>2, <2>4, LiveReads DEF Write, Prompt
<1>3. ASSUME NEW f \in Fd, NEW ok \in DiskOk, ReadFd(f, ok)
      PROVE  ReadInv'
  <2>1. ok \in BOOLEAN
    BY Buffers DEF DiskOk
  <2>2. /\ fd_table[f].used /\ vfs_read(f, ok) /\ UNCHANGED vars /\ UNCHANGED live
        /\ pc \in Saves \cup {"offline"}
    BY <1>3 DEF ReadFd, Readable, Prompt, Saves
  <2> QED
    BY <2>1, <2>2, ReadReads
<1>4. ASSUME NEW f \in Fd, WriteFd(f)
      PROVE  ReadInv'
  BY <1>4, LiveReads DEF WriteFd, Prompt
<1>5. ASSUME NEW f \in Fd, Close(f)
      PROVE  ReadInv'
  <2>1. /\ pc \in Saves \cup {"offline"} /\ UNCHANGED vars /\ UNCHANGED live /\ stale' = stale \ {f}
        /\ fd_table' = [fd_table EXCEPT ![f] = FreeFd] /\ got' = [got EXCEPT ![f] = <<>>]
    BY <1>5 DEF Close, Prompt, vfs_close, Saves
  <2>2. fd_table \in [Fd -> FdRecord] /\ DOMAIN got = Fd
    BY FdParts
  <2>3. /\ ~fd_table'[f].used
        /\ \A g \in Fd : g # f => fd_table'[g] = fd_table[g] /\ got'[g] = got[g]
    BY <2>1, <2>2 DEF FreeFd
  <2> QED
    BY <2>1, <2>3, OpenReads
<1>6. ASSUME NEW node \in Nodes, CatOpen(node)
      PROVE  ReadInv'
  BY <1>1, <1>6 DEF CatOpen
<1>7. ASSUME NEW node \in Nodes, NEW flags, Open(node, flags)
      PROVE  ReadInv'
  BY <1>1, <1>7 DEF Open
<1> QED
  BY <1>2, <1>3, <1>4, <1>5, <1>6, <1>7 DEF Command

\* cat runs while the filesystem is at rest.
LEMMA CatReads ==
  ASSUME FdInv, FdInv', ReadInv, inodes \in Table, CatStep
  PROVE  ReadInv'
<1>1. cat # NoFd
  BY DEF CatStep, CatRead, CatEnd, CatFail
<1>2. cat \in Fd /\ fd_table[cat].used
  BY <1>1, FdParts
<1>3. pc \in Saves \cup {"offline"}
  BY <1>2 DEF ReadInv
<1>4. ASSUME NEW ok \in DiskOk, CatRead(ok)
      PROVE  ReadInv'
  <2>1. ok \in BOOLEAN
    BY Buffers DEF DiskOk
  <2>2. vfs_read(cat, ok) /\ UNCHANGED vars /\ UNCHANGED live
    BY <1>4 DEF CatRead
  <2> QED
    BY <1>2, <1>3, <2>1, <2>2, ReadReads
<1>5. ASSUME CatClose
      PROVE  ReadInv'
  <2>1. /\ UNCHANGED vars /\ UNCHANGED live /\ stale' = stale \ {cat}
        /\ fd_table' = [fd_table EXCEPT ![cat] = FreeFd] /\ got' = [got EXCEPT ![cat] = <<>>]
    BY <1>5 DEF CatClose, vfs_close
  <2>2. fd_table \in [Fd -> FdRecord] /\ DOMAIN got = Fd
    BY FdParts
  <2>3. /\ ~fd_table'[cat].used
        /\ \A g \in Fd : g # cat => fd_table'[g] = fd_table[g] /\ got'[g] = got[g]
    BY <1>2, <2>1, <2>2 DEF FreeFd
  <2>4. \A g \in Fd : g # cat => (g \in stale' <=> g \in stale)
    BY <2>1
  <2> QED
    BY <1>2, <1>3, <2>1, <2>3, <2>4, OpenReads
<1> QED
  BY <1>4, <1>5 DEF CatStep, CatEnd, CatFail

\* The filesystem's own steps: before it is mounted no descriptor is open, and
\* then only savings change a text.
LEMMA FsReads ==
  ASSUME Harmless, FsInv, TableInv, FdInv, FdInv', ReadInv, FsStep
  PROVE  ReadInv'
<1>1. fd_table' = fd_table /\ got' = got /\ stale' = stale /\ live' = live
  BY DEF FsStep, fdVars
<1>2. CASE pc \notin Saves \cup {"offline"}
  <2>1. \A f \in Fd : ~fd_table'[f].used
    BY <1>1, <1>2 DEF ReadInv
  <2> QED
    BY <2>1 DEF ReadInv
<1>3. ASSUME pc' \in Saves,
             \A node \in Nodes : node.type \notin {"invalid", "long"} /\ Text(node, TRUE) # Failed
               => Continues(Text(node, TRUE), Text(node, TRUE)')
      PROVE  ReadInv'
  <2>1. ASSUME NEW f \in Fd \ stale', fd_table'[f].used
        PROVE  Begun(fd_table'[f], got'[f], Text(fd_table[f].node, TRUE)')
    BY <1>1, <1>3, <2>1, OtherReads
  <2> QED
    BY <1>3, <2>1 DEF ReadInv
<1>4. CASE Saving \/ SaveError
  <2>1. pc' \in Saves
    BY <1>4, SaveIs
  <2> QED
    BY <1>1, <1>3, <1>4, <2>1, TextGrows
<1>5. CASE FlushInodes /\ pc = "inodes"
  <2>1. pc' \in Saves /\ UNCHANGED <<inodes, disk_data, live>> /\ pc' # "offline"
    BY <1>1, <1>5 DEF FlushInodes, AfterInodes, Saves, memVars
  <2>2. \A node \in Nodes : Text(node, TRUE)' = Text(node, TRUE)
    BY <1>5, <2>1, TextStays
  <2> QED
    BY <1>3, <2>1, <2>2 DEF Continues
<1>6. \/ pc \notin Saves \cup {"offline"} \/ Saving \/ SaveError
      \/ FlushInodes /\ pc = "inodes"
  <2>1. CASE Boot
    BY <2>1 DEF Boot, Load, FmtSuper, Reload, SeedExec, SeedDone, BootSuper, Saves
  <2>2. CASE FlushInodes
    BY <2>2 DEF FlushInodes, Saves
  <2>3. CASE DiskError
    BY <2>3 DEF DiskError, LoadError, NoDrive, FormatError, SeedError, BootError, Saves
  <2> QED
    BY <2>1, <2>2, <2>3 DEF FsStep
<1> QED
  BY <1>2, <1>4, <1>5, <1>6

LEMMA ReadStep ==
  ASSUME Harmless, VfsInv, FdInv', [VfsNext]_vfsVars
  PROVE  ReadInv'
<1>1. FdInv /\ FsInv /\ TableInv /\ ReadInv /\ inodes \in Table
  BY Typed DEF VfsInv, FsInv
<1>2. CASE Command
  BY <1>1, <1>2, CommandReads
<1>3. CASE CatStep
  BY <1>1, <1>3, CatReads
<1>4. CASE Elsewhere
  BY <1>1, <1>4, LiveReads DEF Elsewhere
<1>5. CASE FsStep
  BY <1>1, <1>5, FsReads
<1>6. CASE Restart
  BY <1>6 DEF Restart, NoFds, ReadInv, FreeFd
<1>7. CASE UNCHANGED vfsVars
  <2>1. fd_table' = fd_table /\ got' = got /\ stale' = stale
    BY <1>7 DEF vfsVars, fdVars
  <2>2. UNCHANGED <<inodes, disk_data, live>> /\ pc' = pc
    BY <1>7 DEF vfsVars, fdVars, vars, diskVars, memVars
  <2>3. \A node \in Nodes : Text(node, TRUE)' = Text(node, TRUE)
    BY <2>2, TextStays
  <2>4. ASSUME NEW f \in Fd \ stale', fd_table'[f].used
        PROVE  Begun(fd_table'[f], got'[f], Text(fd_table[f].node, TRUE)')
    BY <1>1, <2>1, <2>3, <2>4, OtherReads DEF Continues
  <2> QED
    BY <1>1, <2>1, <2>2, <2>4 DEF ReadInv
<1> QED
  BY <1>2, <1>3, <1>4, <1>5, <1>6, <1>7 DEF VfsNext

LEMMA VfsInductive ==
  ASSUME Harmless, VfsInv, [VfsNext]_vfsVars
  PROVE  VfsInv'
<1>1. FdInv' /\ [Next]_vars
  BY FdStep, Typed DEF VfsInv, FsInv
<1>2. FsInv' /\ TableInv'
  BY <1>1, FsInductive, TableStep DEF VfsInv
<1>3. ReadInv'
  BY <1>1, ReadStep
<1> QED
  BY <1>1, <1>2, <1>3 DEF VfsInv

LEMMA VfsInitially == VfsInit => VfsInv
<1> SUFFICES ASSUME VfsInit
             PROVE  VfsInv
  OBVIOUS
<1>1. ReadInv
  BY DEF VfsInit, ReadInv, FreeFd
<1> QED
  BY <1>1, FdInitially, FsInit, TablesInitially DEF VfsInit, VfsInv

\* What a descriptor that is not stale has delivered.
LEMMA ReadSoFar ==
  ASSUME VfsInv, NEW f \in Fd, f \notin stale, got[f] # <<>>
  PROVE  got[f] = SubSeq(Text(fd_table[f].node, TRUE), 1, fd_table[f].pos)
<1>1. fd_table[f].used
  BY FdParts DEF VfsInv, FdSound
<1>2. Begun(fd_table[f], got[f], Text(fd_table[f].node, TRUE))
  BY <1>1 DEF VfsInv, ReadInv
<1> QED
  BY <1>2 DEF Begun

LEMMA VfsCorrect == Harmless => (VfsSpec => []VfsInv)
<1> SUFFICES ASSUME Harmless
             PROVE  VfsSpec => []VfsInv
  OBVIOUS
<1>1. VfsInv /\ [VfsNext]_vfsVars => VfsInv'
  BY VfsInductive
<1> QED
  BY <1>1, VfsInitially, PTL DEF VfsSpec

\* With the crashes and errors of SafeCrashes and SafeErrors, for every size of
\* the buffers and however sessions are saved, reads fail and are tried again
\* in between: what vfs_read has delivered from a descriptor is the beginning
\* of its node's text as it would be rendered now, no piece twice and none
\* left out, unless the node is one that changes by itself.
THEOREM ReadsContinue ==
  CrashAt \subseteq SafeCrashes /\ FailAt \subseteq SafeErrors => (VfsSpec => []ReadsInOrder)
<1> SUFFICES ASSUME Harmless
             PROVE  VfsSpec => []ReadsInOrder
  BY DEF Harmless
<1>1. VfsInv => ReadsInOrder
  BY ReadSoFar DEF ReadsInOrder
<1> QED
  BY <1>1, VfsCorrect, PTL

\* cat at the end of a text.
LEMMA CatAtEnd ==
  ASSUME VfsInv, NEW ok \in DiskOk, CatEnd(ok), cat \notin stale
  PROVE  got[cat] = Text(fd_table[cat].node, ok)
<1> DEFINE node == fd_table[cat].node
           pos == fd_table[cat].pos
           a == Text(node, ok)
           b == Text(node, TRUE)
<1>1. cat \in Fd /\ fd_table[cat].used /\ FdSound(fd_table[cat], got[cat]) /\ live \in Nat
  BY FdParts DEF VfsInv, CatEnd
<1>2. inodes \in Table /\ ok \in BOOLEAN
  BY Typed, Buffers DEF VfsInv, FsInv, DiskOk
<1>3. node \in Nodes /\ node.type \notin {"invalid", "long"} /\ pos \in Nat
  BY <1>1, Buffers DEF FdSound, FdRecord
<1>4. a # Failed /\ pos >= Len(a)
  BY DEF CatEnd, AtEnd
<1>5. IsSeq(a) /\ Len(a) \in Nat
  BY <1>1, <1>2, <1>3, <1>4, TextFits
<1>6. Begun(fd_table[cat], got[cat], b)
  BY <1>1 DEF VfsInv, ReadInv
<1>7. CASE a = b
  <2>1. CASE pos = 0 /\ got[cat] = <<>>
    <3>1. Len(a) = 0
      BY <1>4, <1>5, <2>1
    <3>2. a = <<>>
      <4> DEFINE E == Elements(a)
      <4>1. a \in Seq(E)
        BY <1>5 DEF IsSeq
      <4> HIDE DEF E, a
      <4> QED
        BY <3>1, <4>1, EmptySeq
    <3> QED
      BY <2>1, <3>2
  <2>2. CASE ~(pos = 0 /\ got[cat] = <<>>)
    <3>1. pos <= Len(a) /\ got[cat] = SubSeq(a, 1, pos)
      BY <1>6, <1>7, <2>2 DEF Begun
    <3> HIDE DEF a, pos
    <3>2. pos = Len(a)
      BY <1>3, <1>4, <1>5, <3>1
    <3> QED
      BY <1>5, <3>1, <3>2, WholeSeq DEF a
  <2> QED
    BY <2>1, <2>2
<1>8. CASE a # b
  <2>1. ~ok /\ node.type = "program"
    BY <1>2, <1>3, <1>4, <1>8, RenderedAlike
  <2>2. a = ProgramText(node.id, FALSE) /\ b = ProgramText(node.id, TRUE)
    BY <1>2, <2>1 DEF Text
  <2>3. Len(a) = 4 /\ Len(b) = 3
    <3>1. a = << <<"program", node.id>>, <<"kernel", 0>>, <<"kernel", 1>>, <<"elf", node.id>> >>
      BY <2>2 DEF ProgramText
    <3>2. b = << <<"program", node.id>>, <<"disk", 0>>, <<"elf", node.id>> >>
      BY <1>8, <2>2, <3>1 DEF ProgramText
    <3> QED
      BY <3>1, <3>2, ShortSeqs
  <2>4. pos = 0 \/ pos <= Len(b)
    BY <1>6 DEF Begun
  <2> HIDE DEF a, b, pos
  <2> QED
    BY <1>3, <1>4, <2>3, <2>4
<1> QED
  BY <1>7, <1>8

\* Under the same hypothesis cat that ends without an error has printed the
\* whole of its node, whichever of its reads the disk failed.
THEOREM CatPrintsAll ==
  CrashAt \subseteq SafeCrashes /\ FailAt \subseteq SafeErrors => (VfsSpec => CatWhole)
<1> SUFFICES ASSUME Harmless
             PROVE  VfsSpec => CatWhole
  BY DEF Harmless
<1>1. VfsInv /\ [VfsNext]_vfsVars =>
        [\A ok \in DiskOk : CatEnd(ok) /\ cat \notin stale =>
           got[cat] = Text(fd_table[cat].node, ok)]_vfsVars
  BY CatAtEnd
<1> QED
  BY <1>1, VfsCorrect, PTL DEF VfsSpec, CatWhole
=============================================================================

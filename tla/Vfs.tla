-------------------------------- MODULE Vfs --------------------------------
(***************************************************************************)
(* kernel/vfs.c on top of the trace filesystem: the table of file          *)
(* descriptors, reading through an offset, and the shell commands cat,     *)
(* open, readfd, writefd, write and close, which reach it by the sys_      *)
(* calls of kernel/syscall.c.                                              *)
(*                                                                         *)
(* A file has no stored text: every vfs_read renders the whole node again  *)
(* into a scratch buffer and copies from the offset on, so a node may have *)
(* changed between two reads of one descriptor.  Saved sessions, their     *)
(* metadata, the session index and the programs come from Fs; "live"       *)
(* stands for the nodes that change by themselves (/proc, /net/stats,      *)
(* /net/rx), whose text is numbered by live.  The shell runs one command   *)
(* at a time, but timer interrupts and tasks change live nodes while cat   *)
(* is between two reads.  A call that fails at its first tests changes     *)
(* nothing and has no step here.                                           *)
(***************************************************************************)
EXTENDS Fs, Sequences

CONSTANTS
  MaxFds,       \* VFS_MAX_FDS
  Chunk,        \* units one sys_read of the shell asks for
  Scratch,      \* VFS_SCRATCH_MAX, in units
  IndexMax,     \* sessions that render_trace_index lists
  Nodes,        \* the paths the user names
  Flags,        \* the flags of open
  ReadFails,    \* whether ata_read28 may fail after the boot
  MaxChanges    \* bound on the changes of live nodes

NodeTypes == {"session", "meta", "index", "bin", "program", "live", "tx", "long", "invalid"}
AllFlags == {"r", "w", "rw"}

ASSUME VfsAssumption ==
  /\ {MaxFds, Chunk} \subseteq Nat \ {0} /\ {IndexMax, MaxChanges} \subseteq Nat
  /\ Scratch \in Nat /\ Scratch >= 4      \* metadata, programs and live nodes fit
  /\ Nodes \subseteq [type : NodeTypes, id : Nat]
  /\ Flags \subseteq AllFlags /\ ReadFails \in BOOLEAN

VARIABLES
  fd_table,
  cat,      \* the descriptor of the cat command that is running, or NoFd
  live,     \* the state of the live nodes
  got,      \* history: what was read from each descriptor since its opening
  stale,    \* history: the descriptors whose node changed after a read
  held      \* history: the descriptors given to the user and not closed by them

fdVars == <<fd_table, cat, live, got, stale, held>>
vfsVars == <<vars, fdVars>>

Fd == 0 .. MaxFds - 1
NoFd == -1
NoNode == [type |-> "invalid", id |-> 0]
FreeFd == [used |-> FALSE, flags |-> "r", pos |-> 0, node |-> NoNode]

-----------------------------------------------------------------------------
(* The text of a node.  disk_ok: the disk reads of this rendering succeed.  *)

Failed == <<"failed">>

\* The inodes of a type in a table, in their order: fs_snapshot_traces and
\* fs_snapshot_execs.
Listed(x, type) == x.used /\ x.type = type

Gather(found, x, type) == IF Listed(x, type) THEN Append(found, x) ELSE found

Gathered(table, type) ==
  LET found[i \in 0 .. MaxInodes] ==
        IF i = 0 THEN <<>> ELSE Gather(found[i - 1], table[i - 1], type)
  IN found[MaxInodes]

\* fs_find_session: the first inode of Sessions(id).
Sessions(id) == {i \in Index : Listed(inodes[i], "trace") /\ inodes[i].session = id}
SessionInode(id) == inodes[Min(Sessions(id))]

\* fs_read_trace_session and fs_read_exec_file: the units of a file, sector
\* by sector, cut at its size.
FileText(x) ==
  [u \in 1 .. x.size |->
     LET s == disk_data[x.start + (u - 1) \div SectorUnits]
     IN <<"file", s.file, s.part * SectorUnits + ((u - 1) % SectorUnits)>>]

\* fs_get_trace_session_info, the size test, and fs_read_trace_session.
SessionText(id, disk_ok) ==
  IF pc = "offline" \/ Sessions(id) = {} \/ SessionInode(id).size > Scratch \/ ~disk_ok
  THEN Failed ELSE FileText(SessionInode(id))

MetaText(id) ==
  LET x == SessionInode(id)
  IN IF pc = "offline" \/ Sessions(id) = {} THEN Failed
     ELSE << <<"meta", x.session>>, <<"bytes", x.size>>, <<"events", x.hash>> >>

\* The renderers stop at the end of the scratch buffer (append_char), which no
\* text of the code's sizes reaches.
Rendered(text) == SubSeq(text, 1, Min({Len(text), Scratch}))

\* render_trace_index: a heading and a line per session; fs_snapshot_traces
\* does not ask whether the filesystem is online.
IndexText ==
  LET x == Gathered(inodes, "trace")
      n == Min({Len(x), IndexMax})
  IN Rendered(<< <<"index", 0>> >> \o [i \in 1 .. n |-> <<"line", x[i].session>>])

\* builtin_exec_render_path: the installed programs, or the built-in ones.
BinText ==
  LET x == Gathered(inodes, "exec")
  IN Rendered(IF x = <<>> THEN << <<"builtin", 0>> >>
              ELSE << <<"bin", 0>> >> \o [i \in 1 .. Len(x) |-> <<"line", x[i].hash>>])

\* A program's entry tells whether it was parsed from the disk's image or from
\* the kernel's, in words of different length.
ProgramText(e, disk_ok) ==
  IF pc # "offline" /\ HasExec(e) /\ disk_ok
  THEN << <<"program", e>>, <<"disk", 0>>, <<"elf", e>> >>
  ELSE << <<"program", e>>, <<"kernel", 0>>, <<"kernel", 1>>, <<"elf", e>> >>

LiveText == [u \in 1 .. 3 + (live % 2) |-> <<"live", live, u>>]

Text(node, disk_ok) ==
  CASE node.type = "session" -> SessionText(node.id, disk_ok)
    [] node.type = "meta"    -> MetaText(node.id)
    [] node.type = "index"   -> IndexText
    [] node.type = "bin"     -> BinText
    [] node.type = "program" -> ProgramText(node.id, disk_ok)
    [] node.type = "live"    -> LiveText
    [] node.type = "tx"      -> << <<"tx", 0>> >>

-----------------------------------------------------------------------------
(* vfs_open, vfs_read, vfs_write, vfs_close.                                *)

FreeFds == {f \in Fd : ~fd_table[f].used}

\* path_kind knows the node, its path is short enough, and an entry is free.
CanOpen(node) == node.type \notin {"invalid", "long"} /\ FreeFds # {}
NewFd == Min(FreeFds)

vfs_open(node, flags) ==
  [fd_table EXCEPT ![NewFd] = [used |-> TRUE, flags |-> flags, pos |-> 0, node |-> node]]

vfs_close(table, f) == [table EXCEPT ![f] = FreeFd]

\* Mutant: a short last piece comes out empty.
PieceLast(text, pos) == IF Len(text) - pos > Chunk THEN Chunk ELSE 0

\* The length of what a read from pos on delivers.
Piece(text, pos) == Min({Chunk, Len(text) - pos})

\* Mutant: the copy starts at the beginning of the scratch buffer.
CopiedFromStart(text, pos, n) == SubSeq(text, 1, n)

Copied(text, pos, n) == SubSeq(text, pos + 1, pos + n)

Readable(f) == fd_table[f].used /\ fd_table[f].flags # "w"

\* vfs_read with a result greater than 0.
vfs_read(f, disk_ok) ==
  LET node == fd_table[f].node
      text == Text(node, disk_ok)
      pos == fd_table[f].pos
      n == Piece(text, pos)
  IN /\ text # Failed
     /\ pos < Len(text)
     /\ fd_table' = [fd_table EXCEPT ![f].pos = pos + n]
     /\ got' = [got EXCEPT ![f] = @ \o Copied(text, pos, n)]
     /\ stale' = IF node.type = "program" /\ ~disk_ok THEN stale \cup {f} ELSE stale

\* What the disk may do in a read.
DiskOk == {TRUE} \cup {~ReadFails}

\* Mutant: a piece shorter than a chunk is taken for the end.
AtEndShort(f, disk_ok) ==
  LET text == Text(fd_table[f].node, disk_ok)
  IN text # Failed /\ fd_table[f].pos + Chunk > Len(text)

\* vfs_read with the result 0.
AtEnd(f, disk_ok) ==
  LET text == Text(fd_table[f].node, disk_ok)
  IN text # Failed /\ fd_table[f].pos >= Len(text)

\* The live nodes have changed: who has read part of one reads on in another text.
LiveChange ==
  /\ live < MaxChanges
  /\ live' = live + 1
  /\ stale' = stale \cup {f \in Fd : fd_table[f].node.type = "live" /\ got[f] # <<>>}

\* vfs_write: only /net can be written, and of the nodes here only /net/tx.
Writes(node, flags) == flags # "r" /\ node.type = "tx"

-----------------------------------------------------------------------------
(* The shell's commands.                                                    *)

Prompt == pc \in {"idle", "offline"} /\ cat = NoFd

Open(node, flags) ==
  /\ Prompt /\ CanOpen(node)
  /\ fd_table' = vfs_open(node, flags)
  /\ got' = [got EXCEPT ![NewFd] = <<>>]
  /\ held' = held \cup {NewFd}
  /\ UNCHANGED <<vars, cat, live, stale>>

ReadFd(f, disk_ok) ==
  /\ Prompt /\ Readable(f)
  /\ vfs_read(f, disk_ok)
  /\ UNCHANGED <<vars, cat, live, held>>

WriteFd(f) ==
  /\ Prompt /\ fd_table[f].used
  /\ Writes(fd_table[f].node, fd_table[f].flags)
  /\ LiveChange
  /\ UNCHANGED <<vars, fd_table, cat, got, held>>

Close(f) ==
  /\ Prompt /\ fd_table[f].used
  /\ fd_table' = vfs_close(fd_table, f)
  /\ got' = [got EXCEPT ![f] = <<>>]
  /\ stale' = stale \ {f}
  /\ held' = held \ {f}
  /\ UNCHANGED <<vars, cat, live>>

\* Mutant: the descriptor is closed only after a write that succeeded.
AfterWriteLeaky(node) ==
  IF Writes(node, "w") THEN vfs_close(vfs_open(node, "w"), NewFd) ELSE vfs_open(node, "w")

\* write: the descriptor is closed whether or not the write succeeded.
AfterWrite(node) == vfs_close(vfs_open(node, "w"), NewFd)

Write(node) ==
  /\ Prompt /\ CanOpen(node)
  /\ fd_table' = AfterWrite(node)
  /\ IF Writes(node, "w") THEN LiveChange ELSE UNCHANGED <<live, stale>>
  /\ UNCHANGED <<vars, cat, got, held>>

\* shell_cat_path: open, read until 0 or an error, close.
CatOpen(node) ==
  /\ Prompt /\ CanOpen(node)
  /\ fd_table' = vfs_open(node, "r")
  /\ got' = [got EXCEPT ![NewFd] = <<>>]
  /\ cat' = NewFd
  /\ UNCHANGED <<vars, live, stale, held>>

CatRead(disk_ok) ==
  /\ cat # NoFd
  /\ vfs_read(cat, disk_ok)
  /\ UNCHANGED <<vars, cat, live, held>>

CatClose ==
  /\ fd_table' = vfs_close(fd_table, cat)
  /\ got' = [got EXCEPT ![cat] = <<>>]
  /\ stale' = stale \ {cat}
  /\ cat' = NoFd
  /\ UNCHANGED <<vars, live, held>>

CatEnd(disk_ok) ==
  /\ cat # NoFd
  /\ AtEnd(cat, disk_ok)
  /\ CatClose

CatFail(disk_ok) ==
  /\ cat # NoFd
  /\ Text(fd_table[cat].node, disk_ok) = Failed
  /\ CatClose

CatStep == \E ok \in DiskOk : CatRead(ok) \/ CatEnd(ok) \/ CatFail(ok)

\* A timer interrupt or another task changes what the live nodes show.
Elsewhere ==
  /\ pc \in {"idle", "offline"}
  /\ LiveChange
  /\ UNCHANGED <<vars, fd_table, cat, got, held>>

\* The trace commands and the boot: Fs, with no descriptor after a restart.
FsStep ==
  /\ cat = NoFd
  /\ Boot \/ FlushInodes \/ Saving \/ DiskError
  /\ UNCHANGED fdVars

NoFds ==
  /\ fd_table' = [f \in Fd |-> FreeFd]
  /\ cat' = NoFd
  /\ got' = [f \in Fd |-> <<>>]
  /\ stale' = {}
  /\ held' = {}

Restart == Crash /\ NoFds /\ UNCHANGED live

VfsInit ==
  /\ Init
  /\ fd_table = [f \in Fd |-> FreeFd]
  /\ cat = NoFd
  /\ live = 0
  /\ got = [f \in Fd |-> <<>>]
  /\ stale = {}
  /\ held = {}

Command ==
  \/ \E node \in Nodes : (\E flags \in Flags : Open(node, flags)) \/ Write(node) \/ CatOpen(node)
  \/ \E f \in Fd : (\E ok \in DiskOk : ReadFd(f, ok)) \/ WriteFd(f) \/ Close(f)

VfsNext == Command \/ CatStep \/ Elsewhere \/ FsStep \/ Restart

VfsSpec == VfsInit /\ [][VfsNext]_vfsVars

\* The CPU goes on executing the command that is running.
VfsFairSpec == VfsSpec /\ WF_vfsVars(CatStep)
-----------------------------------------------------------------------------
(* Properties.                                                              *)

\* Types: an offset never passes what was rendered for it.
VfsTypeOK ==
  /\ fd_table \in [Fd -> [used : BOOLEAN, flags : AllFlags, pos : 0 .. Scratch,
                          node : Nodes \cup {NoNode}]]
  /\ cat \in Fd \cup {NoFd}
  /\ live \in 0 .. MaxChanges
  /\ DOMAIN got = Fd /\ \A f \in Fd : Len(got[f]) <= fd_table[f].pos
  /\ stale \subseteq Fd /\ held \subseteq Fd

\* Consecutive reads of a descriptor deliver consecutive pieces of its node,
\* none twice and none left out, although each read renders the node anew:
\* sessions are saved between the reads, the index grows, reads fail and are
\* tried again.  Only live nodes, and a program whose file the disk failed to
\* deliver, may change under a reader.
ReadsInOrder ==
  \A f \in Fd \ stale :
    got[f] # <<>> => got[f] = SubSeq(Text(fd_table[f].node, TRUE), 1, fd_table[f].pos)

\* The table is well formed, and the open descriptors are those the user
\* holds and that of the cat that is running: no command leaves one behind,
\* however it fails, and none takes one of the user's.
FdsAccounted ==
  /\ VfsTypeOK
  /\ {f \in Fd : fd_table[f].used} = held \cup ({cat} \ {NoFd})
  /\ cat \notin held

\* cat that ends without an error has printed the whole node.
CatWhole ==
  [][\A ok \in DiskOk : CatEnd(ok) /\ cat \notin stale =>
       got[cat] = Text(fd_table[cat].node, ok)]_vfsVars

\* cat comes to an end, also on a node that changes all the while.
CatEnds == (cat # NoFd) ~> (cat = NoFd)
=============================================================================

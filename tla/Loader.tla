------------------------------- MODULE Loader -------------------------------
(***************************************************************************)
(* run /bin/ring3demo: builtin_exec_run_sync reads an ELF image, parses it *)
(* (kernel/elf.c), builds a user address space for it out of fresh frames  *)
(* (kernel/aspace.c, kernel/memory.c), enters ring 3 and comes back        *)
(* (kernel/usermode.c).                                                    *)
(*                                                                         *)
(* Sizes and addresses are in units; a page is PageUnits of them.  Unit k  *)
(* of an image file has the value k + 1, what the kernel's stack holds     *)
(* behind the file is Stray, and cleared memory has 0, so that every       *)
(* misplaced unit shows.  The user page table of a space is a              *)
(* function from the pages of the window to frames; the tables above it    *)
(* are only counted.  One action is one pass of a copying loop: nobody but *)
(* the shell allocates frames, so the interrupts that can fall between two *)
(* passes change nothing here.                                             *)
(***************************************************************************)
EXTENDS Aspace, Sequences, FiniteSetsExt

CONSTANTS PageUnits,      \* 4096: units of a page
          OneMeg, TwoMeg, \* 0x100000 and 0x200000
          UserBase,       \* ASPACE_USER_BASE
          WindowPages,    \* 512: pages of the user window
          StackPages,     \* 4: pages of stack below ASPACE_USER_STACK_TOP
          U32,            \* 2^32
          ImageMax,       \* 256: units of run_sync's image buffer
          Mapped,         \* units mapped from the start of that buffer on
          Maps,           \* e820 maps the boot loader may leave
          Images,         \* contents the file /bin/ring3demo may have
          MaxRuns,        \* bound: times the command is given
          MaxFaults       \* bound: page faults counted

ASSUME LoaderAssumption ==
  /\ {PageUnits, OneMeg, TwoMeg, UserBase, WindowPages, StackPages, U32, ImageMax, Mapped,
      MaxRuns, MaxFaults} \subseteq Nat \ {0}
  /\ OneMeg < TwoMeg /\ StackPages < WindowPages
  /\ TwoMeg % PageUnits = 0 /\ UserBase % (WindowPages * PageUnits) = 0
  /\ \A m \in Maps : m \in Seq([type : Nat, base : Nat, length : Nat])
  /\ \A image \in Images :
       /\ image \in [valid : BOOLEAN, entry : Nat, size : 0 .. ImageMax, calls : Seq(Nat),
                     segs : Seq([type : Nat, vaddr : Nat, offset : Nat, filesz : Nat, memsz : Nat])]
       /\ \A i \in DOMAIN image.segs :
            image.segs[i].offset + (image.segs[i].filesz % U32) <= Mapped

VARIABLES map,        \* the e820 map: <<[type, base, length], ...>>
          alloc,      \* [base, next, limit, used]: the statics of memory.c
          page_faults,
          aspaces, next_aspace_id,
          tables,     \* per user space, the frames of its four tables
          user_pt,    \* per user space, window page -> frame, NULL if absent
          mem,        \* contents of the frames handed out
          root,       \* CR3, as the id of the space it belongs to
          active,     \* usermode_state.active
          run,        \* the locals of builtin_exec_run_sync
          runs        \* commands given so far

vars == <<map, alloc, page_faults, aspaces, next_aspace_id, tables, user_pt,
          mem, root, active, run, runs>>
spaces == <<aspaces, next_aspace_id, tables, user_pt, mem, alloc>>

With(f, x, v) == [y \in DOMAIN f \cup {x} |-> IF y = x THEN v ELSE f[y]]

NULL == 0
Unmapped == -1
Stray == -2
StackTop == UserBase + WindowPages * PageUnits
Pages == 0 .. WindowPages - 1
Units == 0 .. PageUnits - 1

-----------------------------------------------------------------------------
(***************************************************************************)
(* memory.c: the largest usable region above 1 MB, cut at 2 MB, handed out *)
(* page by page and never taken back.                                      *)
(***************************************************************************)
Eligible(e) == e.type = 1 /\ e.base >= OneMeg

Larger(best, e) ==
  IF Eligible(e) /\ e.length > best.limit - best.base
  THEN [base |-> e.base, limit |-> e.base + e.length] ELSE best

Largest(entries) ==
  LET best[i \in 0 .. Len(entries)] ==
        IF i = 0 THEN [base |-> 0, limit |-> 0] ELSE Larger(best[i - 1], entries[i])
  IN best[Len(entries)]

memory_init(entries) ==
  LET pool == Largest(entries)
      base == IF pool.base < TwoMeg THEN TwoMeg ELSE pool.base
  IN [base |-> base, limit |-> pool.limit, used |-> 0,
      next |-> ((base + PageUnits - 1) \div PageUnits) * PageUnits]

\* memory_free_bytes, in whole pages: how often page_alloc will succeed.
FreePages(a) == IF a.limit <= a.next THEN 0 ELSE (a.limit - a.next) \div PageUnits

\* Mutant: the pool pointer is advanced by one page whatever was taken.
page_alloc_stuck(a, n) == [a EXCEPT !.next = @ + PageUnits, !.used = @ + n * PageUnits]

\* The pool after n successful calls of page_alloc.
page_alloc(a, n) == [a EXCEPT !.next = @ + n * PageUnits, !.used = @ + n * PageUnits]

Frame(a, k) == a.next + k * PageUnits    \* what the k-th of them returns

-----------------------------------------------------------------------------
(***************************************************************************)
(* elf.c.  An image is [valid, entry, size, segs, calls]: whether the      *)
(* header checks pass, the entry point, the length of the file, the        *)
(* program headers, and the system calls its code makes.  Nothing compares *)
(* a segment with the length of the file.                                  *)
(***************************************************************************)
\* Mutant: the first loadable segment wins, not the lowest.
First_inorder(first, seg) == IF first = 0 THEN seg.vaddr ELSE first

\* 0 stands for "none yet".
First(first, seg) == IF first = 0 \/ seg.vaddr < first THEN seg.vaddr ELSE first

Loadable(image) == {i \in DOMAIN image.segs : image.segs[i].type = 1}

\* One pass of the scan over the program headers.
Scanned(found, seg) ==
  IF seg.type # 1 THEN found
  ELSE [first |-> First(found.first, seg),
        last |-> IF seg.vaddr + seg.memsz > found.last THEN seg.vaddr + seg.memsz ELSE found.last]

Scan(segs) ==
  LET found[i \in 0 .. Len(segs)] ==
        IF i = 0 THEN [first |-> 0, last |-> 0] ELSE Scanned(found[i - 1], segs[i])
  IN found[Len(segs)]

\* The headers are scanned, and then the first one at the lowest address is
\* looked up.
elf_parse_image(image) ==
  LET found == Scan(image.segs)
      lowest == {i \in Loadable(image) : image.segs[i].vaddr = found.first}
      seg == IF found.first # 0 THEN image.segs[Min(lowest)]
             ELSE [offset |-> 0, filesz |-> 0, memsz |-> 0]
  IN [entry |-> image.entry, first_vaddr |-> found.first, last_vaddr |-> found.last,
      load_offset |-> seg.offset, load_filesz |-> seg.filesz, load_memsz |-> seg.memsz]

-----------------------------------------------------------------------------
NoRun == [pc |-> "prompt"]

Init ==
  /\ map \in Maps
  /\ alloc = memory_init(map)
  /\ page_faults = 0
  /\ aspaces = aspace_init /\ next_aspace_id = KernelAspace + 1
  /\ tables = <<>> /\ user_pt = <<>> /\ mem = <<>>
  /\ root = KernelAspace
  /\ active = FALSE
  /\ run = NoRun /\ runs = 0

\* builtin_exec_run_sync returns -1 when the file cannot be read or parsed.
Refuse ==
  /\ run.pc = "prompt" /\ runs < MaxRuns
  /\ runs' = runs + 1
  /\ UNCHANGED <<map, page_faults, root, active, run, spaces>>

Start(image) ==
  /\ run.pc = "prompt" /\ runs < MaxRuns
  /\ image.valid
  /\ runs' = runs + 1
  /\ run' = [pc |-> "create", image |-> image, info |-> elf_parse_image(image),
             id |-> NoAspace, at |-> 0, left |-> 0, calls |-> image.calls]
  /\ UNCHANGED <<map, page_faults, root, active, spaces>>

\* The loop variables of aspace_write or aspace_zero at its first pass.
Loop(pc, at, left) == [run EXCEPT !.pc = pc, !.at = at, !.left = left]

\* Both sizes are cut to 32 bits.
LoopWrite == Loop("write", run.info.first_vaddr, run.info.load_filesz % U32)
LoopBss == IF run.info.load_memsz > run.info.load_filesz
           THEN Loop("bss", run.info.first_vaddr + run.info.load_filesz,
                     (run.info.load_memsz - run.info.load_filesz) % U32)
           ELSE Loop("bss", 0, 0)
LoopStack == Loop("stack", StackTop - StackPages * PageUnits, StackPages * PageUnits)

\* aspace_create: a free slot and an id, then clone_kernel_root's four pages.
\* The pages it did get stay taken when a later one is refused, and so does
\* the id.
Create ==
  /\ run.pc = "create"
  /\ LET slot == HasFreeSlot(aspaces)
         got == IF slot THEN Min({4, FreePages(alloc)}) ELSE 0
         id == next_aspace_id
     IN /\ next_aspace_id' = IF slot THEN id + 1 ELSE id
        /\ alloc' = page_alloc(alloc, got)
        /\ IF got < 4
           THEN run' = NoRun /\ UNCHANGED <<aspaces, tables, user_pt>>
           ELSE /\ aspaces' = aspace_create(aspaces, id, "user")
                /\ tables' = With(tables, id, {Frame(alloc, k) : k \in 0..3})
                /\ user_pt' = With(user_pt, id, [p \in Pages |-> NULL])
                /\ run' = [LoopWrite EXCEPT !.id = id]
  /\ UNCHANGED <<map, page_faults, mem, root, active, runs>>

Release(id) ==
  /\ aspaces' = aspace_release(aspaces, id)
  /\ tables' = [a \in DOMAIN aspaces' \ {KernelAspace} |-> tables[a]]
  /\ user_pt' = [a \in DOMAIN aspaces' \ {KernelAspace} |-> user_pt[a]]

\* Mutant: the offset in the first page is forgotten.
Chunk_whole == Min({PageUnits, run.left})

Chunk == Min({PageUnits - (run.at % PageUnits), run.left})

InWindow == run.at >= UserBase /\ run.at < StackTop
Page == (run.at \div PageUnits) % WindowPages     \* pt_index

Present == user_pt[run.id][Page] # NULL

\* What run_sync's buffer, and the memory behind it, holds at place k.
ImageUnit(image, k) == IF k < image.size THEN k + 1 ELSE Stray

\* What aspace_write or aspace_zero leaves in the k-th unit of a chunk; the
\* former takes image + load_offset + (units already written) + k.
Copied(k) ==
  IF run.pc = "write"
  THEN ImageUnit(run.image,
         run.info.load_offset + ((run.info.load_filesz % U32) - run.left) + k) ELSE 0

\* One pass: ensure_user_page, which clears a new page, and the copy.
CopyPass ==
  LET frame == IF Present THEN user_pt[run.id][Page] ELSE Frame(alloc, 0)
      off == run.at % PageUnits
      old == IF Present THEN mem[frame] ELSE [u \in Units |-> 0]
  IN /\ run.pc \in {"write", "bss", "stack"} /\ run.left > 0
     /\ InWindow /\ (Present \/ FreePages(alloc) > 0)
     /\ alloc' = page_alloc(alloc, IF Present THEN 0 ELSE 1)
     /\ user_pt' = [user_pt EXCEPT ![run.id][Page] = frame]
     /\ mem' = With(mem, frame, [u \in Units |->
                  IF u >= off /\ u < off + Chunk THEN Copied(u - off) ELSE old[u]])
     /\ run' = [run EXCEPT !.at = @ + Chunk, !.left = @ - Chunk]
     /\ UNCHANGED <<map, page_faults, aspaces, next_aspace_id, tables, root, active, runs>>

\* Mutant: the error return forgets the address space.
FailedRelease_none(id) == UNCHANGED <<aspaces, tables, user_pt>>

FailedRelease(id) == Release(id)

\* ensure_user_page fails: outside the window, or no frame is left.
CopyFails ==
  /\ run.pc \in {"write", "bss", "stack"} /\ run.left > 0
  /\ ~InWindow \/ (~Present /\ FreePages(alloc) = 0)
  /\ FailedRelease(run.id)
  /\ run' = NoRun
  /\ UNCHANGED <<map, page_faults, alloc, next_aspace_id, mem, root, active, runs>>

\* The next of the three loops.
CopyDone ==
  /\ run.pc \in {"write", "bss", "stack"} /\ run.left = 0
  /\ \/ run.pc = "write" /\ run' = LoopBss
     \/ run.pc = "bss" /\ run' = LoopStack
     \/ run.pc = "stack" /\ run' = [run EXCEPT !.pc = "enter"]
  /\ UNCHANGED <<map, page_faults, root, active, runs, spaces>>

\* aspace_switch and usermode_run_entry_stack.
Enter ==
  /\ run.pc = "enter"
  /\ root' = aspace_switch(aspaces, root, run.id)
  /\ active' = TRUE
  /\ run' = [run EXCEPT !.pc = IF active THEN "back" ELSE "user"]
  /\ UNCHANGED <<map, page_faults, runs, spaces>>

\* What the program reads at an address of the window.
Seen(a) ==
  LET frame == user_pt[root][(a - UserBase) \div PageUnits]
  IN IF root \notin DOMAIN user_pt \/ frame = NULL THEN Unmapped
     ELSE mem[frame][a % PageUnits]

Runs(a) == a >= UserBase /\ a < StackTop /\ Seen(a) # Unmapped

\* Mutant: the exit call returns to the program like any other.
Leaves_never(call) == FALSE

Leaves(call) == call = 3

\* usermode_handle_syscall: 3 leaves for the kernel, the others answer in rax.
Syscall ==
  /\ run.pc = "user" /\ Runs(run.info.entry)
  /\ run.calls # <<>>
  /\ IF Leaves(Head(run.calls))
     THEN run' = [run EXCEPT !.pc = "back"] /\ active' = FALSE
     ELSE run' = [run EXCEPT !.calls = Tail(@)] /\ UNCHANGED active
  /\ UNCHANGED <<map, page_faults, root, runs, spaces>>

\* The program cannot be fetched: vector 14 counts the fault and returns to
\* the same instruction.
PageFault ==
  /\ run.pc = "user" /\ ~Runs(run.info.entry)
  /\ page_faults < MaxFaults
  /\ page_faults' = page_faults + 1
  /\ UNCHANGED <<map, root, active, run, runs, spaces>>

SwitchBack == aspace_switch(aspaces, root, KernelAspace)

\* Back in run_sync: the shell's space again, and the program's is released.
Leave ==
  /\ run.pc = "back"
  /\ root' = SwitchBack
  /\ Release(run.id)
  /\ run' = NoRun
  /\ UNCHANGED <<map, page_faults, alloc, next_aspace_id, mem, active, runs>>

Work == \/ Create \/ CopyPass \/ CopyFails \/ CopyDone
        \/ Enter \/ Syscall \/ PageFault \/ Leave

Next == Refuse \/ (\E image \in Images : Start(image)) \/ Work

Spec == Init /\ [][Next]_vars
FairSpec == Spec /\ WF_vars(Work)

-----------------------------------------------------------------------------
Frames == DOMAIN mem
Live(id) == {user_pt[id][p] : p \in Pages} \ {NULL}
Segments(image) == {image.segs[i] : i \in Loadable(image)}

\* The lowest loadable segment, the one the loader is to place.
IsLowest(image, seg) ==
  /\ seg \in Segments(image)
  /\ \A s \in Segments(image) : seg.vaddr <= s.vaddr

\* Types of the loader's state.
TypeOK ==
  /\ map \in Maps
  /\ {alloc.base, alloc.next, alloc.limit, alloc.used} \subseteq Nat
  /\ page_faults \in 0..MaxFaults
  /\ \A a \in DOMAIN aspaces : aspaces[a] \in AspaceRecord
  /\ DOMAIN tables = DOMAIN aspaces \ {KernelAspace}
  /\ DOMAIN user_pt = DOMAIN aspaces \ {KernelAspace}
  /\ \A f \in Frames : mem[f] \in [Units -> Int]
  /\ root \in DOMAIN aspaces /\ active \in BOOLEAN
  /\ run.pc \in {"prompt", "create", "write", "bss", "stack", "enter", "user", "back"}

\* The state is well formed, and every frame in use belongs to one table or one page of one space, lies
\* page-aligned inside a single usable region of the memory map at 2 MB or
\* above, and is below the pool's pointer, so it can never be handed out
\* again (page_alloc, ensure_user_page, clone_kernel_root).
FramesExclusive ==
  /\ TypeOK
  /\ LET InUse(id) == tables[id] \cup Live(id)
         all == (UNION {InUse(id) : id \in DOMAIN user_pt}) \cup Frames
     IN /\ \A id \in DOMAIN user_pt :
             /\ Cardinality(tables[id]) = 4
             /\ tables[id] \cap Live(id) = {}
             /\ \A p, q \in Pages : user_pt[id][p] = user_pt[id][q] =>
                   p = q \/ user_pt[id][p] = NULL
        /\ \A a, b \in DOMAIN user_pt : a # b => InUse(a) \cap InUse(b) = {}
        /\ \A f \in all :
             /\ f % PageUnits = 0 /\ f >= TwoMeg /\ f < alloc.next
             /\ \E i \in DOMAIN map :
                  /\ map[i].type = 1 /\ f >= map[i].base
                  /\ f + PageUnits <= map[i].base + map[i].length

\* The parser reports the lowest and the highest address of the loadable
\* segments whatever their order, and where that lowest segment lies in the
\* file.  An image with a segment at address 0 is outside it: elf.c uses 0
\* for "none yet".
ParseExact ==
  run.pc # "prompt" /\ (\A s \in Segments(run.image) : s.vaddr # 0) =>
    /\ Segments(run.image) # {} =>
         /\ \E s \in Segments(run.image) :
              /\ IsLowest(run.image, s) /\ run.info.first_vaddr = s.vaddr
              /\ run.info.load_offset = s.offset /\ run.info.load_filesz = s.filesz
         /\ run.info.last_vaddr = Max({s.vaddr + s.memsz : s \in Segments(run.image)})
    /\ Segments(run.image) = {} => run.info.load_memsz = 0

\* No size of the segment is cut to 32 bits.
Untruncated(info) ==
  /\ info.load_filesz < U32
  /\ info.load_memsz > info.load_filesz => info.load_memsz - info.load_filesz < U32

\* While a program whose sizes are below 2^32 runs, it sees exactly: its
\* stack cleared, the file's units of its segment in place (and the kernel's
\* stack where the segment is longer than the file), zeros in the rest of the
\* pages it touches, and nothing elsewhere in the window.
ImageInPlace ==
  run.pc = "user" /\ Untruncated(run.info) =>
    LET start == run.info.first_vaddr
        file(a) == a >= start /\ a < start + run.info.load_filesz
        size == Max({run.info.load_filesz, run.info.load_memsz})
        touched(a) == size > 0 /\ a \div PageUnits \in
                        (start \div PageUnits) .. ((start + size - 1) \div PageUnits)
    IN \A a \in UserBase .. StackTop - 1 :
         Seen(a) = CASE a >= StackTop - StackPages * PageUnits -> 0
                     [] a < StackTop - StackPages * PageUnits /\ file(a) ->
                          ImageUnit(run.image, run.info.load_offset + (a - start))
                     [] a < StackTop - StackPages * PageUnits /\ ~file(a) ->
                          IF touched(a) THEN 0 ELSE Unmapped

\* However a run ended (unreadable file, no slot, no frame half-way through
\* a loop, a segment leaving the window, or exit), the shell is back in the
\* kernel's space, no other space is left, and ring 3 may be entered again.
PromptClean ==
  run.pc = "prompt" =>
    /\ aspaces = aspace_init
    /\ root = KernelAspace
    /\ ~active

\* A run of an image that is entered inside its lowest segment, which the
\* file holds in full, and calls exit comes back to the shell.
WellFormed(image) ==
  /\ image.valid /\ \E i \in DOMAIN image.calls : image.calls[i] = 3
  /\ \E s \in Segments(image) :
       /\ IsLowest(image, s) /\ s.vaddr # 0
       /\ image.entry >= s.vaddr /\ image.entry < s.vaddr + s.filesz
       /\ s.filesz < U32 /\ s.offset + s.filesz <= image.size

RunReturns == (run.pc = "create" /\ WellFormed(run.image)) ~> (run.pc = "prompt")
=============================================================================

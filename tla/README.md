# BumbelBee: verification project

BumbelBee is a small x86-64 teaching kernel: one CPU, a cooperative scheduler,
a shell on slot 0, a loopback network exposed as files, an ATA-backed store for
trace sessions, and deterministic recording and replay of built-in workloads.
This directory holds TLA+ models of its core, the TLC runs that check them on
small instances and TLAPS proofs for every size of the tables.

## 1. Inventory

| part | state | operations | talks to |
|---|---|---|---|
| scheduler, `kernel/sched.c` | task table (8 slots), current task, next pid, resched flag | spawn, yield, exit, tick, prepare_replay, state queries | aspace (retain, release, switch), trace (events, forced order in replay) |
| address spaces, `kernel/aspace.c` | table of 16 entries with kind, page root, reference count | create, fork_clone, retain, release, switch, write, zero | memory (pages) |
| workloads, `kernel/workload.c` | `active_workloads` | attack_sim, sysload, lifecycle_test, run_profile | sched, trace |
| launcher, `kernel/builtin_exec.c` | two job tables of 4 entries | spawn (execve), run_sync (ring 3) | sched, aspace, elf, fs, usermode |
| system calls, `kernel/syscall.c` | none | fork, execve, waitpid, open/read/write/close | sched, builtin_exec, vfs |
| shell, `kernel/shell.c` | the line being typed | about 60 commands; yields after each and while idle | everything |
| netfs, `kernel/netfs.c` | TX and RX rings of 32 packets, statistics | write to /net/tx, /net/rx/inject, /net/config/loopback; flush; timer flush | power, trace |
| power, `kernel/power.c` | mode, ticks since flush, coalescing buffer, statistics | set_mode, tick hook, keyboard_char | netfs, keyboard |
| filesystem, `kernel/fs.c` | superblock and inode table, in memory and on disk | init, format, seed executables, write/read trace sessions | ata |
| disk, `kernel/ata.c` | ready flag | init, read28, write28 | hardware |
| trace, `kernel/trace.c` | event buffer, sessions, replay cursor | record, start, stop, replay begin/expected/end | fs, sched, called from interrupts |
| keyboard, `kernel/keyboard.c` | character ring, shift and prefix state | interrupt handler, getchar | power, console (page keys), shell |
| mouse, `kernel/mouse.c` | packet being assembled, position, buttons | init (polling), interrupt handler | interrupts |
| console, `kernel/console.c` | ring of 512 log lines, viewport, mode | putc, clear, set_gui, scroll | called by everybody; scrolled from the keyboard interrupt |
| vfs, `kernel/vfs.c` | 32 descriptors with offsets | open, read, write, close | fs, netfs, sched, builtin_exec |
| memory, `kernel/memory.c` | a pool of pages and a pointer into it | init from the e820 map, page_alloc | aspace |
| ELF parser `kernel/elf.c`, user mode `kernel/usermode.c` | none; an active flag | parse_image; enter, system call, leave | builtin_exec, interrupts |
| interrupts, `kernel/interrupts.c` | counters | one dispatcher for all vectors | trace, keyboard, mouse, power, memory, usermode |
| timer, CPU set-up, boot | tick count | no decisions | |

Hard behaviour. Tasks switch only in `sched_yield` and `task_exit`, so task code
does not interleave with task code, but the timer interrupt runs
`power_tick_hook` -> `netfs_power_tick` -> `flush_tx_queue` between any two
instructions, on the same queue the shell is working on. Spawns fail when the
table is full, after other things (a counter, a job entry, a reference) have been
taken. Zombies stay until their slot is needed. The disk may fail or lose power
between two sectors. The page keys redraw the screen from the keyboard interrupt
while a task is drawing it, and every interrupt is recorded in the trace buffer a
task may just be writing to. A file has no stored text: each read renders it again.
`PROJECT.json` lists each of these hazards at its line.

What makes each part correct:

* scheduler: exactly one running task, round robin without overtaking, every
  task finishes, references and slots balance, pids identify tasks;
* launcher and workloads: nothing taken is lost and nothing is shared;
* netfs: queues are exact and in order, statistics agree, queued packets leave;
* filesystem: no two files share a sector, files read back, sessions survive;
* replay: the replayed run is the recorded one, and every replay ends with a
  verdict;
* keyboard: each key press is read once, in order, with its shift state;
* trace recorder: a recording holds the events made, in order, or says how many
  are missing;
* vfs: consecutive reads deliver consecutive pieces, no descriptor is leaked;
* console: finished lines stay, the screen shows what the viewport says;
* loader: a program sees its image and nothing else, no frame has two owners, and
  every failure leaves the kernel as it was;
* mouse: the pointer is where the movements took it.

## 2. Modules

| module | models | composition |
|---|---|---|
| `Aspace` | the address-space table as a value with its operations | |
| `TaskTable` | the slots of the task table, which are free and which task is next | |
| `Sched` | scheduler, shell command loop, fork, waitpid, execve, run_sync, workloads | extends `Aspace`, `TaskTable` |
| `Fifo` | what the transmit queue promises (abstract) | |
| `Net` | netfs, transmit batching of power.c, timer interrupt | implements `Fifo` |
| `Fs` | fs.c over ata.c with power loss and disk errors | |
| `Vfs` | descriptors and the shell commands that use them | extends `Fs`: its files are read back while sessions are saved |
| `Replay` | trace recording, sessions, replay, and the forced choice of the next task | extends `TaskTable` |
| `Keyboard` | PS/2 controller, decoder, coalescing queue of power.c, character ring, shell reading | |
| `Scrollback` | what the console's history promises (abstract) | |
| `Console` | log ring, wrapping, viewport, drawing, page keys | implements `Scrollback` |
| `Loader` | run /bin/ring3demo: memory.c, elf.c, page tables, ring 3 and back | extends `Aspace` |
| `Recorder` | each load and store of trace_record and trace_start_profile | |
| `Mouse` | start-up of the mouse, packets | |
| `Isr` | isr_dispatch over the two | extends `Recorder`, `Mouse` |
| `SchedProofs`, `NetProofs`, `FsProofs`, `ReplayProofs`, `TerminalProofs`, `LoaderProofs`, `IsrProofs` | the theorems (section 4) | each extends its module (`FsProofs`: `Vfs` and with it `Fs`; `TerminalProofs`: `Console` and `Keyboard`), all but the first `Lemmas` too |
| `Lemmas` | facts the proofs share | |
| `MCSched`, `MCNet`, `MCFs`, `MCVfs`, `MCReplay`, `MCKeyboard`, `MCConsole`, `MCLoader`, `MCIsr` | values of the constants for TLC | extend the above |

### Sched

Variables carry the code's names (`tasks`, `current_task`, `next_pid`,
`resched_pending`, `active_workloads`). `aspaces` is `aspace_table`, `cr3` the
loaded root identified with its address space, `jobs` the taken job entries.
The shell's control point is `shell`, with `loop` and `target` its locals. A task's
entry function is a loop of `left` yields followed by its last statements.
A stretch of task code between two switches is one action: the timer interrupt
changes only `resched_pending` of this state, and nobody reads that.
`failed` is a history variable that counts spawns failing after something had
been reserved. Left out: statistics, names, parents, and replay's forced choice.
`run <path>` is `Execve` followed by `Waitpid`, or `StartSpin` or `RunUser`.

### Net

The calls of a task are cut, up to the end of an enqueue, at every load and store of
`tx_head`, `tx_count` and the pending counters that a flush can make stale (the two loads of
the free slot in netfs.c:119 and the load of the arguments in netfs.c:130 among them), and in a
flush also around the transmission, the pop and the receive queue; `pc` says where the
call stands and `loc` holds its locals. A step with several accesses counts as its first. The timer
interrupt (`Tick`) runs its flush whole because the interrupt gate keeps interrupts off.
`Windows` is the set of control points at which an interrupt is taken: all of `Places`
in the kernel. The passing run uses `Harmless`; with any one of the other eleven added,
TLC finds `RingIsFifo` or `QueuesExact` violated on the same bounds. Packet ids, lengths, the byte
counters and the counters of transmissions are left out: no decision reads them, and nothing
is claimed about what an interrupt does to their updates.

`Fifo` is the queue a user of /net/tx expects: packets arrive at one end and leave at
the other, one or several at a time. `RingIsFifo` maps its `queue` to the part of the
ring that waits: inside flush_tx_queue a packet that was already sent is still in the
ring until its pop is complete, which `Waiting` takes off. `arrived` and `sent` are the
history of what was accepted and of what went out.

### Fs

Every sector written is a step. `CrashAt` and `FailAt` are the control points at
which power may fail and at which the driver may report an error (the sector
having been written or not). The passing run uses the largest sets for which the
properties hold: a crash during the two flushes of booting or saving, a crash or an
error during a format that follows a read error (the place `again`: the new
superblock is on the disk and the old inode table behind it), and an error in the
flushes of saving or in booting's flush of the superblock are the ones that break
something. A file is a number and a sector one
part of it, so that a sector overwritten or out of order shows. Sizes are in units of
which a sector holds a few: an empty session takes a sector, and a last sector may be
partly filled. `stored` forgets the sessions when a read error at boot makes fs_init
format the disk.

### Vfs

`fd_table` and the functions have the code's names. The text of a node is a sequence
of labelled pieces, computed by `Text` from the state as each read finds it: sessions,
metadata, the index and the programs come from the variables of `Fs`, "live" stands for
the nodes that change by themselves, with a text that changes its length. A read
may fail (`ReadFails`). `cat` is a loop of steps between which sessions cannot be saved
(one shell) but live nodes change; descriptors opened with `open` stay open while
sessions are saved. `got`, `stale` and `held` are history: what a descriptor delivered,
which ones met a change they cannot notice, which ones the user has.

### Console

`console_putc` is cut where a page key can make a difference: in a drawing between the choice
of the first line, the frame, each row, the choice of the cursor's place and its move. The
interrupt draws the whole screen in one step. `screen` is what the rows show, where the
cursor is and which offset the frame was drawn for. `row` and `col` are shared with the
interrupt, and the cursor moves in two halves: `loc.at` is the set of places a
move may end at, `Astray` standing for half of one place and half of another. `torn` is
history: a page key came while the frame or the rows were being drawn, or between the choice
of the cursor's place and the end of its move. Characters are numbers of calls, so that a line that
moved or was overwritten
shows. `Scrollback` is a list of lines whose last one is edited; `KeepsHistory` maps it to
the ring read from `log_start` on.

### Loader

The variables are the statics of memory.c, the table of spaces (the operators of
`Aspace`, which `Sched` uses too), the user page table of each space, the frames' contents,
the loaded root, and the locals of builtin_exec_run_sync. A copying loop is one action
per pass. `elf_parse_image` scans the program headers one after another, compared by
`ParseExact` with the definition of the lowest segment. What the program sees (`Seen`) is the
address translation, external. A program is the system calls it makes. The file is read into a
buffer of 256 bytes on the stack, and neither elf.c nor run_sync compares a segment's
offset and size with what was read: `Copied` takes `Stray` (the kernel's stack) where the
segment goes beyond the file. Sizes are cut to 32 bits where they are passed on (`% U32`).
Left out are a file longer than the buffer, which fs.c would write over the stack behind it, and
segments that leave the memory mapped behind the buffer (`Mapped`), where the kernel
would fault.

### Recorder, Mouse, Isr

The kernel is built without optimisation (`Makefile`, `CFLAGS`), so the statics of
trace.c are loaded and stored where the text names them; `task.pc` says where a task's
trace_record or trace_start_profile stands and `task.reg` holds what it has loaded. The
interrupt gates keep interrupts off, so a handler's calls of trace_record are one step. The timer's
handler makes more than the dispatcher's: its flush records NET and POWER events
(`Flushes`), which a profile does not filter. `hist` holds
the calls accepted, how many interrupts recorded inside a task's trace_record (`raced`)
and how many while a recording was being started (`early`).
`Mouse` has the controller's port as one queue for keyboard, mouse and answers: mouse_init
polls it before interrupts are on. `Isr` joins the two: each vector records, then
handles.

### Replay

Trace, scheduler and workloads together, as demo record and demo replay use them.
`trace` is the module state of trace.c (recording flag, profile, buffer, replay
cursor), `store` the sessions on disk, `sessions` the list of trace list, `used` the
memory in use, which sysload records, `packets` the number of packets that wait in the transmit
queue. An event is its pid, type and two words; times,
hashes and ids are left out, as are address spaces, jobs and waitpid, which write no
events. `trace_record` is one step; its parts are in `Recorder`. Interrupts come between
any two steps. A profile's recording ignores their IRQ events, but not a key's character and
not the NET and POWER events of a timer interrupt that flushes waiting packets (netfs.c:98 and
104, power.c:143); during a replay the dispatcher drops every interrupt before it is handled,
so no replay makes such events and a recording with one in it is not clean. `Send` is a
command that queues packets or sends them. `mark` notes how a recording began and
whether anything foreign got in, and `promise` what a replay of it should do: match,
come to an end, or nothing. After a switch to a slot outside the table or without
a task nothing more is defined, and the model stops there; `MCReplay*.cfg`
therefore switch the deadlock check off.

### Keyboard

`port` and `irq` are the controller (external): it requests an interrupt when a byte
reaches the empty port and again when one is read and another waits. Handlers
are single steps. `keyboard_getchar` is two: it stores `tail` and then loads the character
(keyboard.c:105), and an interrupt may come between (`taking`). A character is the number of its key
press and one bit for the
shifted map. `head` and `tail` wrap at `Wrap`, which stands for 2^32; `MaxWaiting`
keeps fewer unread characters than that. `overtaken` and `overrun` are history: a
character passed the queue, the ring was written when full or, which the code's test does not
see, where a character is just being loaded. The keys that send shift
codes of their own (the grey cursor block with Num Lock) are left out.

### Mutants

Beside some definitions stands one whose comment begins with "Mutant": the same
definition with a plausible slip. No specification uses it; each is there to show
that a property notices the slip when it takes the definition's place.

## 3. Runs

| run | shows | states |
|---|---|---|
| `sched_safety` | ten properties over all orders of commands, with a table of 4 slots that fills up; the last two are liveness: tasks finish, waitpid and demo record return (the latter unless a spawn failed) | 100,570 |
| `net_safety` | the transmit ring implements `Fifo`, the receive queue and statistics are exact, never full, drained outside performance mode | 219,529 |
| `net_race` | violation: the timer flush inside a task's flush sends twice | |
| `fs_safety` | consistent metadata, readable files, sessions survive | 340,783 |
| `fs_crash` | violation: power loss between the two flushes | |
| `vfs` | pieces in order, no descriptor leaked, cat prints the whole node and ends | 377,224 |
| `replay_safety` | a quiet replay of a clean recording gives the recorded events, follows round robin and ends; sessions and their list are whole | 215,929 |
| `replay_diverges` | violation: a diverged sysload replay switches to the slot numbered by a memory size and never reports | |
| `keyboard_safety` | characters exact, in order, once, and all of them read in the end | 1,498,508 |
| `console` | the log implements `Scrollback`, the screen shows it, PageUp reaches all of it | 1,833,023 |
| `loader` | frames exclusive, headers parsed exactly, image in place (sizes below 2^32), every failure clean, runs return | 76,690 |
| `isr` | recordings exact or the loss bounded, profiles without IRQ events, mouse configured and followed | 5,384,969 |

Each module has a type invariant; outside `Sched` it is the first conjunct of one of the
invariants above (`QueuesExact`, `MetadataConsistent`, `FdsAccounted`, `StoreExact`,
`KeysExact`, `ScreenFaithful`, `FramesExclusive`, `RecordingExact`, `MouseTracks`).

Bounds. `MaxTasks = 4` leaves three slots beside the shell: one profile fills
them, so spawns fail, slots are reused and round robin has something to order.
`JobsMax = 2` lets two programs compete and a pool run out. `MaxPid` bounds the
tasks ever created to four, or more when demo record restarts the pids: enough for
a slot to be reused. `MaxAspace` allows two
visits to ring 3. In `Net`, `Cap = 3` with limits 1, 2, 3 keeps the order of the
code's 1, 4, 16 of 32 and puts the largest limit at the capacity, the tightest case
the assumption allows; four writes wrap both rings. In `Fs`, two table sectors of
two inodes, seven data sectors, two executables and three saves of one to three
sectors exhaust inodes and sectors, over three boots. `MCFs*.cfg` and the configurations
of `Vfs`, `Console`, `Loader` and `Isr` switch the deadlock check off because these
bounds end every behaviour.
In `Replay`, three slots beside the shell, a buffer of 13 events (a profile
recorded alone needs at most 11, and longer recordings fill the buffer), two
sessions, three commands and one waiting packet cover record, something in between, and replay.
In `Keyboard`, a ring and a queue of two, counters that wrap at four, four
characters, two other keys, one mode switch and one replay make each limit bite.
In `Vfs`, two descriptors, chunks of two units, a scratch buffer of five units (a session of
seven does not fit), two sessions, one change of the live nodes and one restart: a text takes up to
three reads and the table fills up. In `Console`, a ring of five lines with windows of
2 x 4 and 3 x 5 characters, eight characters and two resets: the ring wraps, lines wrap,
and the log is shorter and longer than both windows. In `Loader`, four memory maps
(from 1 MB, unaligned, the largest in the middle, none) and twelve images (as seeded, bss, several
headers out of order, into the stack, out of the window, a segment at 0, bss only, none,
longer than the file, a file size and a bss above 2^32, invalid) in four runs, which use up the
smaller maps; files have four units and 2^32 is 16. In `Isr`, a buffer of two events, four
calls, two recordings, two packets of the mouse, one lost byte and one key during the start,
timer interrupts with and without a flush; where
there is a mouse one call and one recording, since it shares only the recorder's state.

Fairness. `Sched`: weak fairness of the CPU's own steps (the CPU executes), none
of the user's commands; strong fairness of `WaitTimeout`, because the tick count
passes the timeout for good, so each later poll finds it passed. `Net`: weak
fairness of the call in progress and of the timer. `Replay`: weak fairness of the
CPU's steps. `Vfs`, `Loader`: weak fairness of the command that is running. `Keyboard`: weak
fairness of both interrupts and of the shell's
reading, and replays end.

What the violations mean is in `PROJECT.json` under "findings", each with the
sentence of the documentation it contradicts.

Further observations bound what the passing properties say; in each case the property
excludes the case by a named condition.

* Workloads: after a workload spawn that failed in a full table the counter stays
  raised and the next demo record never returns (`CommandsReturn` assumes none failed).
* Network: in performance mode nothing flushes packets queued before the switch
  (`QueueDrains` is about the other modes). netfs.c:119 loads `tx_head` and `tx_count` one after
  the other, and netfs.c:130 the arguments before power.c:147 stores them: a flush between the first
  two puts the packet behind a stale slot, one before the store leaves pending counts over an empty
  queue (`Windows \subseteq Harmless`).
* Filesystem: one read error at boot formats the disk (`SessionsPersist` starts anew);
  power loss during that format leaves old inodes under a new superblock.
* Keyboard: a character typed right after the switch to performance mode enters the
  ring before those in the coalescing queue (`overtaken`). A key pressed during a replay
  is acknowledged but not taken from the controller, which sends no more
  (`KeysDelivered` is about behaviours without a replay). keyboard.c:105 frees a slot of the ring
  before it loads the character: with the ring full otherwise, a key interrupt in between
  overwrites that character, and the new one is read twice (`overrun`).
* Trace: a second `trace stop` saves the buffer again and replaces the list entry of the
  first; a stop before the first start writes to `sessions[-1]`. An interrupt inside a
  task's trace_record costs or tears an event and can write one event past the buffer
  (`raced`); one while a profile's recording is being started gets into it (`early`). If packets
  wait when a profile is recorded, the timer's flush puts NET and POWER events into the
  recording (trace.c:78 filters IRQ events only), and its replay diverges there, since a replay
  drops timer interrupts; `mark.clean` and the promise exclude it.
* Vfs: a session larger than 1024 bytes cannot be read with cat; a program's entry
  changes its length after a read error (`stale`). `traceview` has a buffer of 128 events for
  sessions of up to 4096. A text that reaches the scratch buffer's end would be cut in the middle of a
  piece; the code's constants keep every text below it.
* Console: the mark of a wrapped line overwrites its last character; a page key while
  rows are drawn leaves them mixed until the next output, and one between the choice of the
  cursor's place and its move (console.c:219-231) leaves the cursor of the other offset or half
  of each (`torn`).
* Loader: a segment that goes beyond the file is filled with what follows the 256-byte buffer on the
  kernel's stack (builtin_exec.c:474, 494), and sizes of 2^32 or more are cut to 32 bits
  (494-496; `ImageInPlace` is about smaller ones). A segment at address 0 is not seen as the lowest;
  an entry outside the loaded
  pages faults for ever, because the handler only counts; memory.c may choose a region
  above the first gigabyte, the only one the boot loader maps.
* Mouse: after a lost byte the packets are never synchronised again; movements beyond a
  signed byte turn round; a key pressed while the kernel starts overwrites the controller's
  configuration (and the mouse is then reported absent).

## 4. Proofs

| module | theorems |
|---|---|
| `Lemmas` | what several proofs rest on: induction, recursive functions, ring arithmetic, sequences of mixed elements |
| `SchedProofs` | `Invariance`, `TypeCorrect`, `ExactlyOneRuns`, `SpacesCorrect`, `JobsCorrect`, `WorkloadsCounted`, `WaitTargetStays`, `RoundRobin`, `PidsAreUnique` |
| `NetProofs` | `IndicesInRange`, `QueuesCorrect`, `NeverFullHolds`, `RingImplementsFifo` |
| `FsProofs` | of `Fs`: `ExtentsOnDisk`, `MetadataHolds`, `ContentsHold`, `SessionsSurvive`; of `Vfs`: `NoDescriptorLeaks`, `ReadsContinue`, `CatPrintsAll` |
| `ReplayProofs` | `StoreIsExact`, `ReplayMatches`, `ForcedChoiceIsFair` |
| `TerminalProofs` | of `Console`: `ScreenIsFaithful`, `EveryLineReachable`, `ImplementsScrollback`; of `Keyboard`: `KeysAccounted` |
| `LoaderProofs` | `FramesAreExclusive`, `PromptIsClean`, `ParserIsExact`, `ImageIsInPlace` |
| `IsrProofs` | `RecordingCorrect`, `LossIsBounded`, `ProfileIsFiltered`, `PresentIsConfigured`, `MouseFollows` |

Each holds for every value of the constants that the `ASSUME` of its module allows: any
number of slots, packets, inodes, sectors, events, sessions, lines, pages, keys and calls, so the
bounds of
section 3 play no part. Each module has one inductive invariant, one lemma per action that
shows the action keeps it, and the theorems as consequences. The invariants were
checked by TLC on the instances of section 3 before they were proved (that of `Replay` with
`Ran` as a finite enumeration of the run, since its quantifier ranges over all sets).

### Hypotheses

* `NetAssumption`: each batch limit is at most the capacity of the ring (1, 4, 16 of 32,
  `power.c` and `netfs.c`), and the counters wrap above it. The exactness of the queues,
  `NeverFull` and the refinement also have the hypothesis `Windows \subseteq Harmless`:
  the timer interrupt comes neither between the loads and the stores of an enqueue that a flush
  makes stale, nor inside a flush with packets to send. Without it they are false, as `net_race`
  shows; the types
  (`IndicesInRange`) hold wherever the interrupt comes.
* `FsAssumption` is about types only. `MetadataHolds`, `ContentsHold` and `SessionsSurvive`
  have the hypothesis `Harmless` (`CrashAt \subseteq SafeCrashes`, `FailAt \subseteq SafeErrors`):
  power may fail and disk accesses may go wrong except at the table flushes, where
  `fs_crash` shows the harm; `ExtentsOnDisk` has no such hypothesis.
* `VfsAssumption`: the scratch buffer holds the metadata of a session, a program's entry or a
  live node whole (four units of text; `VFS_SCRATCH_MAX` in `vfs.c`). `ReadsContinue` and
  `CatPrintsAll` have the hypothesis of `MetadataHolds`, since they read the files back;
  `NoDescriptorLeaks` has none.
* `ReplayAssumption` is about types only. That a recording was made alone and is replayed alone
  is not a hypothesis of the theorems: `promise` says so in the state, and the invariants hold
  of every behaviour, with other recordings, commands and interrupts before, between and after.
* `KeyboardAssumption`: the ring size divides the range of its counters (a power of two
  divides 2^32), fewer characters are unread than the counters can tell apart, and the
  battery saver has the longest flush interval (1, 3 and 12 ticks in `power.c`).
* `ConsoleAssumption`: a window is narrower than a line of the log and wider than the
  wrapping mark, and a page is not higher than a window.
* `LoaderAssumption`: two megabytes are whole pages, the user window is aligned to its own
  size, the stack is smaller than the window, the file fits the image buffer and its segments lie in
  the memory mapped from there on (`Mapped`). `ImageIsInPlace` is about segments whose sizes are
  below 2^32. Maps and images are any sequences of regions
  and headers. Addresses are natural numbers: sums that pass 2^64 are outside
  the model and the proofs.
* `PresentIsConfigured` and `MouseFollows` have the hypothesis `Distinct`: the controller's
  configuration byte and the code of the key pressed during the start are not the byte that
  acknowledges a command (0xFA), which mouse_init could not tell from an answer.

### The inductive invariants and why they are needed

* `IndInv` (`Sched`) adds `Shape` to the properties: the shell stays in slot 0 with pid 1 and
  is live, tasks live in the kernel's space, the spawn loop stays below the pid bound, only
  the shell enters ring 3 and then it is the current task, and address-space ids are
  fresh. Task exit finds a successor because the shell is ready whenever another task runs;
  releasing a task's space cannot free the kernel's because the count is one more than the
  live workers; a job entry is free to take only if no live task has it. Lemmas on spawning
  (`SpawnAspaceEffect`, `SpawnParentEffect`), switching and exiting (`ExitEffect`) state
  what a helper does to the table once, and `SpawnStep` and `IdleStep` carry the counts
  through all actions that spawn or that leave the table's tasks alone. `PidsUnique` is
  proved as an action property: distinct pids at boot, kept by every step
  that does not restart them.
* `NetInv` says what a call in progress has loaded is still true where it is used: the slot an
  enqueue chose is the first free one although a flush may have emptied the queue in
  between, and inside a flush the popped packet is counted once. `RingImplementsFifo` shows
  that every step is a stutter of `Fifo` except the store that completes an enqueue, the
  transmission of a packet and the timer's flush, which sends the whole queue. What that
  flush leaves in the receive queue is an induction on the packets looped back.
* `FsInv` relates three copies of the tables: the disk by itself is sound (`DiskInv`), an
  interrupted format leaves nothing behind (`FormatInv`), the tables in memory contain those
  on the disk and how far each flush has got (`MemoryInv`), and the session being saved
  lies above everything else (`SaveInv`).
* `VfsInv` is `FsInv` and three parts more. `FdInv`: a free entry is as vfs_close left it, an open
  one has a node that can be rendered, offsets stay in the scratch buffer. `TableInv`: used
  inodes come before free ones, in memory and on the disk, through booting, flushing and
  saving, and a session has the sectors its size calls for. `ReadInv`: what was read is the
  beginning of the text as it would be rendered now, and nothing is open while the kernel
  boots. A saved session is a new inode behind all the others with a number no session has
  and sectors above every file, so the index is continued at its end (`IndexText` is an
  induction over the inodes), and every other text stays; that the index is cut at the end
  of the scratch buffer does not change what was read before.
* `ReplayInv` (`Replay`) compares the kernel with a machine: a profile that has the table to
  itself, whose configuration (table, running task, counter, events so far) has one successor
  (`Step`). `RecordInv`: a clean recording is a run of that machine so far. `BufferInv` and
  `StoreInv`: what is left in the buffer, and each clean session, is a run to the end. `MatchInv`:
  a replay that should match is in the configuration the recorded run had after as many events.
  The two runs are compared through the machine because nothing else relates a session on
  disk to the tasks that made it. The machine is deterministic, so the event it makes next is the
  next one of the recording (`trace_record` finds no mismatch), that event names round robin's
  choice, and when the machine is done the recording is used up. `Ran` states that a
  configuration is reached as membership in every set that holds the first one and is closed under
  `Step`: lemmas about runs choose the set. `KernelInv` adds that the shell can always
  run and that the live workers are at most `active_workloads` (counted exactly in the machine),
  so the shell does not stop draining while a worker is alive. It is bounded from below only,
  because workload spawns that fail leave the counter raised; such a recording is not clean.
* `KeyInv` describes one sequence of characters that runs through `read`, the ring, the queue
  and the port (`CharAt`), and a function that follows the shift state along the bytes still in
  the port (`Shifts`): without it the shift state of a character not yet decoded would be
  unknown.
* `ConsoleInv` says how many rows of a drawing are on the screen and that the start line, and later
  the cursor's place, that a drawing has chosen are still those of the viewport, unless a page
  key intervened.
  `EveryLineReachable` follows from the bounds on the viewport, and the refinement from
  what advancing the ring's start does to the lines read from it.
* `LoaderInv` is `PoolInv` (each frame handed out lies in a usable region below the
  allocator's pointer), `RunInv` (one user space during a run, its pages and tables in distinct
  frames) and `ImageInv` (how far the copying has got). `ParserIsExact` is an induction
  over the headers with a loop invariant for the lowest and the highest segment so far.
* `RecorderInv` counts the events that are neither in the buffer nor counted as dropped, at
  each load and store of trace_record: an interrupt between a load and its store
  adds at most one. `MouseInv` says what the queue of the controller may hold at each step
  of mouse_init, and that bytes and packet state together are whole packets afterwards.

### Induction

The library's induction theorems take an operator as a parameter, which the provers
cannot instantiate. `Lemmas` states induction about sets instead: a set of naturals that holds
0 and the successor of each member below n holds n (`SetInduction`), and a proof
instantiates it with the set of numbers that have the property. `RecursionExists` does the same
for functions defined by recursion over an interval. For this reason loops that are one step of the
model (the
packets a flush loops back in `Net`, the headers and the memory map in `Loader`, the inodes listed
in `Vfs`) and
`Mouse`'s reference for the pointer are recursive functions over the number of passes.

### Checked with TLC only

Liveness (`TasksFinish`, `CommandsReturn`, `QueueDrains`, `QuietReplayReturns`,
`KeysDelivered`, `CatEnds`, `RunReturns`): fairness and ENABLED are outside the prover. Every
other property of a passing run (invariants, action properties, refinements) is the statement of a
theorem above.

## 5. Plan

Each part of section 1 that decides anything has its module, its run and its theorems. What
would come next is more of the shell: `traceview` with its own buffer, and the
commands that only print, as readers of the state the other modules change.

## 6. Not modelled

Boot code and CPU set-up (gdt, idt, pic, apic, cpuid, smp) run once, and one CPU is
online. Formatting and string helpers, serial output, the manual text, the counters in the
console's frame and the commands that only print have no state to check.
`sched_task_set_aspace` and `sched_wait_until_idle` have no caller. The register protocols of
the disk, the timer and the controllers are hardware I/O; the models have their effects.
Page tables above the user's own are counted in `Loader` but their entries are not followed.

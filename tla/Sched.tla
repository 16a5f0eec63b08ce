------------------------------- MODULE Sched -------------------------------
(***************************************************************************)
(* The cooperative scheduler of kernel/sched.c with everything that        *)
(* creates, runs and ends a task: the shell (slot 0), fork and waitpid of  *)
(* kernel/syscall.c, the program launcher of kernel/builtin_exec.c and the *)
(* workload profiles of kernel/workload.c, over the address-space table of *)
(* kernel/aspace.c.                                                        *)
(*                                                                         *)
(* Tasks give up the CPU only in sched_yield and task_exit.  The timer     *)
(* interrupt can arrive anywhere, but of this state sched_tick changes     *)
(* only resched_pending, so a stretch of task code between two switches is *)
(* one atomic action.  The code's per-task counters (cpu_ticks, yields,    *)
(* event_count), names, exec paths and parents are statistics that no      *)
(* decision reads and are left out.  Replay's forced choice of the next    *)
(* task is not part of this module.                                        *)
(***************************************************************************)
EXTENDS Aspace, TaskTable

CONSTANTS
  JobsMax,       \* PING_JOBS_MAX and GENERIC_JOBS_MAX (both 4 in the code)
  YieldsOf,      \* how often each entry function yields before it returns
  Profiles,      \* the workload profiles the user may start
  Demos,         \* the profiles the user may give to demo record
  Programs,      \* the /bin programs the user may execve
  MaxPid,        \* bound on next_pid: no task is created beyond it
  MaxAspace,     \* bound on next_aspace: no address space beyond it
  MaxFailed      \* bound on failed workload spawns: no profile starts beyond it

Pools == {"ping", "generic"}
WorkloadEntries == {"attack", "sysload", "lifecycle"}
ProgramEntries == {"ping", "ps", "netstat"}
Entries == WorkloadEntries \cup ProgramEntries \cup {"fork", "shell"}

ASSUME SchedAssumption ==
  /\ MaxTasks \in Nat \ {0, 1}
  /\ JobsMax \in Nat \ {0}
  /\ YieldsOf \in [Entries -> Nat]
  /\ Profiles \subseteq WorkloadEntries
  /\ Demos \subseteq WorkloadEntries
  /\ Programs \subseteq ProgramEntries
  /\ MaxPid \in Nat \ {0}
  /\ MaxAspace \in Nat
  /\ MaxFailed \in Nat

VARIABLES
  tasks,             \* the task table
  current_task,      \* the slot whose code runs
  next_pid,
  resched_pending,   \* set by the timer, read by nobody
  aspaces,           \* aspace_table
  next_aspace,       \* next_aspace_id
  cr3,               \* id of the space whose page root is loaded
  jobs,              \* the used entries of ping_jobs and of generic_jobs
  active_workloads,
  shell,             \* where the shell's code stands
  loop,              \* iterations left in the shell's loop
  target,            \* the pid sys_waitpid polls, 0 outside it
  profile,           \* the profile whose workers are being spawned
  failed             \* history: spawns that failed, by what they had reserved

vars == <<tasks, current_task, next_pid, resched_pending, aspaces, next_aspace,
          cr3, jobs, active_workloads, shell, loop, target, profile, failed>>

EmptySlot == [state |-> "empty", pid |-> 0, aspace |-> NoAspace,
              entry |-> "fork", job |-> 0, left |-> 0]

TaskRecord == [state : {"empty", "ready", "running", "zombie"},
               pid : 0 .. MaxPid, aspace : {NoAspace, KernelAspace},
               entry : Entries, job : 0 .. JobsMax, left : Nat]

IsLive(t) == t.state \in {"ready", "running"}

-----------------------------------------------------------------------------
(* Operations of sched.c on the value of the task table.                    *)

\* sched_spawn_with_parent_aspace: first free slot, one more reference.
sched_spawn_with_parent_aspace(ts, tbl, pid, entry, job, a) ==
  IF FreeSlots(ts) = {} \/ a \notin DOMAIN tbl
  THEN [ok |-> FALSE, tasks |-> ts, aspaces |-> tbl, next_pid |-> pid]
  ELSE [ok |-> TRUE,
        tasks |-> [ts EXCEPT ![Min(FreeSlots(ts))] =
                     [state |-> "ready", pid |-> pid, aspace |-> a,
                      entry |-> entry, job |-> job, left |-> YieldsOf[entry]]],
        aspaces |-> aspace_retain(tbl, a),
        next_pid |-> pid + 1]

\* Mutant: the clone's reference is dropped only if the spawn worked.
sched_spawn_with_parent_leaky(ts, tbl, pid, entry, parent) ==
  LET c == aspace_fork_clone(tbl, next_aspace, ts[parent].aspace)
      r == sched_spawn_with_parent_aspace(ts, c.tbl, pid, entry, 0, c.id)
  IN IF r.ok THEN [r EXCEPT !.aspaces = aspace_release(r.aspaces, c.id)] ELSE r

\* Mutant: next_pid stays as it is.
sched_spawn_with_parent_same_pid(ts, tbl, pid, entry, parent) ==
  LET c == aspace_fork_clone(tbl, next_aspace, ts[parent].aspace)
      r == sched_spawn_with_parent_aspace(ts, c.tbl, pid, entry, 0, c.id)
  IN [r EXCEPT !.aspaces = aspace_release(r.aspaces, c.id), !.next_pid = pid]

\* sched_spawn, sched_spawn_with_parent: clone, spawn, drop the clone's
\* own reference whether or not the spawn worked.
sched_spawn_with_parent(ts, tbl, pid, entry, parent) ==
  LET c == aspace_fork_clone(tbl, next_aspace, ts[parent].aspace)
      r == sched_spawn_with_parent_aspace(ts, c.tbl, pid, entry, 0, c.id)
  IN IF c.id = NoAspace
     THEN [ok |-> FALSE, tasks |-> ts, aspaces |-> tbl, next_pid |-> pid]
     ELSE [r EXCEPT !.aspaces = aspace_release(r.aspaces, c.id)]

\* sched_prepare_replay: forget the zombies and restart the pids at 2.
ForgetZombies(ts) ==
  [i \in Slot |-> IF i # 0 /\ task_visible(ts[i]) /\ ts[i].state = "zombie"
                  THEN EmptySlot ELSE ts[i]]

\* Mutant: the task that gives up the CPU stays marked running.
switch_to_no_demotion(ts, tbl, next) ==
  /\ tasks' = [ts EXCEPT ![next].state = "running"]
  /\ current_task' = next
  /\ cr3' = aspace_switch(tbl, cr3, ts[next].aspace)
  /\ aspaces' = tbl
  /\ resched_pending' = FALSE

\* switch_to, ts and tbl being the tables the caller leaves behind.
switch_to(ts, tbl, next) ==
  /\ tasks' = [i \in Slot |->
       IF i = next THEN [ts[i] EXCEPT !.state = "running"]
       ELSE IF i = current_task /\ ts[i].state = "running"
            THEN [ts[i] EXCEPT !.state = "ready"]
            ELSE ts[i]]
  /\ current_task' = next
  /\ cr3' = aspace_switch(tbl, cr3, ts[next].aspace)
  /\ aspaces' = tbl
  /\ resched_pending' = FALSE

\* sched_yield with the caller's own step already in ts.
sched_yield(ts) ==
  LET next == find_next_ready(ts, current_task)
  IN IF next >= 0
     THEN switch_to(ts, aspaces, next)
     ELSE /\ tasks' = ts
          /\ resched_pending' = FALSE
          /\ UNCHANGED <<current_task, cr3, aspaces>>

-----------------------------------------------------------------------------
(* The shell.  "prompt": reading a line; "post": a command is done and the  *)
(* yield after it is due; "wait": inside sys_waitpid; "spin": in a loop of  *)
(* yields (ping, sim); "spawn" and "demo": starting a profile's workers,    *)
(* plainly or for demo record; "drain": run_workloads_until_idle; "user":   *)
(* in ring 3 on behalf of builtin_exec_run_sync.                            *)

ShellStates == {"prompt", "post", "wait", "spin", "spawn", "demo", "drain", "user"}

ShellAt(pc) == current_task = 0 /\ shell = pc

\* What stays as it is when only the scheduler's part changes.
NoSpawn == UNCHANGED <<next_pid, next_aspace, jobs, active_workloads, failed>>

\* shell_run with no character to read: yield if a task is ready, else halt.
ShellIdle ==
  /\ ShellAt("prompt")
  /\ IF ReadySlots(tasks) # {}
     THEN sched_yield(tasks)
     ELSE UNCHANGED <<tasks, current_task, resched_pending, aspaces, cr3>>
  /\ NoSpawn
  /\ UNCHANGED <<shell, loop, target, profile>>

\* shell_run after exec_command.
ShellPost ==
  /\ ShellAt("post")
  /\ shell' = "prompt"
  /\ IF ReadySlots(tasks) # {}
     THEN sched_yield(tasks)
     ELSE UNCHANGED <<tasks, current_task, resched_pending, aspaces, cr3>>
  /\ NoSpawn
  /\ UNCHANGED <<loop, target, profile>>

\* sys_fork.
Fork ==
  /\ ShellAt("prompt")
  /\ next_pid <= MaxPid
  /\ LET r == sched_spawn_with_parent(tasks, aspaces, next_pid, "fork", current_task)
     IN /\ tasks' = r.tasks
        /\ aspaces' = r.aspaces
        /\ next_pid' = r.next_pid
  /\ shell' = "post"
  /\ UNCHANGED <<current_task, resched_pending, next_aspace, cr3, jobs,
                 active_workloads, loop, target, profile, failed>>

PoolOf(entry) == IF entry = "ping" THEN "ping" ELSE "generic"

\* alloc_ping_job and alloc_generic_job take the first of these.
FreeJobs(pool) == (1 .. JobsMax) \ jobs[pool]

\* sys_execve, builtin_exec_spawn: the kernel's space is retained around the
\* whole call; the job entry stays taken when the spawn fails.
Execve(prog) ==
  LET pool == PoolOf(prog)
      free == FreeJobs(pool)
      held == aspace_retain(aspaces, KernelAspace)
      r == sched_spawn_with_parent_aspace(tasks, held, next_pid, prog, Min(free), KernelAspace)
  IN /\ ShellAt("prompt")
     /\ next_pid <= MaxPid
     /\ \/ /\ \/ free = {}
              \/ prog = "ping"            \* no target given
           /\ aspaces' = aspace_release(held, KernelAspace)
           /\ UNCHANGED <<tasks, next_pid, jobs, failed>>
        \/ /\ free # {}
           /\ jobs' = [jobs EXCEPT ![pool] = @ \cup {Min(free)}]
           /\ tasks' = r.tasks
           /\ next_pid' = r.next_pid
           /\ aspaces' = aspace_release(r.aspaces, KernelAspace)
           /\ failed' = IF r.ok THEN failed ELSE [failed EXCEPT ![pool] = @ + 1]
     /\ shell' = "post"
     /\ UNCHANGED <<current_task, resched_pending, next_aspace, cr3,
                    active_workloads, loop, target, profile>>

\* How many workers a profile spawns.
Workers(p) == IF p = "attack" THEN 1 ELSE 3

\* attack_sim, sysload and lifecycle_test at the prompt.
StartWorkload(p) ==
  /\ ShellAt("prompt")
  /\ next_pid + Workers(p) <= MaxPid + 1
  /\ failed["workload"] < MaxFailed
  /\ shell' = "spawn"
  /\ loop' = Workers(p)
  /\ profile' = p
  /\ UNCHANGED <<tasks, current_task, resched_pending, aspaces, cr3, target>>
  /\ NoSpawn

\* demo record: sched_prepare_replay, then the same profile.
DemoRecord(p) ==
  /\ ShellAt("prompt")
  /\ 1 + Workers(p) <= MaxPid
  /\ failed["workload"] < MaxFailed
  /\ tasks' = ForgetZombies(tasks)
  /\ next_pid' = 2
  /\ shell' = "demo"
  /\ loop' = Workers(p)
  /\ profile' = p
  /\ UNCHANGED <<current_task, resched_pending, aspaces, next_aspace, cr3, jobs,
                 active_workloads, target, failed>>

\* One turn of the loop in workload_attack_sim, workload_sysload or
\* workload_lifecycle_test: the counter first, then the spawn.
SpawnWorker ==
  LET r == sched_spawn_with_parent(tasks, aspaces, next_pid, profile, current_task)
  IN /\ current_task = 0
     /\ shell \in {"spawn", "demo"}
     /\ active_workloads' = active_workloads + 1
     /\ tasks' = r.tasks
     /\ aspaces' = r.aspaces
     /\ next_pid' = r.next_pid
     /\ failed' = IF r.ok THEN failed ELSE [failed EXCEPT !["workload"] = @ + 1]
     /\ loop' = loop - 1
     /\ shell' = IF loop > 1 THEN shell ELSE IF shell = "demo" THEN "drain" ELSE "post"
     /\ UNCHANGED <<current_task, resched_pending, next_aspace, cr3, jobs, target, profile>>

\* run_workloads_until_idle, one evaluation of its condition.
Drain ==
  /\ ShellAt("drain")
  /\ IF active_workloads # 0 \/ ReadySlots(tasks) # {}
     THEN sched_yield(tasks) /\ UNCHANGED shell
     ELSE /\ shell' = "post"
          /\ UNCHANGED <<tasks, current_task, resched_pending, aspaces, cr3>>
  /\ NoSpawn
  /\ UNCHANGED <<loop, target, profile>>

\* The loops of yields in shell_ping_run and shell_sim_run.
StartSpin ==
  /\ ShellAt("prompt")
  /\ shell' = "spin"
  /\ loop' = YieldsOf["shell"]
  /\ UNCHANGED <<tasks, current_task, resched_pending, aspaces, cr3, target, profile>>
  /\ NoSpawn

Spin ==
  /\ ShellAt("spin")
  /\ IF loop > 0
     THEN loop' = loop - 1 /\ sched_yield(tasks) /\ UNCHANGED shell
     ELSE /\ shell' = "post"
          /\ UNCHANGED <<tasks, current_task, resched_pending, aspaces, cr3, loop>>
  /\ NoSpawn
  /\ UNCHANGED <<target, profile>>

\* sched_task_state: the lowest visible slot with that pid, if there is one.
SlotsOf(ts, pid) == {i \in Slot : task_visible(ts[i]) /\ ts[i].pid = pid}

\* Mutant: an unknown pid is taken for an empty slot.
StateOfUnknown(ts, pid) ==
  IF SlotsOf(ts, pid) = {} THEN "empty" ELSE ts[Min(SlotsOf(ts, pid))].state

StateOf(ts, pid) ==
  IF SlotsOf(ts, pid) = {} THEN "none" ELSE ts[Min(SlotsOf(ts, pid))].state

\* One turn of the loop in sys_waitpid.
WaitTurn(pid) ==
  /\ IF StateOf(tasks, pid) \in {"none", "zombie"}
     THEN /\ shell' = "post"
          /\ target' = 0
          /\ UNCHANGED <<tasks, current_task, resched_pending, aspaces, cr3>>
     ELSE /\ shell' = "wait"
          /\ target' = pid
          /\ sched_yield(tasks)
  /\ NoSpawn
  /\ UNCHANGED <<loop, profile>>

Waitpid(pid) == ShellAt("prompt") /\ WaitTurn(pid)
WaitAgain == ShellAt("wait") /\ WaitTurn(target)

\* Mutant: the deadline is looked at only when another task is ready.
WaitTimeoutBusy ==
  /\ ShellAt("wait")
  /\ ReadySlots(tasks) # {}
  /\ StateOf(tasks, target) \notin {"none", "zombie"}
  /\ shell' = "post"
  /\ target' = 0
  /\ UNCHANGED <<tasks, current_task, resched_pending, aspaces, cr3, loop, profile>>
  /\ NoSpawn

\* sys_waitpid gives up: the tick count passed the timeout while polling.
WaitTimeout ==
  /\ ShellAt("wait")
  /\ StateOf(tasks, target) \notin {"none", "zombie"}
  /\ shell' = "post"
  /\ target' = 0
  /\ UNCHANGED <<tasks, current_task, resched_pending, aspaces, cr3, loop, profile>>
  /\ NoSpawn

\* builtin_exec_run_sync up to usermode_run_entry_stack.  Reading the image
\* may fail, creating the space for want of a slot or of pages, filling it
\* for want of pages.
RunUser ==
  /\ ShellAt("prompt")
  /\ next_aspace <= MaxAspace
  /\ LET filled == aspace_create(aspaces, next_aspace, "user")
     IN \/ /\ shell' = "post"                \* no readable image, or no free slot
           /\ UNCHANGED <<aspaces, next_aspace, cr3>>
        \/ /\ HasFreeSlot(aspaces)           \* clone_kernel_root fails
           /\ next_aspace' = next_aspace + 1
           /\ shell' = "post"
           /\ UNCHANGED <<aspaces, cr3>>
        \/ /\ HasFreeSlot(aspaces)           \* aspace_write or aspace_zero fails
           /\ next_aspace' = next_aspace + 1
           /\ aspaces' = aspace_release(filled, next_aspace)
           /\ shell' = "post"
           /\ UNCHANGED cr3
        \/ /\ HasFreeSlot(aspaces)
           /\ next_aspace' = next_aspace + 1
           /\ aspaces' = filled
           /\ cr3' = aspace_switch(filled, cr3, next_aspace)
           /\ shell' = "user"
  /\ UNCHANGED <<tasks, current_task, next_pid, resched_pending, jobs,
                 active_workloads, loop, target, profile, failed>>

\* The program's exit system call brings the shell back; the space is the
\* one run_sync created, the loaded one.
UserReturn ==
  /\ ShellAt("user")
  /\ cr3' = aspace_switch(aspaces, cr3, tasks[current_task].aspace)
  /\ aspaces' = aspace_release(aspaces, cr3)
  /\ shell' = "post"
  /\ UNCHANGED <<tasks, current_task, next_pid, resched_pending, next_aspace, jobs,
                 active_workloads, loop, target, profile, failed>>

-----------------------------------------------------------------------------
(* The other tasks: each entry function is a loop of yields, then its       *)
(* epilogue, then task_exit.                                                *)

TaskYield ==
  /\ current_task # 0
  /\ tasks[current_task].left > 0
  /\ sched_yield([tasks EXCEPT ![current_task].left = @ - 1])
  /\ NoSpawn
  /\ UNCHANGED <<shell, loop, target, profile>>

\* Mutant: only the attack worker counts itself out.
WorkloadsWithoutAttack(t) ==
  IF t.entry = "attack" THEN active_workloads - 1 ELSE active_workloads

\* The last statement of every workload's entry function.
WorkloadsWithout(t) ==
  IF t.entry \in WorkloadEntries THEN active_workloads - 1 ELSE active_workloads

\* Mutant: ping_task returns without clearing its job.
JobsWithoutGeneric(t) ==
  IF t.entry \in ProgramEntries \ {"ping"}
  THEN [jobs EXCEPT !["generic"] = @ \ {t.job}] ELSE jobs

\* The last statement of every program's entry function.
JobsWithout(t) ==
  IF t.entry \in ProgramEntries
  THEN [jobs EXCEPT ![PoolOf(t.entry)] = @ \ {t.job}] ELSE jobs

\* The entry function returns and task_exit ends the task.  With no ready
\* task left the kernel would halt here for good.
TaskExit ==
  LET t == tasks[current_task]
      dead == [tasks EXCEPT ![current_task].state = "zombie"]
      next == find_next_ready(dead, current_task)
      rest == aspace_release(aspaces, t.aspace)
  IN /\ current_task # 0
     /\ t.state = "running"
     /\ t.left = 0
     /\ active_workloads' = WorkloadsWithout(t)
     /\ jobs' = JobsWithout(t)
     /\ IF next >= 0
        THEN switch_to(dead, rest, next)
        ELSE /\ tasks' = dead
             /\ aspaces' = rest
             /\ UNCHANGED <<current_task, cr3, resched_pending>>
     /\ UNCHANGED <<next_pid, next_aspace, shell, loop, target, profile, failed>>

\* sched_tick: every fifth tick of a task asks for a switch.
Tick ==
  /\ resched_pending' = TRUE
  /\ UNCHANGED <<tasks, current_task, next_pid, aspaces, next_aspace, cr3, jobs,
                 active_workloads, shell, loop, target, profile, failed>>

-----------------------------------------------------------------------------
Init ==
  /\ tasks = [i \in Slot |->
       IF i = 0 THEN [EmptySlot EXCEPT !.state = "running", !.pid = 1,
                                       !.aspace = KernelAspace, !.entry = "shell"]
       ELSE EmptySlot]
  /\ current_task = 0
  /\ next_pid = 2
  /\ resched_pending = FALSE
  /\ aspaces = aspace_init
  /\ next_aspace = 2
  /\ cr3 = KernelAspace
  /\ jobs = [p \in Pools |-> {}]
  /\ active_workloads = 0
  /\ shell = "prompt"
  /\ loop = 0
  /\ target = 0
  /\ profile = "attack"
  /\ failed = [p \in Pools \cup {"workload"} |-> 0]

\* What the user may type.
Command ==
  \/ Fork
  \/ \E p \in Programs : Execve(p)
  \/ \E p \in Profiles : StartWorkload(p)
  \/ \E p \in Demos : DemoRecord(p)
  \/ StartSpin
  \/ \E pid \in 1 .. MaxPid : Waitpid(pid)
  \/ RunUser

\* What the CPU does on its own.
CpuStep ==
  \/ ShellIdle \/ ShellPost \/ SpawnWorker \/ Drain \/ Spin
  \/ WaitAgain \/ UserReturn
  \/ TaskYield \/ TaskExit

Next == Command \/ CpuStep \/ WaitTimeout \/ Tick

Spec == Init /\ [][Next]_vars

\* The CPU keeps executing; the user need not type.  Once the tick count has
\* passed a waitpid's timeout it has passed it at every later poll.
FairSpec == Spec /\ WF_vars(CpuStep) /\ SF_vars(WaitTimeout)
-----------------------------------------------------------------------------
(* Properties.                                                              *)

\* Types of the variables: every task record has a known state, a pid the
\* table handed out and an entry function; the shell stands at a known place.
TypeOK ==
  /\ tasks \in [Slot -> TaskRecord]
  /\ current_task \in Slot
  /\ next_pid \in 2 .. MaxPid + 1
  /\ resched_pending \in BOOLEAN
  /\ next_aspace \in Nat \ {0, 1}
  /\ cr3 \in Nat
  /\ jobs \in [Pools -> SUBSET (1 .. JobsMax)]
  /\ active_workloads \in Nat
  /\ shell \in ShellStates
  /\ loop \in Nat
  /\ target \in 0 .. MaxPid
  /\ profile \in WorkloadEntries
  /\ failed \in [Pools \cup {"workload"} -> Nat]

\* The task on the CPU, and only that one, is marked running: no switch runs
\* a task that is not ready, and task_exit never halts the kernel for want of
\* a successor (it would leave a zombie as the current task).
SingleRunning == \A i \in Slot : tasks[i].state = "running" <=> i = current_task

LiveWorkers == {i \in Slot \ {0} : IsLive(tasks[i])}

\* Retain and release balance over every spawn, failed spawn and exit: the
\* kernel's space has its own reference and one for each live worker task.
RefcountBalanced ==
  /\ KernelAspace \in DOMAIN aspaces
  /\ aspaces[KernelAspace].refcount = 1 + Cardinality(LiveWorkers)

\* builtin_exec_run_sync gives back what it takes: outside ring 3 the kernel's
\* space is the only one in the table and the one that is loaded, and in
\* ring 3 exactly one more space exists, the loaded one, held once.
UserSpaceReclaimed ==
  IF shell = "user"
  THEN /\ DOMAIN aspaces = {KernelAspace, cr3}
       /\ cr3 # KernelAspace
       /\ aspaces[cr3].refcount = 1
  ELSE DOMAIN aspaces = {KernelAspace} /\ cr3 = KernelAspace

\* Address spaces are accounted for: each is in the table as long as somebody
\* uses it and no longer, over every spawn, exit and run of a user program.
SpacesAccounted == RefcountBalanced /\ UserSpaceReclaimed

JobTasks(pool) ==
  {i \in Slot : IsLive(tasks[i]) /\ tasks[i].entry \in ProgramEntries
                /\ PoolOf(tasks[i].entry) = pool}

\* A live program task owns a taken job entry of its pool and shares it with
\* no other live task, so no task reads arguments rewritten for another.
JobExclusive ==
  \A pool \in Pools : \A i \in JobTasks(pool) :
    /\ tasks[i].job \in jobs[pool]
    /\ \A j \in JobTasks(pool) : tasks[i].job = tasks[j].job => i = j

\* The job entries taken are those of live program tasks and those lost to a
\* spawn that failed after the entry was taken; nothing else leaks one.
JobsAccounted ==
  \A pool \in Pools :
    Cardinality(jobs[pool]) = Cardinality(JobTasks(pool)) + failed[pool]

\* Job entries are exact: each live program task has its own, and the others
\* taken are accounted for.
JobsExact == JobExclusive /\ JobsAccounted

WorkloadTasks == {i \in Slot : IsLive(tasks[i]) /\ tasks[i].entry \in WorkloadEntries}

\* The counter run_workloads_until_idle waits on is the number of live
\* workload tasks plus the workers whose spawn failed after it was raised.
WorkloadsAccounted ==
  active_workloads = Cardinality(WorkloadTasks) + failed["workload"]

\* No two tasks in the table, dead ones included, have the same pid, and every
\* pid in it was handed out since the pids last started.
PidsDistinct ==
  \A i \in Slot : task_visible(tasks[i]) =>
    /\ tasks[i].pid < next_pid
    /\ \A j \in Slot : task_visible(tasks[j]) /\ tasks[i].pid = tasks[j].pid => i = j

\* A pid names one task, so waitpid finds the one that was meant: this is so
\* at boot, and no step ends it but sched_prepare_replay's restart of the pids.
PidsUnique ==
  PidsDistinct /\ [][PidsDistinct /\ next_pid' >= next_pid => PidsDistinct']_vars

\* While sys_waitpid polls, the slot of the task it waits for is not given to
\* another task: the poll ends by zombie state or by timeout, never by -1 for
\* a pid that has vanished.
WaitTargetPresent == shell = "wait" => SlotsOf(tasks, target) # {}

\* Round robin: a switch away from a task never passes over a ready task, so
\* a task that is ready and not chosen comes strictly closer to its turn.
NoOvertaking ==
  [][current_task' # current_task =>
       \A i \in ReadySlots(tasks) \ {current_task'} :
         Distance(current_task', i) < Distance(current_task, i)]_vars

\* What the invariants above need to be inductive: the shell is never removed
\* from the table, the other slots hold well-formed tasks in the kernel's
\* space, the spawn loop stays below the pid bound, only the shell enters
\* ring 3, and new address-space ids are fresh.
Shape ==
  /\ tasks[0].pid = 1 /\ IsLive(tasks[0]) /\ tasks[0].entry = "shell"
  /\ \A i \in Slot : tasks[i].state # "empty" =>
       tasks[i].pid > 0 /\ tasks[i].aspace = KernelAspace
  /\ \A i \in Slot \ {0} : tasks[i].entry # "shell"
  /\ shell \in {"spawn", "demo"} => loop > 0 /\ next_pid + loop <= MaxPid + 1
  /\ shell = "user" => current_task = 0
  /\ aspaces \in [DOMAIN aspaces -> AspaceRecord]
  /\ \A a \in DOMAIN aspaces : a < next_aspace
  /\ aspaces[KernelAspace].kind = "kernel"

IndInv ==
  /\ TypeOK /\ SingleRunning /\ UserSpaceReclaimed /\ Shape
  /\ RefcountBalanced /\ WorkloadsAccounted
  /\ JobExclusive /\ JobsAccounted /\ WaitTargetPresent

\* Every spawned task is scheduled until its entry function has returned.
TasksFinish ==
  \A i \in Slot \ {0} : IsLive(tasks[i]) ~> tasks[i].state = "zombie"

\* sys_waitpid returns, even for a task that never becomes a zombie.
WaitpidReturns == shell = "wait" ~> shell = "prompt"

\* demo record comes back to the prompt if no worker of any profile so far
\* failed to spawn.
DrainReturns == (shell = "drain" /\ failed["workload"] = 0) ~> shell = "prompt"

\* The commands that wait for other tasks come back to the prompt: sys_waitpid
\* by its timeout at the latest, run_workloads_until_idle when the workers end.
CommandsReturn == WaitpidReturns /\ DrainReturns
=============================================================================

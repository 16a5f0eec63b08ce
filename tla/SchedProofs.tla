---------------------------- MODULE SchedProofs ----------------------------
(***************************************************************************)
(* Proofs about Sched for every number of task slots, job entries, pids    *)
(* and yields.  The inductive invariant is IndInv of module Sched; the     *)
(* lemmas first say what the helpers of sched.c and aspace.c do to the     *)
(* task table and to the reference counts, then every action is shown to   *)
(* preserve the invariant.                                                 *)
(***************************************************************************)
EXTENDS Sched, FiniteSetTheorems, WellFoundedInduction, TLAPS

-----------------------------------------------------------------------------
(* Helpers.                                                                 *)

\* The least element of a set of naturals that FreeSlots and StateOf pick
\* exists, belongs to the set and bounds it.
LEMMA MinIsLeast ==
  ASSUME NEW S, S \subseteq Nat, S # {}
  PROVE  Min(S) \in S /\ \A y \in S : Min(S) <= y
<1> DEFINE R == {ss \in Nat \X Nat : ss[1] < ss[2]}
<1>1. IsWellFoundedOn(R, Nat)
  BY NatLessThanWellFounded, Zenon DEF OpToRel
<1>2. \E x \in S : \A y \in S : ~ (<<y, x>> \in R)
  BY <1>1, WFMin, Zenon
<1>3. \E x \in S : \A y \in S : x <= y
  <2>1. PICK x \in S : \A y \in S : ~ (<<y, x>> \in R)
    BY <1>2
  <2>2. ASSUME NEW y \in S PROVE x <= y
    <3>1. x \in Nat /\ y \in Nat
      OBVIOUS
    <3>2. <<y, x>> \notin R
      BY <2>1
    <3>3. ~ (y < x)
      BY <3>1, <3>2, Z3
    <3>4. QED
      BY <3>1, <3>3
  <2>3. QED
    BY <2>2
<1>4. QED
  BY <1>3 DEF Min

\* The scan of find_next_ready ends at a ready slot if there is one, and at
\* the first one after the current slot.
LEMMA NextReadyIsFirst ==
  ASSUME NEW ts, NEW c \in Slot, ReadySlots(ts) # {}
  PROVE  /\ find_next_ready(ts, c) \in ReadySlots(ts)
         /\ \A j \in ReadySlots(ts) : Distance(c, find_next_ready(ts, c)) <= Distance(c, j)
<1> DEFINE D == {Distance(c, j) : j \in ReadySlots(ts)}
<1>1. D \subseteq Nat /\ D # {}
  BY SchedAssumption DEF Distance, ReadySlots, Slot
<1>2. Min(D) \in D /\ \A y \in D : Min(D) <= y
  BY <1>1, MinIsLeast
<1>3. \E i \in ReadySlots(ts) : \A j \in ReadySlots(ts) : Distance(c, i) <= Distance(c, j)
  BY <1>2
<1>4. QED
  BY <1>3 DEF find_next_ready
\* The set of live tasks is finite, and so is every part of the table.
LEMMA SlotsFinite ==
  /\ IsFiniteSet(Slot)
  /\ \A S \in SUBSET Slot : IsFiniteSet(S) /\ Cardinality(S) \in Nat
<1>1. IsFiniteSet(Slot)
  BY SchedAssumption, FS_Interval DEF Slot
<1>2. ASSUME NEW S \in SUBSET Slot PROVE IsFiniteSet(S) /\ Cardinality(S) \in Nat
  BY <1>1, FS_Subset, FS_CardinalityType
<1>3. QED
  BY <1>1, <1>2

-----------------------------------------------------------------------------
(* What a switch does to the task table.                                    *)

\* The tables ts and us hold the same tasks, live and dead alike.
SameTasks(ts, us) ==
  \A i \in Slot :
    /\ us[i].pid = ts[i].pid
    /\ us[i].aspace = ts[i].aspace
    /\ us[i].entry = ts[i].entry
    /\ us[i].job = ts[i].job
    /\ IsLive(us[i]) <=> IsLive(ts[i])
    /\ us[i].state = "empty" <=> ts[i].state = "empty"

\* A yield moves the CPU to a ready task or leaves it where it is; it creates
\* and ends no task, and exactly one task runs after it.
LEMMA YieldEffect ==
  ASSUME TypeOK, SingleRunning, Shape, UserSpaceReclaimed,
         shell # "user",
         NEW ts \in [Slot -> TaskRecord],
         \A i \in Slot : /\ ts[i].state = tasks[i].state
                         /\ ts[i].pid = tasks[i].pid
                         /\ ts[i].aspace = tasks[i].aspace
                         /\ ts[i].entry = tasks[i].entry
                         /\ ts[i].job = tasks[i].job,
         sched_yield(ts)
  PROVE  /\ tasks' \in [Slot -> TaskRecord]
         /\ current_task' \in Slot
         /\ SingleRunning'
         /\ SameTasks(tasks, tasks')
         /\ aspaces' = aspaces
         /\ cr3' = KernelAspace
         /\ resched_pending' = FALSE
<1>1. CASE ReadySlots(ts) = {}
  <2>1. find_next_ready(ts, current_task) = -1
    BY <1>1 DEF find_next_ready
  <2>2. tasks' = ts /\ resched_pending' = FALSE /\ UNCHANGED <<current_task, cr3, aspaces>>
    BY <2>1 DEF sched_yield
  <2>3. QED
    BY <2>2 DEF TypeOK, SingleRunning, UserSpaceReclaimed, SameTasks, IsLive
<1>2. CASE ReadySlots(ts) # {}
  <2> DEFINE n == find_next_ready(ts, current_task)
  <2>1. n \in ReadySlots(ts)
    BY <1>2, NextReadyIsFirst DEF TypeOK
  <2>2. n \in Slot /\ ts[n].state = "ready" /\ n >= 0
    BY <2>1, SchedAssumption DEF ReadySlots, Slot
  <2>3. switch_to(ts, aspaces, n)
    BY <2>2 DEF sched_yield
  <2> HIDE DEF n
  <2>4. tasks[n].state = "ready" /\ n # current_task
    BY <2>2 DEF SingleRunning, TypeOK
  <2>5. ts[n].aspace = KernelAspace /\ KernelAspace \in DOMAIN aspaces
    BY <2>2, <2>4 DEF Shape, UserSpaceReclaimed
  <2>6. /\ tasks' \in [Slot -> TaskRecord]
        /\ \A i \in Slot : /\ tasks'[i].pid = ts[i].pid
                           /\ tasks'[i].aspace = ts[i].aspace
                           /\ tasks'[i].entry = ts[i].entry
                           /\ tasks'[i].job = ts[i].job
                           /\ tasks'[i].state =
                                IF i = n THEN "running"
                                ELSE IF i = current_task /\ ts[i].state = "running"
                                     THEN "ready" ELSE ts[i].state
    BY <2>2, <2>3 DEF switch_to, TaskRecord
  <2>7. current_task' = n /\ aspaces' = aspaces /\ resched_pending' = FALSE
    BY <2>3 DEF switch_to
  <2>8. cr3' = KernelAspace
    BY <2>3, <2>5 DEF switch_to, aspace_switch
  <2>9. SingleRunning'
    BY <2>2, <2>4, <2>6, <2>7 DEF SingleRunning, TypeOK
  <2>10. SameTasks(tasks, tasks')
    BY <2>2, <2>4, <2>6 DEF SameTasks, IsLive
  <2>11. QED
    BY <2>2, <2>6, <2>7, <2>8, <2>9, <2>10
<1>3. QED
  BY <1>1, <1>2

\* A step that keeps the tasks and what they hold keeps the accounts.
LEMMA AccountsKept ==
  ASSUME RefcountBalanced, WorkloadsAccounted, JobExclusive, JobsAccounted,
         SameTasks(tasks, tasks'),
         UNCHANGED <<aspaces, jobs, active_workloads, failed>>
  PROVE  /\ RefcountBalanced'
         /\ WorkloadsAccounted'
         /\ JobExclusive'
         /\ JobsAccounted'
<1>1. LiveWorkers' = LiveWorkers /\ WorkloadTasks' = WorkloadTasks
  BY DEF LiveWorkers, WorkloadTasks, SameTasks
<1>2. ASSUME NEW p \in Pools PROVE JobTasks(p)' = JobTasks(p)
  BY DEF JobTasks, SameTasks
<1>3. RefcountBalanced' /\ WorkloadsAccounted'
  BY <1>1 DEF RefcountBalanced, WorkloadsAccounted
<1>4. JobsAccounted'
  BY <1>2 DEF JobsAccounted
<1>5. JobExclusive'
  <2> SUFFICES ASSUME NEW p \in Pools, NEW i \in JobTasks(p)'
               PROVE  /\ tasks'[i].job \in jobs'[p]
                      /\ \A j \in JobTasks(p)' : tasks'[i].job = tasks'[j].job => i = j
    BY DEF JobExclusive
  <2>1. \A j \in JobTasks(p) : j \in Slot /\ tasks'[j].job = tasks[j].job
    BY DEF JobTasks, SameTasks
  <2>2. QED
    BY <1>2, <2>1 DEF JobExclusive
<1>6. QED
  BY <1>3, <1>4, <1>5
-----------------------------------------------------------------------------
(* What spawning and exiting do to the tables.                              *)

\* us is tbl with the kernel's reference count changed by d and no more.
KernelRefs(tbl, us, d) ==
  /\ us \in [DOMAIN tbl -> AspaceRecord]
  /\ us[KernelAspace].refcount = tbl[KernelAspace].refcount + d
  /\ us[KernelAspace].kind = tbl[KernelAspace].kind
  /\ \A a \in DOMAIN tbl \ {KernelAspace} : us[a] = tbl[a]

LEMMA RetainKernel ==
  ASSUME NEW tbl, KernelAspace \in DOMAIN tbl, tbl \in [DOMAIN tbl -> AspaceRecord]
  PROVE  KernelRefs(tbl, aspace_retain(tbl, KernelAspace), 1)
BY DEF aspace_retain, KernelRefs, AspaceRecord

LEMMA ReleaseKernel ==
  ASSUME NEW tbl, KernelAspace \in DOMAIN tbl, tbl \in [DOMAIN tbl -> AspaceRecord],
         tbl[KernelAspace].refcount > 0
  PROVE  KernelRefs(tbl, aspace_release(tbl, KernelAspace), -1)
BY DEF aspace_release, KernelRefs, AspaceRecord

NewTask(e, j) ==
  [state |-> "ready", pid |-> next_pid, aspace |-> KernelAspace,
   entry |-> e, job |-> j, left |-> YieldsOf[e]]

\* The outcome r of a spawn that was called with the table of spaces tbl and
\* had to leave d more references to the kernel's space on success.
SpawnOutcome(r, tbl, e, j, d) ==
  \/ /\ r.ok = FALSE /\ r.tasks = tasks /\ r.next_pid = next_pid
     /\ KernelRefs(tbl, r.aspaces, d - 1)
  \/ /\ r.ok = TRUE /\ r.next_pid = next_pid + 1
     /\ KernelRefs(tbl, r.aspaces, d)
     /\ \E k \in Slot \ {0} : ~IsLive(tasks[k]) /\ r.tasks = [tasks EXCEPT ![k] = NewTask(e, j)]

LEMMA SpawnAspaceEffect ==
  ASSUME TypeOK, Shape,
         NEW tbl, KernelAspace \in DOMAIN tbl, tbl \in [DOMAIN tbl -> AspaceRecord],
         NEW e, NEW j
  PROVE  SpawnOutcome(sched_spawn_with_parent_aspace(tasks, tbl, next_pid, e, j, KernelAspace),
                      tbl, e, j, 1)
<1> DEFINE r == sched_spawn_with_parent_aspace(tasks, tbl, next_pid, e, j, KernelAspace)
<1> SUFFICES SpawnOutcome(r, tbl, e, j, 1)
  OBVIOUS
<1>1. CASE FreeSlots(tasks) = {}
  <2>1. r = [ok |-> FALSE, tasks |-> tasks, aspaces |-> tbl, next_pid |-> next_pid]
    BY <1>1 DEF sched_spawn_with_parent_aspace
  <2>2. KernelRefs(tbl, tbl, 1 - 1)
    BY DEF KernelRefs, AspaceRecord
  <2>3. QED
    BY <2>1, <2>2 DEF SpawnOutcome
<1>2. CASE FreeSlots(tasks) # {}
  <2> DEFINE k == Min(FreeSlots(tasks))
  <2>1. k \in FreeSlots(tasks)
    BY <1>2, MinIsLeast, SchedAssumption DEF FreeSlots, Slot
  <2>2. k \in Slot \ {0} /\ ~IsLive(tasks[k])
    BY <2>1 DEF FreeSlots, task_visible, IsLive, Shape
  <2>3. r = [ok |-> TRUE, tasks |-> [tasks EXCEPT ![k] = NewTask(e, j)],
             aspaces |-> aspace_retain(tbl, KernelAspace), next_pid |-> next_pid + 1]
    BY <1>2 DEF sched_spawn_with_parent_aspace, NewTask
  <2>4. KernelRefs(tbl, aspace_retain(tbl, KernelAspace), 1)
    BY RetainKernel
  <2> HIDE DEF k, r
  <2>5. /\ r.ok = TRUE /\ r.next_pid = next_pid + 1
        /\ KernelRefs(tbl, r.aspaces, 1)
        /\ r.tasks = [tasks EXCEPT ![k] = NewTask(e, j)]
    BY <2>3, <2>4
  <2>6. QED
    BY <2>2, <2>5 DEF SpawnOutcome
<1>3. QED
  BY <1>1, <1>2

\* sched_spawn_with_parent called by a task in the kernel's space: one more
\* reference when it succeeds, none when it fails.
LEMMA SpawnParentEffect ==
  ASSUME TypeOK, Shape, SingleRunning, RefcountBalanced, NEW e
  PROVE  SpawnOutcome(sched_spawn_with_parent(tasks, aspaces, next_pid, e, current_task),
                      aspaces, e, 0, 1)
<1> DEFINE held == aspace_retain(aspaces, KernelAspace)
           r == sched_spawn_with_parent_aspace(tasks, held, next_pid, e, 0, KernelAspace)
           q == sched_spawn_with_parent(tasks, aspaces, next_pid, e, current_task)
<1> SUFFICES SpawnOutcome(q, aspaces, e, 0, 1)
  OBVIOUS
<1>1. /\ tasks[current_task].aspace = KernelAspace
      /\ KernelAspace \in DOMAIN aspaces
      /\ aspaces[KernelAspace].kind = "kernel"
      /\ aspaces[KernelAspace].refcount \in Nat
  BY DEF TypeOK, Shape, SingleRunning, RefcountBalanced, AspaceRecord
<1>2. aspace_fork_clone(aspaces, next_aspace, KernelAspace) = [id |-> KernelAspace, tbl |-> held]
  BY <1>1 DEF aspace_fork_clone
<1>3. q = [r EXCEPT !.aspaces = aspace_release(r.aspaces, KernelAspace)]
  BY <1>1, <1>2 DEF sched_spawn_with_parent, KernelAspace, NoAspace
<1>4. KernelRefs(aspaces, held, 1)
  BY <1>1, RetainKernel DEF Shape
<1>5. /\ KernelAspace \in DOMAIN held /\ held \in [DOMAIN held -> AspaceRecord]
      /\ held[KernelAspace].refcount = aspaces[KernelAspace].refcount + 1
  BY <1>1, <1>4 DEF KernelRefs
<1>6. SpawnOutcome(r, held, e, 0, 1)
  BY <1>5, SpawnAspaceEffect
<1>7. r = [ok |-> r.ok, tasks |-> r.tasks, aspaces |-> r.aspaces, next_pid |-> r.next_pid]
  BY DEF sched_spawn_with_parent_aspace
<1> HIDE DEF r, held
<1>8. \E d \in {0, 1} : KernelRefs(held, r.aspaces, d)
  BY <1>6 DEF SpawnOutcome
<1>9. ASSUME NEW d \in {0, 1}, KernelRefs(held, r.aspaces, d)
      PROVE  KernelRefs(aspaces, aspace_release(r.aspaces, KernelAspace), d)
  <2>1. /\ KernelAspace \in DOMAIN r.aspaces /\ r.aspaces \in [DOMAIN r.aspaces -> AspaceRecord]
        /\ r.aspaces[KernelAspace].refcount = held[KernelAspace].refcount + d
        /\ r.aspaces[KernelAspace].refcount > 0
    BY <1>1, <1>5, <1>9 DEF KernelRefs
  <2>2. KernelRefs(r.aspaces, aspace_release(r.aspaces, KernelAspace), -1)
    BY <2>1, ReleaseKernel
  <2>3. QED
    BY <1>1, <1>4, <1>5, <1>9, <2>1, <2>2 DEF KernelRefs
<1>10. /\ q.ok = r.ok /\ q.tasks = r.tasks /\ q.next_pid = r.next_pid
       /\ q.aspaces = aspace_release(r.aspaces, KernelAspace)
  BY <1>3, <1>7
<1> HIDE DEF q
<1>11. QED
  BY <1>6, <1>9, <1>10 DEF SpawnOutcome
\* A new task in a free slot joins the live tasks and disturbs no other.
LEMMA NewTaskEffect ==
  ASSUME TypeOK, SingleRunning, Shape,
         NEW e \in Entries \ {"shell"}, NEW j \in 0 .. JobsMax, next_pid <= MaxPid,
         NEW k \in Slot \ {0}, ~IsLive(tasks[k]),
         tasks' = [tasks EXCEPT ![k] = NewTask(e, j)],
         current_task' = current_task
  PROVE  /\ tasks' \in [Slot -> TaskRecord]
         /\ SingleRunning'
         /\ tasks'[k] = NewTask(e, j)
         /\ \A i \in Slot \ {k} : tasks'[i] = tasks[i]
         /\ k \notin LiveWorkers /\ LiveWorkers' = LiveWorkers \cup {k}
         /\ k \notin WorkloadTasks
         /\ WorkloadTasks' = IF e \in WorkloadEntries THEN WorkloadTasks \cup {k}
                             ELSE WorkloadTasks
         /\ \A p \in Pools :
              /\ k \notin JobTasks(p)
              /\ JobTasks(p)' = IF e \in ProgramEntries /\ PoolOf(e) = p
                                THEN JobTasks(p) \cup {k} ELSE JobTasks(p)
<1>1. NewTask(e, j) \in TaskRecord
  BY SchedAssumption DEF NewTask, TaskRecord, TypeOK
<1>2. /\ tasks' \in [Slot -> TaskRecord]
      /\ tasks'[k] = NewTask(e, j)
      /\ \A i \in Slot \ {k} : tasks'[i] = tasks[i]
  BY <1>1 DEF TypeOK
<1>3. /\ tasks'[k].state = "ready" /\ tasks'[k].entry = e
      /\ IsLive(tasks'[k])
  BY <1>2 DEF NewTask, IsLive
<1>4. SingleRunning'
  BY <1>2, <1>3 DEF SingleRunning, IsLive
<1>5. k \notin LiveWorkers /\ LiveWorkers' = LiveWorkers \cup {k}
  BY <1>2, <1>3 DEF LiveWorkers
<1>6. /\ k \notin WorkloadTasks
      /\ WorkloadTasks' = IF e \in WorkloadEntries THEN WorkloadTasks \cup {k}
                          ELSE WorkloadTasks
  BY <1>2, <1>3 DEF WorkloadTasks
<1>7. ASSUME NEW p \in Pools
      PROVE  /\ k \notin JobTasks(p)
             /\ JobTasks(p)' = IF e \in ProgramEntries /\ PoolOf(e) = p
                               THEN JobTasks(p) \cup {k} ELSE JobTasks(p)
  BY <1>2, <1>3 DEF JobTasks
<1>8. QED
  BY <1>2, <1>4, <1>5, <1>6, <1>7

\* An empty table of dead tasks, or the exit of the running worker task k.
LEMMA ExitEffect ==
  ASSUME TypeOK, SingleRunning, Shape, UserSpaceReclaimed,
         current_task # 0, TaskExit
  PROVE  /\ tasks' \in [Slot -> TaskRecord]
         /\ current_task' \in Slot
         /\ SingleRunning'
         /\ \A i \in Slot : /\ tasks'[i].pid = tasks[i].pid
                            /\ tasks'[i].aspace = tasks[i].aspace
                            /\ tasks'[i].entry = tasks[i].entry
                            /\ tasks'[i].job = tasks[i].job
                            /\ tasks'[i].state = "empty" <=> tasks[i].state = "empty"
                            /\ IsLive(tasks'[i]) <=> IsLive(tasks[i]) /\ i # current_task
         /\ cr3' = KernelAspace
         /\ aspaces' = aspace_release(aspaces, KernelAspace)
         /\ resched_pending' = FALSE
<1> DEFINE dead == [tasks EXCEPT ![current_task].state = "zombie"]
           n == find_next_ready(dead, current_task)
<1>1. /\ dead \in [Slot -> TaskRecord]
      /\ \A i \in Slot \ {current_task} : dead[i] = tasks[i]
      /\ dead[current_task].state = "zombie"
      /\ dead[current_task].pid = tasks[current_task].pid
      /\ dead[current_task].aspace = tasks[current_task].aspace
      /\ dead[current_task].entry = tasks[current_task].entry
      /\ dead[current_task].job = tasks[current_task].job
  BY DEF TypeOK, TaskRecord
<1>2. tasks[current_task].state = "running" /\ tasks[current_task].aspace = KernelAspace
  BY DEF TaskExit, Shape, TypeOK
<1>3. 0 \in Slot
  BY SchedAssumption DEF Slot
<1>4. tasks[0].state = "ready" /\ tasks[0].pid = 1
  BY <1>3 DEF Shape, SingleRunning, IsLive
<1> HIDE DEF dead
<1>5. 0 \in ReadySlots(dead)
  BY <1>1, <1>3, <1>4 DEF ReadySlots, task_visible
<1>6. n \in ReadySlots(dead)
  BY <1>5, NextReadyIsFirst DEF TypeOK
<1>7. n \in Slot /\ dead[n].state = "ready" /\ n >= 0 /\ n # current_task
  BY <1>1, <1>6, SchedAssumption DEF ReadySlots, Slot
<1>8. switch_to(dead, aspace_release(aspaces, KernelAspace), n)
  BY <1>2, <1>7 DEF TaskExit, dead
<1> HIDE DEF n
<1>9. /\ tasks' \in [Slot -> TaskRecord]
      /\ \A i \in Slot : /\ tasks'[i].pid = dead[i].pid
                         /\ tasks'[i].aspace = dead[i].aspace
                         /\ tasks'[i].entry = dead[i].entry
                         /\ tasks'[i].job = dead[i].job
                         /\ tasks'[i].state = IF i = n THEN "running" ELSE dead[i].state
  BY <1>1, <1>7, <1>8 DEF switch_to, TaskRecord
<1>10. /\ current_task' = n /\ resched_pending' = FALSE
       /\ aspaces' = aspace_release(aspaces, KernelAspace)
  BY <1>8 DEF switch_to
<1>11. cr3' = KernelAspace
  <2>1. cr3 = KernelAspace /\ dead[n].aspace = KernelAspace
    BY <1>1, <1>7 DEF Shape, UserSpaceReclaimed
  <2>2. QED
    BY <1>8, <2>1 DEF switch_to, aspace_switch
<1>12. SingleRunning'
  BY <1>1, <1>7, <1>9, <1>10 DEF SingleRunning, TypeOK
<1>13. \A i \in Slot : /\ tasks'[i].state = "empty" <=> tasks[i].state = "empty"
                       /\ IsLive(tasks'[i]) <=> IsLive(tasks[i]) /\ i # current_task
  BY <1>1, <1>2, <1>7, <1>9 DEF IsLive
<1>14. QED
  BY <1>1, <1>7, <1>9, <1>10, <1>11, <1>12, <1>13
-----------------------------------------------------------------------------
(* Steps that create and end no task.                                       *)

\* A step that keeps the tasks, and moves the shell to a place it may be in,
\* keeps the whole invariant.
LEMMA QuietStep ==
  ASSUME IndInv,
         tasks' \in [Slot -> TaskRecord], current_task' \in Slot, SingleRunning',
         SameTasks(tasks, tasks'), NoSpawn, UNCHANGED <<aspaces, cr3>>,
         resched_pending' \in BOOLEAN,
         shell' \in ShellStates, loop' \in Nat, target' \in 0 .. MaxPid,
         profile' \in WorkloadEntries,
         shell' = "user" <=> shell = "user",
         shell' = "user" => current_task' = 0,
         shell' \in {"spawn", "demo"} => loop' > 0 /\ next_pid + loop' <= MaxPid + 1,
         shell' = "wait" => SlotsOf(tasks, target') # {}
  PROVE  IndInv'
<1> USE DEF NoSpawn
<1>1. TypeOK'
  BY DEF IndInv, TypeOK
<1>2. UserSpaceReclaimed'
  BY DEF IndInv, UserSpaceReclaimed
<1>3. 0 \in Slot
  BY SchedAssumption DEF Slot
<1>4. Shape'
  BY <1>3 DEF IndInv, Shape, SameTasks
<1>5. RefcountBalanced' /\ WorkloadsAccounted' /\ JobExclusive' /\ JobsAccounted'
  BY AccountsKept DEF IndInv
<1>6. WaitTargetPresent'
  <2>1. SlotsOf(tasks', target') = SlotsOf(tasks, target')
    BY DEF SlotsOf, task_visible, SameTasks
  <2>2. QED
    BY <2>1 DEF WaitTargetPresent
<1>7. QED
  BY <1>1, <1>2, <1>4, <1>5, <1>6 DEF IndInv

\* A yield by the shell or by a task, after which the shell is at a place
\* outside ring 3.
LEMMA YieldStep ==
  ASSUME IndInv, shell # "user", NoSpawn,
         NEW ts \in [Slot -> TaskRecord],
         \A i \in Slot : /\ ts[i].state = tasks[i].state
                         /\ ts[i].pid = tasks[i].pid
                         /\ ts[i].aspace = tasks[i].aspace
                         /\ ts[i].entry = tasks[i].entry
                         /\ ts[i].job = tasks[i].job,
         sched_yield(ts),
         shell' \in ShellStates \ {"user"}, loop' \in Nat, target' \in 0 .. MaxPid,
         profile' \in WorkloadEntries,
         shell' \in {"spawn", "demo"} => loop' > 0 /\ next_pid + loop' <= MaxPid + 1,
         shell' = "wait" => SlotsOf(tasks, target') # {}
  PROVE  IndInv'
<1>1. /\ tasks' \in [Slot -> TaskRecord]
      /\ current_task' \in Slot
      /\ SingleRunning'
      /\ SameTasks(tasks, tasks')
      /\ aspaces' = aspaces
      /\ cr3' = KernelAspace
      /\ resched_pending' = FALSE
  BY YieldEffect DEF IndInv
<1>2. cr3 = KernelAspace
  BY DEF IndInv, UserSpaceReclaimed
<1>3. QED
  BY <1>1, <1>2, QuietStep

\* Leaving the task table alone is a special case of keeping its tasks.
LEMMA IdleStep ==
  ASSUME IndInv, NoSpawn, UNCHANGED <<tasks, current_task, aspaces, cr3>>,
         resched_pending' \in BOOLEAN,
         shell' \in ShellStates, loop' \in Nat, target' \in 0 .. MaxPid,
         profile' \in WorkloadEntries,
         shell' = "user" <=> shell = "user",
         shell' \in {"spawn", "demo"} => loop' > 0 /\ next_pid + loop' <= MaxPid + 1,
         shell' = "wait" => SlotsOf(tasks, target') # {}
  PROVE  IndInv'
<1>1. SameTasks(tasks, tasks')
  BY DEF SameTasks
<1>2. /\ tasks' \in [Slot -> TaskRecord] /\ current_task' \in Slot /\ SingleRunning'
      /\ shell' = "user" => current_task' = 0
  BY DEF IndInv, TypeOK, SingleRunning, Shape
<1>3. QED
  BY <1>1, <1>2, QuietStep

LEMMA TasksTyped ==
  ASSUME IndInv PROVE tasks \in [Slot -> TaskRecord] /\ loop \in Nat /\ target \in 0 .. MaxPid
                      /\ profile \in WorkloadEntries /\ resched_pending \in BOOLEAN
                      /\ shell \in ShellStates /\ next_pid \in 2 .. MaxPid + 1
BY DEF IndInv, TypeOK

LEMMA ShellIdleInv == ASSUME IndInv, ShellIdle PROVE IndInv'
<1>1. CASE ReadySlots(tasks) # {}
  BY <1>1, TasksTyped, YieldStep DEF ShellIdle, ShellAt
<1>2. CASE ReadySlots(tasks) = {}
  BY <1>2, TasksTyped, IdleStep DEF ShellIdle, ShellAt
<1>3. QED
  BY <1>1, <1>2

LEMMA ShellPostInv == ASSUME IndInv, ShellPost PROVE IndInv'
<1>1. shell' \in ShellStates \ {"user", "spawn", "demo", "wait"}
  BY DEF ShellPost, ShellStates
<1>2. CASE ReadySlots(tasks) # {}
  BY <1>1, <1>2, TasksTyped, YieldStep DEF ShellPost, ShellAt
<1>3. CASE ReadySlots(tasks) = {}
  BY <1>1, <1>3, TasksTyped, IdleStep DEF ShellPost, ShellAt
<1>4. QED
  BY <1>2, <1>3

LEMMA DrainInv == ASSUME IndInv, Drain PROVE IndInv'
<1>1. shell' \in ShellStates \ {"user", "spawn", "demo", "wait"} /\ shell # "user"
  BY DEF Drain, ShellAt, ShellStates
<1>2. CASE active_workloads # 0 \/ ReadySlots(tasks) # {}
  BY <1>1, <1>2, TasksTyped, YieldStep DEF Drain
<1>3. CASE ~(active_workloads # 0 \/ ReadySlots(tasks) # {})
  BY <1>1, <1>3, TasksTyped, IdleStep DEF Drain
<1>4. QED
  BY <1>2, <1>3

LEMMA SpinInv == ASSUME IndInv, Spin PROVE IndInv'
<1>1. shell' \in ShellStates \ {"user", "spawn", "demo", "wait"} /\ shell # "user"
  BY DEF Spin, ShellAt, ShellStates
<1>2. CASE loop > 0
  BY <1>1, <1>2, TasksTyped, YieldStep DEF Spin
<1>3. CASE ~(loop > 0)
  BY <1>1, <1>3, TasksTyped, IdleStep DEF Spin
<1>4. QED
  BY <1>2, <1>3

LEMMA WaitTurnInv ==
  ASSUME IndInv, shell # "user", NEW pid \in 0 .. MaxPid, WaitTurn(pid)
  PROVE  IndInv'
<1>1. CASE StateOf(tasks, pid) \in {"none", "zombie"}
  <2>1. shell' = "post" /\ target' = 0
    BY <1>1 DEF WaitTurn
  <2>2. shell' \in ShellStates \ {"user", "spawn", "demo", "wait"} /\ target' \in 0 .. MaxPid
    BY <2>1, SchedAssumption DEF ShellStates
  <2>3. QED
    BY <1>1, <2>2, TasksTyped, IdleStep DEF WaitTurn
<1>2. CASE StateOf(tasks, pid) \notin {"none", "zombie"}
  <2>1. shell' = "wait" /\ target' = pid /\ sched_yield(tasks)
    BY <1>2 DEF WaitTurn
  <2>2. SlotsOf(tasks, pid) # {} /\ shell' \in ShellStates \ {"user", "spawn", "demo"}
    BY <1>2, <2>1 DEF StateOf, ShellStates
  <2>3. QED
    BY <2>1, <2>2, TasksTyped, YieldStep DEF WaitTurn
<1>3. QED
  BY <1>1, <1>2

LEMMA WaitTimeoutInv == ASSUME IndInv, WaitTimeout PROVE IndInv'
<1>1. /\ shell' \in ShellStates \ {"user", "spawn", "demo", "wait"} /\ shell # "user"
      /\ target' \in 0 .. MaxPid
  BY SchedAssumption DEF WaitTimeout, ShellAt, ShellStates
<1>2. QED
  BY <1>1, TasksTyped, IdleStep DEF WaitTimeout

LEMMA StartInv ==
  ASSUME IndInv, StartSpin \/ \E p \in Profiles : StartWorkload(p)
  PROVE  IndInv'
<1>1. CASE StartSpin
  <2>1. /\ shell' \in ShellStates \ {"user", "spawn", "demo", "wait"} /\ shell # "user"
        /\ loop' \in Nat
    BY <1>1, SchedAssumption DEF StartSpin, ShellAt, ShellStates, Entries
  <2>2. QED
    BY <1>1, <2>1, TasksTyped, IdleStep DEF StartSpin
<1>2. ASSUME NEW p \in Profiles, StartWorkload(p) PROVE IndInv'
  <2>1. /\ shell' \in ShellStates \ {"user", "wait"} /\ shell # "user"
        /\ loop' \in Nat /\ loop' > 0 /\ next_pid + loop' <= MaxPid + 1
        /\ profile' \in WorkloadEntries
    BY <1>2, SchedAssumption DEF StartWorkload, ShellAt, ShellStates, Workers
  <2>2. QED
    BY <1>2, <2>1, TasksTyped, IdleStep DEF StartWorkload
<1>3. QED
  BY <1>1, <1>2

LEMMA TickInv == ASSUME IndInv, Tick PROVE IndInv'
<1>1. /\ shell' \in {"spawn", "demo"} => loop' > 0 /\ next_pid + loop' <= MaxPid + 1
      /\ shell' = "wait" => SlotsOf(tasks, target') # {}
  BY DEF Tick, IndInv, Shape, WaitTargetPresent
<1>2. QED
  BY <1>1, TasksTyped, IdleStep DEF Tick, NoSpawn

LEMMA TaskYieldInv == ASSUME IndInv, TaskYield PROVE IndInv'
<1> DEFINE ts == [tasks EXCEPT ![current_task].left = @ - 1]
<1>1. current_task \in Slot /\ tasks[current_task].left \in Nat \ {0}
  BY DEF TaskYield, IndInv, TypeOK, TaskRecord
<1>2. /\ ts \in [Slot -> TaskRecord]
      /\ \A i \in Slot : /\ ts[i].state = tasks[i].state
                         /\ ts[i].pid = tasks[i].pid
                         /\ ts[i].aspace = tasks[i].aspace
                         /\ ts[i].entry = tasks[i].entry
                         /\ ts[i].job = tasks[i].job
  BY <1>1, TasksTyped DEF TaskRecord
<1>3. sched_yield(ts) /\ NoSpawn /\ UNCHANGED <<shell, loop, target, profile>>
  BY DEF TaskYield
<1> HIDE DEF ts
<1>4. /\ shell # "user"
      /\ shell' \in {"spawn", "demo"} => loop' > 0 /\ next_pid + loop' <= MaxPid + 1
      /\ shell' = "wait" => SlotsOf(tasks, target') # {}
  BY <1>3 DEF TaskYield, IndInv, Shape, WaitTargetPresent
<1>5. QED
  BY <1>2, <1>3, <1>4, TasksTyped, YieldStep

-----------------------------------------------------------------------------
(* Steps that create a task.                                                *)

\* The sets the accounts count are finite.
LEMMA CountedFinite ==
  ASSUME IndInv
  PROVE  /\ IsFiniteSet(LiveWorkers) /\ Cardinality(LiveWorkers) \in Nat
         /\ IsFiniteSet(WorkloadTasks) /\ Cardinality(WorkloadTasks) \in Nat
         /\ \A p \in Pools : /\ IsFiniteSet(JobTasks(p)) /\ Cardinality(JobTasks(p)) \in Nat
                             /\ IsFiniteSet(jobs[p]) /\ Cardinality(jobs[p]) \in Nat
<1>1. LiveWorkers \in SUBSET Slot /\ WorkloadTasks \in SUBSET Slot
  BY DEF LiveWorkers, WorkloadTasks
<1>2. ASSUME NEW p \in Pools
      PROVE  JobTasks(p) \in SUBSET Slot /\ IsFiniteSet(jobs[p]) /\ Cardinality(jobs[p]) \in Nat
  <2>1. JobTasks(p) \in SUBSET Slot
    BY DEF JobTasks
  <2>2. jobs[p] \subseteq 1 .. JobsMax
    BY DEF IndInv, TypeOK
  <2>3. IsFiniteSet(1 .. JobsMax)
    BY SchedAssumption, FS_Interval
  <2>4. QED
    BY <2>1, <2>2, <2>3, FS_Subset, FS_CardinalityType
<1>3. QED
  BY <1>1, <1>2, SlotsFinite

\* What a spawn of entry function e had reserved, when it fails.
Reserved(e) == IF e \in WorkloadEntries THEN "workload" ELSE PoolOf(e)

\* The bookkeeping around a spawn with outcome r: the caller counts a
\* workload or takes job entry j before it knows whether the spawn works.
SpawnBooks(r, e, j) ==
  /\ jobs' = IF e \in ProgramEntries THEN [jobs EXCEPT ![PoolOf(e)] = @ \cup {j}] ELSE jobs
  /\ active_workloads' = IF e \in WorkloadEntries THEN active_workloads + 1
                         ELSE active_workloads
  /\ failed' = IF r.ok \/ e = "fork" THEN failed
               ELSE [failed EXCEPT ![Reserved(e)] = @ + 1]
  /\ e \in ProgramEntries => j \in (1 .. JobsMax) \ jobs[PoolOf(e)]

LEMMA StillBelow ==
  ASSUME NEW a \in Nat, NEW b \in Nat, NEW l \in Nat, NEW m \in Nat,
         b <= a + 1, a + 1 + l <= m + 1
  PROVE  b + l <= m + 1
OBVIOUS

\* A spawn keeps the tables well formed whether or not it works.
LEMMA SpawnShape ==
  ASSUME IndInv, shell # "user", next_pid <= MaxPid,
         NEW r, NEW e \in Entries \ {"shell"}, NEW j \in 0 .. JobsMax,
         SpawnOutcome(r, aspaces, e, j, 1), SpawnBooks(r, e, j),
         tasks' = r.tasks, aspaces' = r.aspaces, next_pid' = r.next_pid,
         UNCHANGED <<current_task, cr3, next_aspace, resched_pending, target, profile>>,
         loop' \in Nat, shell' \in ShellStates \ {"user", "wait"},
         shell' \in {"spawn", "demo"} => loop' > 0 /\ next_pid + 1 + loop' <= MaxPid + 1
  PROVE  TypeOK' /\ SingleRunning' /\ UserSpaceReclaimed' /\ Shape' /\ WaitTargetPresent'
<1>1. /\ TypeOK /\ SingleRunning /\ UserSpaceReclaimed /\ Shape
      /\ KernelAspace \in DOMAIN aspaces /\ DOMAIN aspaces = {KernelAspace} /\ cr3 = KernelAspace
  BY DEF IndInv, UserSpaceReclaimed
<1>2. /\ aspaces' \in [{KernelAspace} -> AspaceRecord]
      /\ aspaces'[KernelAspace].kind = aspaces[KernelAspace].kind
      /\ DOMAIN aspaces' = {KernelAspace}
  BY <1>1 DEF SpawnOutcome, KernelRefs
<1>3. UserSpaceReclaimed' /\ WaitTargetPresent'
  BY <1>1, <1>2 DEF UserSpaceReclaimed, WaitTargetPresent
<1>4. /\ jobs' \in [Pools -> SUBSET (1 .. JobsMax)]
      /\ active_workloads' \in Nat
      /\ failed' \in [Pools \cup {"workload"} -> Nat]
  <2>1. PoolOf(e) \in Pools /\ Reserved(e) \in Pools \cup {"workload"}
    BY DEF PoolOf, Pools, Reserved
  <2>2. QED
    BY <1>1, <2>1 DEF SpawnBooks, TypeOK
<1>5. next_pid' \in 2 .. MaxPid + 1 /\ next_pid' <= next_pid + 1
  <2>1. next_pid \in 2 .. MaxPid + 1 /\ MaxPid \in Nat
    BY <1>1, SchedAssumption DEF TypeOK
  <2>2. next_pid' = next_pid \/ next_pid' = next_pid + 1
    BY DEF SpawnOutcome
  <2>3. QED
    BY <2>1, <2>2
<1>6. 0 \in Slot
  BY SchedAssumption DEF Slot
<1>7. /\ tasks' \in [Slot -> TaskRecord] /\ SingleRunning'
      /\ tasks'[0] = tasks[0]
      /\ \A i \in Slot : \/ tasks'[i] = tasks[i]
                         \/ tasks'[i] = NewTask(e, j) /\ i # 0
  <2>1. CASE tasks' = tasks
    BY <1>1, <2>1 DEF TypeOK, SingleRunning
  <2>2. CASE tasks' # tasks
    <3>1. PICK k \in Slot \ {0} : ~IsLive(tasks[k]) /\ tasks' = [tasks EXCEPT ![k] = NewTask(e, j)]
      BY <2>2 DEF SpawnOutcome
    <3>2. /\ tasks' \in [Slot -> TaskRecord] /\ SingleRunning'
          /\ tasks'[k] = NewTask(e, j) /\ \A i \in Slot \ {k} : tasks'[i] = tasks[i]
      BY <1>1, <3>1, NewTaskEffect
    <3>3. QED
      BY <1>6, <3>2
  <2>3. QED
    BY <2>1, <2>2
<1>8. TypeOK'
  BY <1>1, <1>4, <1>5, <1>7 DEF TypeOK
<1>9. next_pid > 0 /\ next_pid \in Nat /\ loop' \in Nat /\ next_pid' \in Nat /\ MaxPid \in Nat
  BY <1>1, <1>5, SchedAssumption DEF TypeOK
<1>10. /\ NewTask(e, j).pid > 0 /\ NewTask(e, j).aspace = KernelAspace
       /\ NewTask(e, j).entry # "shell"
  BY <1>9 DEF NewTask
<1>11. shell' \in {"spawn", "demo"} => loop' > 0 /\ next_pid' + loop' <= MaxPid + 1
  <2> SUFFICES ASSUME shell' \in {"spawn", "demo"} PROVE loop' > 0 /\ next_pid' + loop' <= MaxPid + 1
    OBVIOUS
  <2>1. loop' > 0 /\ next_pid + 1 + loop' <= MaxPid + 1
    OBVIOUS
  <2>2. QED
    BY <1>5, <1>9, <2>1, StillBelow, Zenon
<1>12. Shape'
  BY <1>1, <1>2, <1>7, <1>10, <1>11 DEF Shape
<1>13. QED
  BY <1>3, <1>7, <1>8, <1>12

LEMMA SpawnAccounts ==
  ASSUME IndInv, next_pid <= MaxPid,
         NEW r, NEW e \in Entries \ {"shell"}, NEW j \in 0 .. JobsMax,
         SpawnOutcome(r, aspaces, e, j, 1), SpawnBooks(r, e, j),
         tasks' = r.tasks, aspaces' = r.aspaces, current_task' = current_task
  PROVE  RefcountBalanced' /\ WorkloadsAccounted' /\ JobsAccounted'
<1>1. /\ TypeOK /\ SingleRunning /\ Shape
      /\ RefcountBalanced /\ WorkloadsAccounted /\ JobsAccounted
      /\ active_workloads \in Nat /\ failed \in [Pools \cup {"workload"} -> Nat]
      /\ jobs \in [Pools -> SUBSET (1 .. JobsMax)]
      /\ aspaces[KernelAspace].refcount \in Nat
  BY DEF IndInv, TypeOK, Shape, RefcountBalanced, AspaceRecord
<1>2. /\ PoolOf(e) \in Pools /\ "workload" \notin Pools
      /\ e \in WorkloadEntries => e \notin ProgramEntries /\ e # "fork"
      /\ e \notin WorkloadEntries /\ e # "fork" => e \in ProgramEntries
      /\ "fork" \notin ProgramEntries \cup WorkloadEntries
  BY DEF Pools, PoolOf, WorkloadEntries, ProgramEntries, Entries
<1>3. \A p \in Pools :
        Cardinality(jobs'[p]) = IF e \in ProgramEntries /\ p = PoolOf(e)
                                THEN Cardinality(jobs[p]) + 1 ELSE Cardinality(jobs[p])
  <2> TAKE p \in Pools
  <2>1. CASE e \in ProgramEntries /\ p = PoolOf(e)
    <3>1. jobs'[p] = jobs[p] \cup {j} /\ j \notin jobs[p]
      BY <1>1, <2>1 DEF SpawnBooks
    <3>2. IsFiniteSet(jobs[p])
      BY CountedFinite
    <3>3. QED
      BY <2>1, <3>1, <3>2, FS_AddElement, ZenonT(30)
  <2>2. CASE ~(e \in ProgramEntries /\ p = PoolOf(e))
    <3>1. jobs'[p] = jobs[p]
      BY <1>1, <2>2 DEF SpawnBooks
    <3>2. QED
      BY <2>2, <3>1
  <2>3. QED
    BY <2>1, <2>2
<1>4. CASE r.ok = FALSE
  <2>1. tasks' = tasks /\ KernelRefs(aspaces, aspaces', 0)
    BY <1>4 DEF SpawnOutcome
  <2>2. /\ LiveWorkers' = LiveWorkers /\ WorkloadTasks' = WorkloadTasks
        /\ \A p \in Pools : JobTasks(p)' = JobTasks(p)
    BY <2>1 DEF LiveWorkers, WorkloadTasks, JobTasks
  <2>3. RefcountBalanced'
    BY <1>1, <2>1, <2>2 DEF RefcountBalanced, KernelRefs
  <2>4. /\ failed'["workload"] = IF e \in WorkloadEntries THEN failed["workload"] + 1
                                 ELSE failed["workload"]
        /\ \A p \in Pools : failed'[p] = IF e \in ProgramEntries /\ p = PoolOf(e)
                                         THEN failed[p] + 1 ELSE failed[p]
    BY <1>1, <1>2, <1>4 DEF SpawnBooks, Reserved
  <2>5. WorkloadsAccounted'
    BY <1>1, <2>2, <2>4, CountedFinite DEF SpawnBooks, WorkloadsAccounted
  <2>6. JobsAccounted'
    BY <1>1, <1>3, <2>2, <2>4, CountedFinite DEF JobsAccounted
  <2>7. QED
    BY <2>3, <2>5, <2>6
<1>5. CASE r.ok = TRUE
  <2>1. PICK k \in Slot \ {0} : ~IsLive(tasks[k]) /\ tasks' = [tasks EXCEPT ![k] = NewTask(e, j)]
    BY <1>5 DEF SpawnOutcome
  <2>2. /\ k \notin LiveWorkers /\ LiveWorkers' = LiveWorkers \cup {k}
        /\ k \notin WorkloadTasks
        /\ WorkloadTasks' = IF e \in WorkloadEntries THEN WorkloadTasks \cup {k}
                            ELSE WorkloadTasks
        /\ \A p \in Pools :
             /\ k \notin JobTasks(p)
             /\ JobTasks(p)' = IF e \in ProgramEntries /\ PoolOf(e) = p
                               THEN JobTasks(p) \cup {k} ELSE JobTasks(p)
    BY <1>1, <2>1, NewTaskEffect
  <2>3. /\ Cardinality(LiveWorkers') = Cardinality(LiveWorkers) + 1
        /\ Cardinality(WorkloadTasks') = IF e \in WorkloadEntries
                                         THEN Cardinality(WorkloadTasks) + 1
                                         ELSE Cardinality(WorkloadTasks)
    BY <2>2, CountedFinite, FS_AddElement
  <2>4. \A p \in Pools :
          Cardinality(JobTasks(p)') = IF e \in ProgramEntries /\ PoolOf(e) = p
                                      THEN Cardinality(JobTasks(p)) + 1
                                      ELSE Cardinality(JobTasks(p))
    <3> TAKE p \in Pools
    <3>1. k \notin JobTasks(p) /\ IsFiniteSet(JobTasks(p))
      BY <2>2, CountedFinite
    <3>2. Cardinality(JobTasks(p) \cup {k}) = Cardinality(JobTasks(p)) + 1
      BY <3>1, FS_AddElement
    <3>3. JobTasks(p)' = IF e \in ProgramEntries /\ PoolOf(e) = p
                         THEN JobTasks(p) \cup {k} ELSE JobTasks(p)
      BY <2>2
    <3>4. QED
      BY <3>2, <3>3
  <2>5. failed' = failed /\ KernelRefs(aspaces, aspaces', 1)
    BY <1>5 DEF SpawnBooks, SpawnOutcome
  <2>6. RefcountBalanced'
    BY <1>1, <2>3, <2>5, CountedFinite DEF RefcountBalanced, KernelRefs
  <2>7. WorkloadsAccounted'
    BY <1>1, <2>3, <2>5, CountedFinite DEF SpawnBooks, WorkloadsAccounted
  <2>8. JobsAccounted'
    BY <1>1, <1>3, <2>4, <2>5, CountedFinite DEF JobsAccounted
  <2>9. QED
    BY <2>6, <2>7, <2>8
<1>6. QED
  BY <1>4, <1>5 DEF SpawnOutcome

LEMMA SpawnJobs ==
  ASSUME IndInv, next_pid <= MaxPid,
         NEW r, NEW e \in Entries \ {"shell"}, NEW j \in 0 .. JobsMax,
         SpawnOutcome(r, aspaces, e, j, 1), SpawnBooks(r, e, j),
         tasks' = r.tasks, current_task' = current_task
  PROVE  JobExclusive'
<1>1. /\ TypeOK /\ SingleRunning /\ Shape /\ JobExclusive
      /\ jobs \in [Pools -> SUBSET (1 .. JobsMax)]
  BY DEF IndInv, TypeOK
<1>2. PoolOf(e) \in Pools
  BY DEF Pools, PoolOf
<1>3. ASSUME NEW p \in Pools PROVE jobs[p] \subseteq jobs'[p]
  BY <1>1, <1>2 DEF SpawnBooks
<1>4. SUFFICES ASSUME NEW p \in Pools, NEW i \in JobTasks(p)'
               PROVE  /\ tasks'[i].job \in jobs'[p]
                      /\ \A m \in JobTasks(p)' : tasks'[i].job = tasks'[m].job => i = m
  BY DEF JobExclusive
<1>5. CASE tasks' = tasks
  <2>1. JobTasks(p)' = JobTasks(p)
    BY <1>5 DEF JobTasks
  <2>2. QED
    BY <1>1, <1>3, <1>5, <2>1 DEF JobExclusive
<1>6. CASE tasks' # tasks
  <2>1. PICK k \in Slot \ {0} : ~IsLive(tasks[k]) /\ tasks' = [tasks EXCEPT ![k] = NewTask(e, j)]
    BY <1>6 DEF SpawnOutcome
  <2>2. /\ tasks'[k].job = j
        /\ \A m \in Slot \ {k} : tasks'[m] = tasks[m]
        /\ k \notin JobTasks(p)
        /\ JobTasks(p)' = IF e \in ProgramEntries /\ PoolOf(e) = p
                          THEN JobTasks(p) \cup {k} ELSE JobTasks(p)
    <3>1. tasks'[k] = NewTask(e, j)
      BY <1>1, <2>1, NewTaskEffect
    <3>2. tasks'[k].job = j
      BY <3>1 DEF NewTask
    <3>3. QED
      BY <1>1, <2>1, <3>2, NewTaskEffect
  <2>3. \A m \in JobTasks(p) : m \in Slot \ {k} /\ tasks'[m].job \in jobs[p]
    BY <1>1, <2>2 DEF JobTasks, JobExclusive
  <2>4. \A m \in JobTasks(p), l \in JobTasks(p) : tasks'[m].job = tasks'[l].job => m = l
    BY <1>1, <2>2, <2>3 DEF JobExclusive
  <2>5. k \in JobTasks(p)' => j \in jobs'[p] /\ j \notin jobs[p]
    BY <1>1, <1>2, <2>2 DEF SpawnBooks
  <2>6. QED
    BY <1>3, <2>2, <2>3, <2>4, <2>5
<1>7. QED
  BY <1>5, <1>6

LEMMA SpawnStep ==
  ASSUME IndInv, shell # "user", next_pid <= MaxPid,
         NEW r, NEW e \in Entries \ {"shell"}, NEW j \in 0 .. JobsMax,
         SpawnOutcome(r, aspaces, e, j, 1), SpawnBooks(r, e, j),
         tasks' = r.tasks, aspaces' = r.aspaces, next_pid' = r.next_pid,
         UNCHANGED <<current_task, cr3, next_aspace, resched_pending, target, profile>>,
         loop' \in Nat, shell' \in ShellStates \ {"user", "wait"},
         shell' \in {"spawn", "demo"} => loop' > 0 /\ next_pid + 1 + loop' <= MaxPid + 1
  PROVE  IndInv'
<1>1. TypeOK' /\ SingleRunning' /\ UserSpaceReclaimed' /\ Shape' /\ WaitTargetPresent'
  BY SpawnShape
<1>2. RefcountBalanced' /\ WorkloadsAccounted' /\ JobsAccounted'
  BY SpawnAccounts
<1>3. JobExclusive'
  BY SpawnJobs
<1>4. QED
  BY <1>1, <1>2, <1>3 DEF IndInv

LEMMA ForkInv == ASSUME IndInv, Fork PROVE IndInv'
<1> DEFINE r == sched_spawn_with_parent(tasks, aspaces, next_pid, "fork", current_task)
<1>1. SpawnOutcome(r, aspaces, "fork", 0, 1)
  BY SpawnParentEffect DEF IndInv
<1>2. /\ tasks' = r.tasks /\ aspaces' = r.aspaces /\ next_pid' = r.next_pid
      /\ UNCHANGED <<current_task, cr3, next_aspace, resched_pending, target, profile>>
      /\ UNCHANGED <<jobs, active_workloads, failed, loop>>
      /\ next_pid <= MaxPid /\ shell # "user" /\ shell' = "post"
  BY DEF Fork, ShellAt
<1> HIDE DEF r
<1>3. "fork" \in Entries \ {"shell"} /\ 0 \in 0 .. JobsMax /\ "fork" \notin ProgramEntries \cup WorkloadEntries
  BY SchedAssumption DEF Entries, ProgramEntries, WorkloadEntries
<1>4. SpawnBooks(r, "fork", 0)
  BY <1>2, <1>3 DEF SpawnBooks
<1>5. /\ loop' \in Nat /\ shell' \in ShellStates \ {"user", "wait"}
      /\ shell' \notin {"spawn", "demo"}
  BY <1>2, TasksTyped DEF ShellStates
<1>6. QED
  BY <1>1, <1>2, <1>3, <1>4, <1>5, SpawnStep

LEMMA SpawnWorkerInv == ASSUME IndInv, SpawnWorker PROVE IndInv'
<1> DEFINE r == sched_spawn_with_parent(tasks, aspaces, next_pid, profile, current_task)
<1>1. SpawnOutcome(r, aspaces, profile, 0, 1)
  BY SpawnParentEffect DEF IndInv
<1>2. /\ tasks' = r.tasks /\ aspaces' = r.aspaces /\ next_pid' = r.next_pid
      /\ UNCHANGED <<current_task, cr3, next_aspace, resched_pending, target, profile>>
      /\ active_workloads' = active_workloads + 1 /\ jobs' = jobs /\ loop' = loop - 1
      /\ failed' = IF r.ok THEN failed ELSE [failed EXCEPT !["workload"] = @ + 1]
      /\ shell \in {"spawn", "demo"}
      /\ shell' = IF loop > 1 THEN shell ELSE IF shell = "demo" THEN "drain" ELSE "post"
  BY DEF SpawnWorker
<1> HIDE DEF r
<1>3. /\ profile \in Entries \ {"shell"} /\ 0 \in 0 .. JobsMax
      /\ profile \in WorkloadEntries /\ profile \notin ProgramEntries /\ profile # "fork"
  BY SchedAssumption, TasksTyped DEF Entries, ProgramEntries, WorkloadEntries
<1>4. SpawnBooks(r, profile, 0)
  BY <1>2, <1>3 DEF SpawnBooks, Reserved
<1>5. loop \in Nat /\ loop > 0 /\ next_pid + loop <= MaxPid + 1 /\ next_pid \in Nat /\ MaxPid \in Nat
  BY <1>2, TasksTyped, SchedAssumption DEF IndInv, Shape
<1>6. /\ next_pid <= MaxPid /\ loop' \in Nat
      /\ loop > 1 => loop' > 0 /\ next_pid + 1 + loop' <= MaxPid + 1
  BY <1>2, <1>5
<1>7. /\ shell' \in ShellStates \ {"user", "wait"} /\ shell # "user"
      /\ shell' \in {"spawn", "demo"} => loop > 1
  BY <1>2 DEF ShellStates
<1>8. QED
  BY <1>1, <1>2, <1>3, <1>4, <1>6, <1>7, SpawnStep

\* execve holds a reference of its own to the kernel's space meanwhile.
LEMMA ExecveInv == ASSUME IndInv, NEW prog \in Programs, Execve(prog) PROVE IndInv'
<1> DEFINE pool == PoolOf(prog)
           free == FreeJobs(pool)
           held == aspace_retain(aspaces, KernelAspace)
           q == sched_spawn_with_parent_aspace(tasks, held, next_pid, prog, Min(free), KernelAspace)
           r == [q EXCEPT !.aspaces = aspace_release(q.aspaces, KernelAspace)]
<1>1. /\ KernelAspace \in DOMAIN aspaces /\ aspaces \in [DOMAIN aspaces -> AspaceRecord]
      /\ aspaces[KernelAspace].refcount \in Nat
  BY DEF IndInv, Shape, RefcountBalanced, AspaceRecord
<1>2. KernelRefs(aspaces, held, 1)
  BY <1>1, RetainKernel
<1>3. /\ KernelAspace \in DOMAIN held /\ held \in [DOMAIN held -> AspaceRecord]
      /\ DOMAIN held = DOMAIN aspaces
      /\ held[KernelAspace].refcount = aspaces[KernelAspace].refcount + 1
  BY <1>1, <1>2 DEF KernelRefs
<1>4. ASSUME NEW tbl, NEW d \in {0, 1}, KernelRefs(held, tbl, d)
      PROVE  KernelRefs(aspaces, aspace_release(tbl, KernelAspace), d)
  <2>1. /\ KernelAspace \in DOMAIN tbl /\ tbl \in [DOMAIN tbl -> AspaceRecord]
        /\ DOMAIN tbl = DOMAIN aspaces
        /\ tbl[KernelAspace].refcount = held[KernelAspace].refcount + d
        /\ tbl[KernelAspace].refcount > 0
    BY <1>1, <1>3, <1>4 DEF KernelRefs
  <2>2. KernelRefs(tbl, aspace_release(tbl, KernelAspace), -1)
    BY <2>1, ReleaseKernel
  <2> HIDE DEF held
  <2>3. QED
    BY <1>1, <1>2, <1>3, <1>4, <2>1, <2>2 DEF KernelRefs
<1>5. /\ ShellAt("prompt") /\ next_pid <= MaxPid /\ shell' = "post"
      /\ UNCHANGED <<current_task, resched_pending, next_aspace, cr3,
                    active_workloads, loop, target, profile>>
      /\ \/ /\ aspaces' = aspace_release(held, KernelAspace)
            /\ UNCHANGED <<tasks, next_pid, jobs, failed>>
         \/ /\ free # {}
            /\ jobs' = [jobs EXCEPT ![pool] = @ \cup {Min(free)}]
            /\ tasks' = q.tasks
            /\ next_pid' = q.next_pid
            /\ aspaces' = aspace_release(q.aspaces, KernelAspace)
            /\ failed' = IF q.ok THEN failed ELSE [failed EXCEPT ![pool] = @ + 1]
  BY DEF Execve
<1>6. CASE /\ aspaces' = aspace_release(held, KernelAspace)
           /\ UNCHANGED <<tasks, next_pid, jobs, failed>>
  <2>1. KernelRefs(aspaces, aspaces', 0)
    <3>1. KernelRefs(held, held, 0)
      BY <1>3 DEF KernelRefs, AspaceRecord
    <3>2. QED
      BY <1>4, <1>6, <3>1
  <2>2. aspaces' = aspaces
    BY <1>1, <2>1 DEF KernelRefs, AspaceRecord
  <2>3. shell' \in ShellStates \ {"user", "spawn", "demo", "wait"} /\ shell # "user"
    BY <1>5 DEF ShellStates, ShellAt
  <2>4. QED
    BY <1>5, <1>6, <2>2, <2>3, TasksTyped, IdleStep DEF NoSpawn
<1>7. CASE /\ free # {}
           /\ jobs' = [jobs EXCEPT ![pool] = @ \cup {Min(free)}]
           /\ tasks' = q.tasks
           /\ next_pid' = q.next_pid
           /\ aspaces' = aspace_release(q.aspaces, KernelAspace)
           /\ failed' = IF q.ok THEN failed ELSE [failed EXCEPT ![pool] = @ + 1]
  <2> DEFINE j == Min(free)
  <2>1. j \in free
    <3>1. free \subseteq Nat
      BY SchedAssumption DEF FreeJobs
    <3>2. QED
      BY <1>7, <3>1, MinIsLeast
  <2>2. SpawnOutcome(q, held, prog, j, 1)
    BY <1>3, SpawnAspaceEffect DEF IndInv
  <2>3. q = [ok |-> q.ok, tasks |-> q.tasks, aspaces |-> q.aspaces, next_pid |-> q.next_pid]
    BY DEF sched_spawn_with_parent_aspace
  <2> HIDE DEF q, held, j
  <2>4. /\ r.ok = q.ok /\ r.tasks = q.tasks /\ r.next_pid = q.next_pid
        /\ r.aspaces = aspace_release(q.aspaces, KernelAspace)
    BY <2>3
  <2> HIDE DEF r
  <2>5. SpawnOutcome(r, aspaces, prog, j, 1)
    BY <1>4, <2>2, <2>4 DEF SpawnOutcome
  <2>6. /\ prog \in Entries \ {"shell"} /\ prog \in ProgramEntries
        /\ prog \notin WorkloadEntries /\ prog # "fork" /\ pool = PoolOf(prog)
    BY SchedAssumption DEF Entries, ProgramEntries, WorkloadEntries, PoolOf
  <2>7. SpawnBooks(r, prog, j)
    BY <1>5, <1>7, <2>1, <2>4, <2>6 DEF SpawnBooks, Reserved, FreeJobs, j
  <2>8. j \in 0 .. JobsMax
    BY <2>1, SchedAssumption DEF FreeJobs
  <2>9. /\ shell' \in ShellStates \ {"user", "wait"} /\ shell # "user"
        /\ shell' \notin {"spawn", "demo"} /\ loop' \in Nat
    BY <1>5, TasksTyped DEF ShellStates, ShellAt
  <2>10. tasks' = r.tasks /\ aspaces' = r.aspaces /\ next_pid' = r.next_pid
    BY <1>7, <2>4
  <2>11. QED
    BY <1>5, <2>5, <2>6, <2>7, <2>8, <2>9, <2>10, SpawnStep
<1>8. QED
  BY <1>5, <1>6, <1>7

\* demo record only drops tasks that are dead.
LEMMA DemoRecordInv == ASSUME IndInv, NEW p \in Demos, DemoRecord(p) PROVE IndInv'
<1>1. /\ tasks' = ForgetZombies(tasks) /\ next_pid' = 2 /\ shell = "prompt" /\ shell' = "demo"
      /\ loop' = Workers(p) /\ profile' = p /\ 1 + Workers(p) <= MaxPid
      /\ UNCHANGED <<current_task, resched_pending, aspaces, next_aspace, cr3, jobs,
                     active_workloads, target, failed>>
  BY DEF DemoRecord, ShellAt
<1>2. /\ TypeOK /\ SingleRunning /\ UserSpaceReclaimed /\ Shape
      /\ RefcountBalanced /\ WorkloadsAccounted /\ JobExclusive /\ JobsAccounted
  BY DEF IndInv
<1>3. EmptySlot \in TaskRecord /\ EmptySlot.entry # "shell" /\ EmptySlot.state = "empty"
  BY SchedAssumption DEF EmptySlot, TaskRecord, Entries
<1>4. \A i \in Slot : \/ tasks'[i] = tasks[i]
                      \/ i # 0 /\ tasks[i].state = "zombie" /\ tasks'[i] = EmptySlot
  BY <1>1 DEF ForgetZombies
<1>5. tasks' \in [Slot -> TaskRecord] /\ 0 \in Slot
  BY <1>1, <1>2, <1>3, SchedAssumption DEF ForgetZombies, TypeOK, Slot
<1>6. \A i \in Slot : IsLive(tasks'[i]) \/ IsLive(tasks[i]) => tasks'[i] = tasks[i]
  BY <1>3, <1>4 DEF IsLive
<1>7. \A i \in Slot : tasks'[i].state = "running" <=> tasks[i].state = "running"
  BY <1>3, <1>4
<1>8. SingleRunning' /\ UserSpaceReclaimed' /\ WaitTargetPresent'
  BY <1>1, <1>2, <1>7 DEF SingleRunning, UserSpaceReclaimed, WaitTargetPresent
<1>9. /\ loop' \in Nat /\ loop' > 0 /\ 2 + loop' <= MaxPid + 1 /\ 2 \in 2 .. MaxPid + 1
      /\ profile' \in WorkloadEntries /\ shell' \in ShellStates
  BY <1>1, SchedAssumption DEF Workers, ShellStates
<1>10. TypeOK'
  BY <1>1, <1>2, <1>5, <1>9 DEF TypeOK
<1>11. Shape'
  BY <1>1, <1>2, <1>3, <1>4, <1>5, <1>9 DEF Shape
<1>12. /\ LiveWorkers' = LiveWorkers /\ WorkloadTasks' = WorkloadTasks
       /\ \A q \in Pools : JobTasks(q)' = JobTasks(q)
  BY <1>6 DEF LiveWorkers, WorkloadTasks, JobTasks
<1>13. \A q \in Pools : \A i \in JobTasks(q) : tasks'[i] = tasks[i]
  BY <1>6 DEF JobTasks
<1>14. RefcountBalanced' /\ WorkloadsAccounted'
  BY <1>1, <1>2, <1>12 DEF RefcountBalanced, WorkloadsAccounted
<1>15. JobExclusive' /\ JobsAccounted'
  BY <1>1, <1>2, <1>12, <1>13 DEF JobExclusive, JobsAccounted
<1>16. QED
  BY <1>8, <1>10, <1>11, <1>14, <1>15 DEF IndInv

-----------------------------------------------------------------------------
(* Ring 3.                                                                  *)

\* builtin_exec_run_sync touches no task and no reference to the kernel's
\* space, whatever fails on its way.
LEMMA RunStep ==
  ASSUME IndInv, shell' \in ShellStates \ {"spawn", "demo", "wait"}, current_task = 0,
         UNCHANGED <<tasks, current_task, next_pid, resched_pending, jobs,
                     active_workloads, loop, target, profile, failed>>,
         KernelAspace \in DOMAIN aspaces', aspaces'[KernelAspace] = aspaces[KernelAspace],
         aspaces' \in [DOMAIN aspaces' -> AspaceRecord],
         next_aspace' \in Nat \ {0, 1}, \A a \in DOMAIN aspaces' : a < next_aspace',
         cr3' \in Nat, UserSpaceReclaimed'
  PROVE  IndInv'
<1>1. TypeOK' /\ SingleRunning'
  BY DEF IndInv, TypeOK, SingleRunning
<1>2. Shape'
  BY DEF IndInv, Shape
<1>3. /\ LiveWorkers' = LiveWorkers /\ WorkloadTasks' = WorkloadTasks
      /\ \A q \in Pools : JobTasks(q)' = JobTasks(q)
  BY DEF LiveWorkers, WorkloadTasks, JobTasks
<1>4. RefcountBalanced' /\ WorkloadsAccounted' /\ WaitTargetPresent'
  BY <1>3 DEF IndInv, RefcountBalanced, WorkloadsAccounted, WaitTargetPresent
<1>5. JobExclusive' /\ JobsAccounted'
  BY <1>3 DEF IndInv, JobExclusive, JobsAccounted
<1>6. QED
  BY <1>1, <1>2, <1>4, <1>5 DEF IndInv

LEMMA RunUserInv == ASSUME IndInv, RunUser PROVE IndInv'
<1> DEFINE filled == aspace_create(aspaces, next_aspace, "user")
<1>1. /\ DOMAIN aspaces = {KernelAspace} /\ cr3 = KernelAspace
      /\ aspaces \in [{KernelAspace} -> AspaceRecord]
      /\ next_aspace \in Nat \ {0, 1} /\ KernelAspace = 1
      /\ current_task = 0 /\ shell = "prompt"
  BY DEF RunUser, ShellAt, IndInv, TypeOK, UserSpaceReclaimed, Shape, KernelAspace
<1>2. UNCHANGED <<tasks, current_task, next_pid, resched_pending, jobs,
                  active_workloads, loop, target, profile, failed>>
  BY DEF RunUser
<1>3. /\ DOMAIN filled = {KernelAspace, next_aspace}
      /\ filled \in [{KernelAspace, next_aspace} -> AspaceRecord]
      /\ filled[KernelAspace] = aspaces[KernelAspace]
      /\ filled[next_aspace] = [kind |-> "user", refcount |-> 1]
  BY <1>1 DEF aspace_create, AspaceRecord
<1>4. aspace_release(filled, next_aspace) = aspaces
  <2> HIDE DEF filled
  <2>1. aspace_release(filled, next_aspace) = [a \in {KernelAspace} |-> filled[a]]
    BY <1>1, <1>3 DEF aspace_release
  <2>2. QED
    BY <1>1, <1>3, <2>1
<1>5. \/ /\ shell' = "post" /\ aspaces' = aspaces /\ cr3' = cr3
         /\ next_aspace' = next_aspace \/ next_aspace' = next_aspace + 1
      \/ /\ shell' = "user" /\ aspaces' = filled /\ next_aspace' = next_aspace + 1
         /\ cr3' = aspace_switch(filled, cr3, next_aspace)
  BY <1>4 DEF RunUser
<1> HIDE DEF filled
<1>6. CASE /\ shell' = "post" /\ aspaces' = aspaces /\ cr3' = cr3
           /\ next_aspace' = next_aspace \/ next_aspace' = next_aspace + 1
  <2>1. UserSpaceReclaimed' /\ shell' \in ShellStates \ {"spawn", "demo", "wait"}
    BY <1>1, <1>6 DEF UserSpaceReclaimed, ShellStates
  <2>2. QED
    BY <1>1, <1>2, <1>6, <2>1, RunStep
<1>7. CASE /\ shell' = "user" /\ aspaces' = filled /\ next_aspace' = next_aspace + 1
           /\ cr3' = aspace_switch(filled, cr3, next_aspace)
  <2>1. cr3' = next_aspace
    BY <1>3, <1>7 DEF aspace_switch
  <2>2. UserSpaceReclaimed' /\ shell' \in ShellStates \ {"spawn", "demo", "wait"}
    BY <1>1, <1>3, <1>7, <2>1 DEF UserSpaceReclaimed, ShellStates
  <2>3. QED
    BY <1>1, <1>2, <1>3, <1>7, <2>1, <2>2, RunStep
<1>8. QED
  BY <1>5, <1>6, <1>7

LEMMA UserReturnInv == ASSUME IndInv, UserReturn PROVE IndInv'
<1>1. /\ DOMAIN aspaces = {KernelAspace, cr3} /\ cr3 # KernelAspace
      /\ aspaces[cr3].refcount = 1
      /\ aspaces \in [{KernelAspace, cr3} -> AspaceRecord]
      /\ next_aspace \in Nat \ {0, 1} /\ KernelAspace < next_aspace /\ KernelAspace \in Nat
  BY DEF UserReturn, ShellAt, IndInv, TypeOK, UserSpaceReclaimed, Shape, KernelAspace
<1>2. /\ UNCHANGED <<tasks, current_task, next_pid, resched_pending, jobs, next_aspace,
                     active_workloads, loop, target, profile, failed>>
      /\ current_task = 0 /\ shell' = "post"
  BY DEF UserReturn, ShellAt
<1>3. cr3' = KernelAspace
  <2>1. tasks[0].aspace = KernelAspace /\ 0 \in Slot
    BY SchedAssumption DEF IndInv, Shape, IsLive, Slot
  <2>2. QED
    BY <1>1, <1>2, <2>1 DEF UserReturn, aspace_switch
<1>4. aspaces' = [a \in {KernelAspace} |-> aspaces[a]]
  BY <1>1 DEF UserReturn, aspace_release
<1>5. UserSpaceReclaimed' /\ shell' \in ShellStates \ {"spawn", "demo", "wait"}
  BY <1>2, <1>3, <1>4 DEF UserSpaceReclaimed, ShellStates
<1>6. QED
  BY <1>1, <1>2, <1>3, <1>4, <1>5, RunStep

-----------------------------------------------------------------------------
(* The exit of a task.                                                      *)

LEMMA TaskExitInv == ASSUME IndInv, TaskExit PROVE IndInv'
<1> DEFINE t == tasks[current_task]
<1>1. /\ TypeOK /\ SingleRunning /\ UserSpaceReclaimed /\ Shape
      /\ RefcountBalanced /\ WorkloadsAccounted /\ JobExclusive /\ JobsAccounted
      /\ active_workloads \in Nat /\ failed \in [Pools \cup {"workload"} -> Nat]
      /\ jobs \in [Pools -> SUBSET (1 .. JobsMax)]
      /\ current_task \in Slot
  BY DEF IndInv, TypeOK
<1>2. /\ current_task # 0 /\ t.state = "running" /\ IsLive(t)
      /\ active_workloads' = IF t.entry \in WorkloadEntries
                             THEN active_workloads - 1 ELSE active_workloads
      /\ jobs' = IF t.entry \in ProgramEntries
                 THEN [jobs EXCEPT ![PoolOf(t.entry)] = @ \ {t.job}] ELSE jobs
      /\ UNCHANGED <<next_pid, next_aspace, shell, loop, target, profile, failed>>
  BY DEF TaskExit, WorkloadsWithout, JobsWithout, IsLive
<1>3. /\ tasks' \in [Slot -> TaskRecord]
      /\ current_task' \in Slot
      /\ SingleRunning'
      /\ \A i \in Slot : /\ tasks'[i].pid = tasks[i].pid
                         /\ tasks'[i].aspace = tasks[i].aspace
                         /\ tasks'[i].entry = tasks[i].entry
                         /\ tasks'[i].job = tasks[i].job
                         /\ tasks'[i].state = "empty" <=> tasks[i].state = "empty"
                         /\ IsLive(tasks'[i]) <=> IsLive(tasks[i]) /\ i # current_task
      /\ cr3' = KernelAspace
      /\ aspaces' = aspace_release(aspaces, KernelAspace)
      /\ resched_pending' = FALSE
  BY <1>1, <1>2, ExitEffect
<1>4. shell # "user" /\ shell' # "user" /\ DOMAIN aspaces = {KernelAspace}
  BY <1>1, <1>2 DEF Shape, UserSpaceReclaimed
<1>5. /\ current_task \in LiveWorkers
      /\ LiveWorkers' = LiveWorkers \ {current_task}
      /\ WorkloadTasks' = WorkloadTasks \ {current_task}
      /\ t.entry \in WorkloadEntries <=> current_task \in WorkloadTasks
  BY <1>1, <1>2, <1>3 DEF LiveWorkers, WorkloadTasks
<1>6. ASSUME NEW p \in Pools
      PROVE  /\ JobTasks(p)' = JobTasks(p) \ {current_task}
             /\ current_task \in JobTasks(p) <=> t.entry \in ProgramEntries /\ PoolOf(t.entry) = p
  BY <1>1, <1>2, <1>3 DEF JobTasks
<1>7. /\ Cardinality(LiveWorkers') = Cardinality(LiveWorkers) - 1
      /\ Cardinality(LiveWorkers) \in Nat \ {0}
  <2>1. IsFiniteSet(LiveWorkers) /\ Cardinality(LiveWorkers) \in Nat
    BY CountedFinite
  <2>2. Cardinality(LiveWorkers') = Cardinality(LiveWorkers) - 1
    BY <1>5, <2>1, FS_RemoveElement
  <2>3. Cardinality(LiveWorkers) # 0
    BY <1>5, <2>1, FS_EmptySet
  <2>4. QED
    BY <2>1, <2>2, <2>3
<1>8. KernelRefs(aspaces, aspaces', -1)
  BY <1>1, <1>3, <1>7, ReleaseKernel DEF RefcountBalanced, Shape
<1>9. RefcountBalanced'
  BY <1>1, <1>7, <1>8 DEF RefcountBalanced, KernelRefs
<1>10. WorkloadsAccounted' /\ active_workloads' \in Nat
  <2>1. IsFiniteSet(WorkloadTasks) /\ Cardinality(WorkloadTasks) \in Nat
    BY CountedFinite
  <2>2. Cardinality(WorkloadTasks') = IF t.entry \in WorkloadEntries
                                      THEN Cardinality(WorkloadTasks) - 1
                                      ELSE Cardinality(WorkloadTasks)
    BY <1>5, <2>1, FS_RemoveElement
  <2>3. t.entry \in WorkloadEntries => Cardinality(WorkloadTasks) # 0
    BY <1>5, <2>1, FS_EmptySet
  <2>4. failed["workload"] \in Nat
    BY <1>1
  <2>5. QED
    BY <1>1, <1>2, <2>1, <2>2, <2>3, <2>4 DEF WorkloadsAccounted
<1>11. PoolOf(t.entry) \in Pools
  BY DEF PoolOf, Pools
<1>12. JobsAccounted'
  <2> SUFFICES ASSUME NEW p \in Pools
               PROVE  Cardinality(jobs'[p]) = Cardinality(JobTasks(p)') + failed'[p]
    BY DEF JobsAccounted
  <2>1. /\ IsFiniteSet(JobTasks(p)) /\ Cardinality(JobTasks(p)) \in Nat
        /\ IsFiniteSet(jobs[p]) /\ Cardinality(jobs[p]) \in Nat
        /\ failed[p] \in Nat /\ failed'[p] = failed[p]
        /\ Cardinality(jobs[p]) = Cardinality(JobTasks(p)) + failed[p]
    BY <1>1, <1>2, CountedFinite DEF JobsAccounted
  <2>2. CASE current_task \in JobTasks(p)
    <3>1. jobs'[p] = jobs[p] \ {t.job} /\ t.job \in jobs[p]
      BY <1>1, <1>2, <1>6, <2>2 DEF JobExclusive
    <3>2. Cardinality(jobs'[p]) = Cardinality(jobs[p]) - 1
      <4>1. \A x \in jobs[p] : Cardinality(jobs[p] \ {x}) = Cardinality(jobs[p]) - 1
        BY <2>1, FS_RemoveElement
      <4>2. QED
        BY <3>1, <4>1
    <3>3. Cardinality(JobTasks(p)') = Cardinality(JobTasks(p)) - 1
      BY <1>6, <2>1, <2>2, FS_RemoveElement
    <3>4. QED
      BY <2>1, <3>2, <3>3
  <2>3. CASE current_task \notin JobTasks(p)
    <3>1. ~(t.entry \in ProgramEntries /\ PoolOf(t.entry) = p)
      BY <1>6, <2>3
    <3>2. jobs'[p] = jobs[p]
      BY <1>1, <1>2, <1>11, <3>1
    <3>3. JobTasks(p)' = JobTasks(p)
      BY <1>6, <2>3
    <3>4. QED
      BY <2>1, <3>2, <3>3
  <2>4. QED
    BY <2>2, <2>3
<1>13. JobExclusive'
  <2> SUFFICES ASSUME NEW p \in Pools, NEW i \in JobTasks(p)'
               PROVE  /\ tasks'[i].job \in jobs'[p]
                      /\ \A m \in JobTasks(p)' : tasks'[i].job = tasks'[m].job => i = m
    BY DEF JobExclusive
  <2>1. \A m \in JobTasks(p)' : /\ m \in JobTasks(p) /\ m # current_task
                                /\ tasks'[m].job = tasks[m].job
    BY <1>3, <1>6 DEF JobTasks
  <2>2. /\ tasks[i].job \in jobs[p]
        /\ \A m \in JobTasks(p) : tasks[i].job = tasks[m].job => i = m
    BY <1>1, <2>1 DEF JobExclusive
  <2>3. tasks[i].job \in jobs'[p]
    BY <1>1, <1>2, <1>6, <1>11, <2>1, <2>2
  <2>4. QED
    BY <2>1, <2>2, <2>3
<1>14. jobs' \in [Pools -> SUBSET (1 .. JobsMax)]
  BY <1>1, <1>2, <1>11
<1>15. TypeOK'
  BY <1>1, <1>2, <1>3, <1>10, <1>14 DEF TypeOK, KernelAspace
<1>16. UserSpaceReclaimed'
  BY <1>3, <1>4, <1>8 DEF UserSpaceReclaimed, KernelRefs
<1>17. Shape'
  <2>1. 0 \in Slot
    BY SchedAssumption DEF Slot
  <2>2. /\ aspaces' \in [DOMAIN aspaces' -> AspaceRecord]
        /\ DOMAIN aspaces' = DOMAIN aspaces
        /\ aspaces'[KernelAspace].kind = aspaces[KernelAspace].kind
    BY <1>8 DEF KernelRefs
  <2>3. QED
    BY <1>1, <1>2, <1>3, <1>4, <2>1, <2>2 DEF Shape
<1>18. WaitTargetPresent'
  <2>1. SlotsOf(tasks', target') = SlotsOf(tasks, target)
    BY <1>2, <1>3 DEF SlotsOf, task_visible
  <2>2. QED
    BY <1>2, <2>1 DEF IndInv, WaitTargetPresent
<1>19. QED
  BY <1>3, <1>9, <1>10, <1>12, <1>13, <1>15, <1>16, <1>17, <1>18 DEF IndInv

-----------------------------------------------------------------------------
(* The invariant.                                                           *)

LEMMA InitInv == Init => IndInv
<1> SUFFICES ASSUME Init PROVE IndInv
  OBVIOUS
<1>1. /\ 0 \in Slot /\ KernelAspace = 1 /\ NoAspace = 0
      /\ EmptySlot \in TaskRecord /\ EmptySlot.state = "empty" /\ EmptySlot.entry # "shell"
  BY SchedAssumption DEF Slot, KernelAspace, NoAspace, EmptySlot, TaskRecord, Entries
<1>2. /\ tasks[0] = [EmptySlot EXCEPT !.state = "running", !.pid = 1,
                                      !.aspace = KernelAspace, !.entry = "shell"]
      /\ \A i \in Slot \ {0} : tasks[i] = EmptySlot
      /\ tasks = [i \in Slot |-> tasks[i]]
  BY <1>1 DEF Init
<1>3. /\ tasks[0] \in TaskRecord /\ tasks[0].state = "running" /\ tasks[0].pid = 1
      /\ tasks[0].aspace = KernelAspace /\ tasks[0].entry = "shell"
  <2>1. tasks[0] = [state |-> "running", pid |-> 1, aspace |-> KernelAspace,
                    entry |-> "shell", job |-> 0, left |-> 0]
    BY <1>2 DEF EmptySlot
  <2>2. 1 \in 0 .. MaxPid /\ 0 \in 0 .. JobsMax /\ "shell" \in Entries
    BY SchedAssumption DEF Entries
  <2>3. QED
    BY <2>1, <2>2 DEF TaskRecord
<1>4. tasks \in [Slot -> TaskRecord]
  BY <1>1, <1>2, <1>3
<1>5. /\ aspaces \in [{KernelAspace} -> AspaceRecord] /\ DOMAIN aspaces = {KernelAspace}
      /\ aspaces[KernelAspace].kind = "kernel" /\ aspaces[KernelAspace].refcount = 1
  BY DEF Init, aspace_init, AspaceRecord
<1>6. TypeOK
  <2>1. /\ 2 \in 2 .. MaxPid + 1 /\ 0 \in 0 .. MaxPid
        /\ "prompt" \in ShellStates /\ "attack" \in WorkloadEntries
    BY SchedAssumption DEF ShellStates, WorkloadEntries
  <2>2. /\ jobs \in [Pools -> SUBSET (1 .. JobsMax)]
        /\ failed \in [Pools \cup {"workload"} -> Nat]
    BY DEF Init
  <2>3. /\ current_task \in Slot /\ next_pid \in 2 .. MaxPid + 1 /\ resched_pending \in BOOLEAN
        /\ next_aspace \in Nat \ {0, 1} /\ cr3 \in Nat /\ active_workloads \in Nat
        /\ shell \in ShellStates /\ loop \in Nat /\ target \in 0 .. MaxPid
        /\ profile \in WorkloadEntries
    <3>1. /\ current_task = 0 /\ next_pid = 2 /\ resched_pending = FALSE
          /\ next_aspace = 2 /\ cr3 = KernelAspace /\ active_workloads = 0
          /\ shell = "prompt" /\ loop = 0 /\ target = 0 /\ profile = "attack"
      BY DEF Init
    <3>2. current_task \in Slot /\ resched_pending \in BOOLEAN
      BY <1>1, <3>1
    <3>3. next_pid \in 2 .. MaxPid + 1 /\ target \in 0 .. MaxPid
      BY <2>1, <3>1
    <3>4. next_aspace \in Nat \ {0, 1} /\ cr3 \in Nat /\ active_workloads \in Nat /\ loop \in Nat
      BY <1>1, <3>1
    <3>5. shell \in ShellStates /\ profile \in WorkloadEntries
      BY <2>1, <3>1
    <3>6. QED
      BY <3>2, <3>3, <3>4, <3>5
  <2>4. QED
    BY <1>4, <2>2, <2>3 DEF TypeOK
<1>7. SingleRunning /\ UserSpaceReclaimed /\ WaitTargetPresent
  BY <1>1, <1>2, <1>3, <1>5 DEF Init, SingleRunning, UserSpaceReclaimed, WaitTargetPresent
<1>8. Shape
  BY <1>1, <1>2, <1>3, <1>5 DEF Init, Shape, IsLive
<1>9. /\ LiveWorkers = {} /\ WorkloadTasks = {}
      /\ \A p \in Pools : JobTasks(p) = {}
  BY <1>1, <1>2, <1>3 DEF LiveWorkers, WorkloadTasks, JobTasks, IsLive, WorkloadEntries, ProgramEntries
<1>10. RefcountBalanced /\ WorkloadsAccounted
  BY <1>5, <1>9, FS_EmptySet DEF Init, RefcountBalanced, WorkloadsAccounted
<1>11. JobExclusive /\ JobsAccounted
  BY <1>9, FS_EmptySet DEF Init, JobExclusive, JobsAccounted
<1>12. QED
  BY <1>6, <1>7, <1>8, <1>10, <1>11 DEF IndInv

LEMMA StutterInv == ASSUME IndInv, UNCHANGED vars PROVE IndInv'
<1>1. /\ shell' \in {"spawn", "demo"} => loop' > 0 /\ next_pid + loop' <= MaxPid + 1
      /\ shell' = "wait" => SlotsOf(tasks, target') # {}
  BY DEF vars, IndInv, Shape, WaitTargetPresent
<1>2. QED
  BY <1>1, TasksTyped, IdleStep DEF vars, NoSpawn

\* Every step of the scheduler, the shell and the tasks keeps the invariant.
LEMMA NextInv == IndInv /\ [Next]_vars => IndInv'
<1> SUFFICES ASSUME IndInv, [Next]_vars PROVE IndInv'
  OBVIOUS
<1>1. CASE Fork
  BY <1>1, ForkInv
<1>2. CASE \E p \in Programs : Execve(p)
  BY <1>2, ExecveInv
<1>3. CASE StartSpin \/ \E p \in Profiles : StartWorkload(p)
  BY <1>3, StartInv
<1>4. CASE \E p \in Demos : DemoRecord(p)
  BY <1>4, DemoRecordInv
<1>5. CASE \E pid \in 1 .. MaxPid : Waitpid(pid)
  <2>1. PICK pid \in 1 .. MaxPid : Waitpid(pid)
    BY <1>5
  <2>2. pid \in 0 .. MaxPid /\ shell # "user" /\ WaitTurn(pid)
    BY <2>1, SchedAssumption DEF Waitpid, ShellAt
  <2>3. QED
    BY <2>2, WaitTurnInv
<1>6. CASE RunUser
  BY <1>6, RunUserInv
<1>7. CASE WaitAgain
  BY <1>7, TasksTyped, WaitTurnInv DEF WaitAgain, ShellAt
<1>8. CASE ShellIdle \/ ShellPost \/ Drain \/ Spin \/ WaitTimeout \/ Tick \/ UNCHANGED vars
  BY <1>8, ShellIdleInv, ShellPostInv, DrainInv, SpinInv, WaitTimeoutInv, TickInv, StutterInv
<1>9. CASE SpawnWorker
  BY <1>9, SpawnWorkerInv
<1>10. CASE UserReturn
  BY <1>10, UserReturnInv
<1>11. CASE TaskYield \/ TaskExit
  BY <1>11, TaskYieldInv, TaskExitInv
<1>12. QED
  BY <1>1, <1>2, <1>3, <1>4, <1>5, <1>6, <1>7, <1>8, <1>9, <1>10, <1>11
     DEF Next, Command, CpuStep

\* IndInv holds in every reachable state, for every size of the tables.
THEOREM Invariance == Spec => []IndInv
BY InitInv, NextInv, PTL DEF Spec

\* Every state is well typed: pids, address-space ids, job entries and
\* counters stay in their ranges, active_workloads never goes below zero.
THEOREM TypeCorrect == Spec => []TypeOK
<1>1. IndInv => TypeOK
  BY DEF IndInv
<1>2. QED
  BY <1>1, Invariance, PTL

\* switch_to and task_exit always leave exactly the current task running.
THEOREM ExactlyOneRuns == Spec => []SingleRunning
<1>1. IndInv => SingleRunning
  BY DEF IndInv
<1>2. QED
  BY <1>1, Invariance, PTL

\* The kernel space's reference count is exact after every spawn, failed
\* spawn and exit, and builtin_exec_run_sync leaves neither a space nor a page
\* root behind.
THEOREM SpacesCorrect == Spec => []SpacesAccounted
<1>1. IndInv => SpacesAccounted
  BY DEF IndInv, SpacesAccounted
<1>2. QED
  BY <1>1, Invariance, PTL

\* No two live program tasks share a job entry, and every entry is that of a
\* live task or of a spawn that failed.
THEOREM JobsCorrect == Spec => []JobsExact
<1>1. IndInv => JobsExact
  BY DEF IndInv, JobsExact
<1>2. QED
  BY <1>1, Invariance, PTL

\* active_workloads exceeds the live workload tasks by the failed spawns.
THEOREM WorkloadsCounted == Spec => []WorkloadsAccounted
<1>1. IndInv => WorkloadsAccounted
  BY DEF IndInv
<1>2. QED
  BY <1>1, Invariance, PTL

\* The task sys_waitpid polls keeps its slot until the poll ends.
THEOREM WaitTargetStays == Spec => []WaitTargetPresent
<1>1. IndInv => WaitTargetPresent
  BY DEF IndInv
<1>2. QED
  BY <1>1, Invariance, PTL

-----------------------------------------------------------------------------
(* Round robin.                                                             *)

\* Moving to the nearest ready slot brings every other ready slot nearer.
LEMMA Nearer ==
  ASSUME NEW c \in Slot, NEW n \in Slot, NEW i \in Slot, i # n,
         Distance(c, n) <= Distance(c, i)
  PROVE  Distance(n, i) < Distance(c, i)
BY SchedAssumption DEF Distance, Slot

\* What NoOvertaking says of one step.
KeepsOrder ==
  current_task' # current_task =>
    \A i \in ReadySlots(tasks) \ {current_task'} :
      Distance(current_task', i) < Distance(current_task, i)

LEMMA SwitchKeepsOrder ==
  ASSUME current_task \in Slot, NEW ts, ReadySlots(ts) = ReadySlots(tasks),
         ReadySlots(ts) # {},
         current_task' = find_next_ready(ts, current_task)
  PROVE  KeepsOrder
<1>1. /\ current_task' \in ReadySlots(ts)
      /\ \A j \in ReadySlots(ts) : Distance(current_task, current_task') <= Distance(current_task, j)
  BY NextReadyIsFirst
<1>2. \A i \in ReadySlots(ts) : i \in Slot
  BY DEF ReadySlots
<1>3. QED
  BY <1>1, <1>2, Nearer DEF KeepsOrder

LEMMA YieldKeepsOrder ==
  ASSUME current_task \in Slot, NEW ts,
         \A i \in Slot : ts[i].state = tasks[i].state /\ ts[i].pid = tasks[i].pid,
         sched_yield(ts)
  PROVE  KeepsOrder
<1>1. ReadySlots(ts) = ReadySlots(tasks)
  BY DEF ReadySlots, task_visible
<1>2. CASE ReadySlots(ts) = {}
  BY <1>2 DEF find_next_ready, sched_yield, KeepsOrder
<1>3. CASE ReadySlots(ts) # {}
  <2>1. find_next_ready(ts, current_task) \in Slot
    BY <1>3, NextReadyIsFirst DEF ReadySlots
  <2>2. find_next_ready(ts, current_task) >= 0
    BY <2>1, SchedAssumption DEF Slot
  <2>3. current_task' = find_next_ready(ts, current_task)
    BY <2>2 DEF sched_yield, switch_to
  <2>4. QED
    BY <1>1, <1>3, <2>3, SwitchKeepsOrder
<1>4. QED
  BY <1>2, <1>3

LEMMA ExitKeepsOrder == ASSUME IndInv, TaskExit PROVE KeepsOrder
<1> DEFINE dead == [tasks EXCEPT ![current_task].state = "zombie"]
<1>1. current_task \in Slot /\ tasks[current_task].state = "running" /\ tasks \in [Slot -> TaskRecord]
  BY DEF TaskExit, IndInv, TypeOK
<1>2. /\ dead[current_task].state = "zombie"
      /\ \A i \in Slot \ {current_task} : dead[i] = tasks[i]
  BY <1>1 DEF TaskRecord
<1>3. IF find_next_ready(dead, current_task) >= 0
      THEN current_task' = find_next_ready(dead, current_task)
      ELSE current_task' = current_task
  BY DEF TaskExit, switch_to
<1> HIDE DEF dead
<1>4. ReadySlots(dead) = ReadySlots(tasks)
  BY <1>1, <1>2 DEF ReadySlots, task_visible
<1>5. CASE current_task' = current_task
  BY <1>5 DEF KeepsOrder
<1>6. CASE current_task' # current_task /\ ReadySlots(dead) = {}
  BY <1>3, <1>6 DEF find_next_ready
<1>7. CASE current_task' # current_task /\ ReadySlots(dead) # {}
  BY <1>1, <1>3, <1>4, <1>7, SwitchKeepsOrder
<1>8. QED
  BY <1>5, <1>6, <1>7

LEMMA StepKeepsOrder == IndInv /\ [Next]_vars => KeepsOrder
<1> SUFFICES ASSUME IndInv, [Next]_vars PROVE KeepsOrder
  OBVIOUS
<1>1. current_task \in Slot /\ tasks \in [Slot -> TaskRecord]
  BY DEF IndInv, TypeOK
<1>2. CASE sched_yield(tasks)
  BY <1>1, <1>2, YieldKeepsOrder
<1>3. CASE current_task' = current_task
  BY <1>3 DEF KeepsOrder
<1>4. CASE TaskYield
  <2> DEFINE ts == [tasks EXCEPT ![current_task].left = @ - 1]
  <2>1. \A i \in Slot : ts[i].state = tasks[i].state /\ ts[i].pid = tasks[i].pid
    BY <1>1 DEF TaskRecord
  <2>2. sched_yield(ts)
    BY <1>4 DEF TaskYield
  <2>3. QED
    BY <1>1, <2>1, <2>2, YieldKeepsOrder
<1>5. CASE TaskExit
  BY <1>5, ExitKeepsOrder
<1>6. CASE Command
  BY <1>2, <1>3, <1>6
     DEF Command, Fork, Execve, StartWorkload, DemoRecord, StartSpin, Waitpid, WaitTurn, RunUser
<1>7. CASE ShellIdle \/ ShellPost \/ SpawnWorker \/ Drain \/ Spin \/ WaitAgain \/ UserReturn
  BY <1>2, <1>3, <1>7
     DEF ShellIdle, ShellPost, SpawnWorker, Drain, Spin, WaitAgain, WaitTurn, UserReturn
<1>8. CASE WaitTimeout \/ Tick \/ UNCHANGED vars
  BY <1>3, <1>8 DEF WaitTimeout, Tick, vars
<1>9. QED
  BY <1>4, <1>5, <1>6, <1>7, <1>8 DEF Next, CpuStep

\* sched_yield and task_exit never pass over a ready task.
THEOREM RoundRobin == Spec => NoOvertaking
<1>1. IndInv /\ [Next]_vars => [KeepsOrder]_vars
  BY StepKeepsOrder
<1>2. Spec => [][KeepsOrder]_vars
  BY <1>1, Invariance, PTL DEF Spec
<1>3. QED
  BY <1>2 DEF NoOvertaking, KeepsOrder

-----------------------------------------------------------------------------
(* Pids.                                                                    *)

LEMMA PidsKept ==
  ASSUME PidsDistinct, next_pid' = next_pid,
         \A i \in Slot : /\ tasks'[i].pid = tasks[i].pid
                         /\ tasks'[i].state = "empty" <=> tasks[i].state = "empty"
  PROVE  PidsDistinct'
BY DEF PidsDistinct, task_visible

LEMMA PidsSpawned ==
  ASSUME IndInv, PidsDistinct, NEW r, NEW tbl, NEW e, NEW j, NEW d,
         SpawnOutcome(r, tbl, e, j, d),
         tasks' = r.tasks, next_pid' = r.next_pid
  PROVE  PidsDistinct'
<1>1. CASE tasks' = tasks /\ next_pid' = next_pid
  BY <1>1, PidsKept
<1>2. CASE ~(tasks' = tasks /\ next_pid' = next_pid)
  <2>1. /\ next_pid' = next_pid + 1
        /\ \E k \in Slot \ {0} : tasks' = [tasks EXCEPT ![k] = NewTask(e, j)]
    BY <1>2 DEF SpawnOutcome
  <2>2. PICK k \in Slot \ {0} : tasks' = [tasks EXCEPT ![k] = NewTask(e, j)]
    BY <2>1
  <2>3. /\ next_pid \in Nat /\ tasks \in [Slot -> TaskRecord]
        /\ \A i \in Slot : tasks[i].pid \in Nat
    BY SchedAssumption DEF IndInv, TypeOK, TaskRecord
  <2>4. /\ tasks'[k].pid = next_pid /\ k \in Slot
        /\ \A i \in Slot \ {k} : tasks'[i] = tasks[i]
    BY <2>2, <2>3 DEF NewTask
  <2>5. QED
    BY <2>1, <2>3, <2>4 DEF PidsDistinct
<1>3. QED
  BY <1>1, <1>2

LEMMA YieldPids ==
  ASSUME PidsDistinct, next_pid' = next_pid, NEW ts,
         \A i \in Slot : ts[i].state = tasks[i].state /\ ts[i].pid = tasks[i].pid,
         ts \in [Slot -> TaskRecord], IndInv, sched_yield(ts)
  PROVE  PidsDistinct'
<1>1. CASE find_next_ready(ts, current_task) >= 0
  <2> DEFINE n == find_next_ready(ts, current_task)
  <2>1. /\ n \in ReadySlots(ts)
    <3>1. ReadySlots(ts) # {}
      BY <1>1 DEF find_next_ready
    <3>2. current_task \in Slot
      BY DEF IndInv, TypeOK
    <3>3. QED
      BY <3>1, <3>2, NextReadyIsFirst
  <2>2. n \in Slot /\ ts[n].state = "ready"
    BY <2>1 DEF ReadySlots
  <2>3. switch_to(ts, aspaces, n)
    BY <1>1 DEF sched_yield
  <2> HIDE DEF n
  <2>4. \A i \in Slot : /\ tasks'[i].pid = ts[i].pid
                        /\ tasks'[i].state = IF i = n THEN "running"
                             ELSE IF i = current_task /\ ts[i].state = "running"
                                  THEN "ready" ELSE ts[i].state
    BY <2>2, <2>3 DEF switch_to, TaskRecord
  <2>5. QED
    BY <2>2, <2>4, PidsKept
<1>2. CASE ~(find_next_ready(ts, current_task) >= 0)
  <2>1. tasks' = ts
    BY <1>2 DEF sched_yield
  <2>2. QED
    BY <2>1, PidsKept
<1>3. QED
  BY <1>1, <1>2

LEMMA NextPids ==
  ASSUME IndInv, PidsDistinct, next_pid' >= next_pid, [Next]_vars PROVE PidsDistinct'
<1>1. tasks \in [Slot -> TaskRecord] /\ current_task \in Slot
  BY DEF IndInv, TypeOK
<1>2. CASE sched_yield(tasks) /\ next_pid' = next_pid
  BY <1>1, <1>2, YieldPids
<1>3. CASE tasks' = tasks /\ next_pid' = next_pid
  BY <1>3, PidsKept
<1>4. CASE Fork
  <2>1. SpawnOutcome(sched_spawn_with_parent(tasks, aspaces, next_pid, "fork", current_task),
                     aspaces, "fork", 0, 1)
    BY SpawnParentEffect DEF IndInv
  <2>2. QED
    BY <1>4, <2>1, PidsSpawned DEF Fork
<1>5. CASE SpawnWorker
  <2>1. SpawnOutcome(sched_spawn_with_parent(tasks, aspaces, next_pid, profile, current_task),
                     aspaces, profile, 0, 1)
    BY SpawnParentEffect DEF IndInv
  <2>2. QED
    BY <1>5, <2>1, PidsSpawned DEF SpawnWorker
<1>6. ASSUME NEW prog \in Programs, Execve(prog) PROVE PidsDistinct'
  <2> DEFINE free == FreeJobs(PoolOf(prog))
             held == aspace_retain(aspaces, KernelAspace)
             q == sched_spawn_with_parent_aspace(tasks, held, next_pid, prog, Min(free), KernelAspace)
  <2>1. KernelRefs(aspaces, held, 1)
    BY RetainKernel DEF IndInv, Shape, RefcountBalanced
  <2>2. KernelAspace \in DOMAIN held /\ held \in [DOMAIN held -> AspaceRecord]
    BY <2>1 DEF KernelRefs, IndInv, RefcountBalanced
  <2>3. SpawnOutcome(q, held, prog, Min(free), 1)
    BY <2>2, SpawnAspaceEffect DEF IndInv
  <2>4. \/ tasks' = q.tasks /\ next_pid' = q.next_pid
        \/ tasks' = tasks /\ next_pid' = next_pid
    BY <1>6 DEF Execve
  <2> HIDE DEF q, held, free
  <2>5. QED
    BY <1>3, <2>3, <2>4, PidsSpawned
<1>7. CASE TaskExit
  <2>1. \A i \in Slot : /\ tasks'[i].pid = tasks[i].pid
                        /\ tasks'[i].state = "empty" <=> tasks[i].state = "empty"
    <3>1. current_task # 0
      BY <1>7 DEF TaskExit
    <3>2. QED
      BY <1>7, <3>1, ExitEffect DEF IndInv
  <2>2. next_pid' = next_pid
    BY <1>7 DEF TaskExit
  <2>3. QED
    BY <2>1, <2>2, PidsKept
<1>8. CASE TaskYield
  <2> DEFINE ts == [tasks EXCEPT ![current_task].left = @ - 1]
  <2>1. tasks[current_task].left \in Nat \ {0}
    BY <1>1, <1>8 DEF TaskYield, TaskRecord
  <2>2. /\ \A i \in Slot : ts[i].state = tasks[i].state /\ ts[i].pid = tasks[i].pid
        /\ ts \in [Slot -> TaskRecord]
    BY <1>1, <2>1 DEF TaskRecord
  <2>3. sched_yield(ts) /\ next_pid' = next_pid
    BY <1>8 DEF TaskYield, NoSpawn
  <2> HIDE DEF ts
  <2>4. QED
    BY <2>2, <2>3, YieldPids
<1>9. CASE StartSpin \/ RunUser \/ UserReturn \/ WaitTimeout \/ Tick \/ UNCHANGED vars
           \/ \E p \in Profiles : StartWorkload(p)
  BY <1>3, <1>9 DEF StartSpin, RunUser, UserReturn, WaitTimeout, Tick, vars, StartWorkload, NoSpawn
<1>10. CASE ShellIdle \/ ShellPost \/ Drain \/ Spin \/ WaitAgain
            \/ \E pid \in 1 .. MaxPid : Waitpid(pid)
  BY <1>2, <1>3, <1>10
     DEF ShellIdle, ShellPost, Drain, Spin, WaitAgain, Waitpid, WaitTurn, NoSpawn
<1>11. ASSUME NEW p \in Demos, DemoRecord(p) PROVE PidsDistinct'
  <2>1. \A i \in Slot : task_visible(tasks'[i]) => tasks'[i] = tasks[i]
    BY <1>11 DEF DemoRecord, ForgetZombies, EmptySlot, task_visible
  <2>2. next_pid' >= 2 /\ next_pid \in Nat /\ next_pid' = 2
    BY <1>11, SchedAssumption DEF DemoRecord, IndInv, TypeOK
  <2>3. next_pid = 2
    BY <2>2, SchedAssumption DEF IndInv, TypeOK
  <2>4. QED
    BY <2>1, <2>2, <2>3 DEF PidsDistinct
<1>12. QED
  BY <1>4, <1>5, <1>6, <1>7, <1>8, <1>9, <1>10, <1>11 DEF Next, Command, CpuStep

\* A pid in the task table names one task, the one sched_task_state finds for
\* sys_waitpid, at boot and after every step that does not restart the pids.
THEOREM PidsAreUnique == Spec => PidsUnique
<1>1. Init => PidsDistinct
  BY SchedAssumption DEF Init, PidsDistinct, task_visible, EmptySlot
<1>2. IndInv /\ [Next]_vars => [PidsDistinct /\ next_pid' >= next_pid => PidsDistinct']_vars
  BY NextPids
<1>3. Spec => [][PidsDistinct /\ next_pid' >= next_pid => PidsDistinct']_vars
  BY <1>2, Invariance, PTL DEF Spec
<1>4. QED
  BY <1>1, <1>3 DEF PidsUnique, Spec
=============================================================================

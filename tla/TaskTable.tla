----------------------------- MODULE TaskTable -----------------------------
(***************************************************************************)
(* The task table of kernel/sched.c as a value: which slots hold a task,   *)
(* which may be taken by a new one, and which task runs next.  A slot is a *)
(* record with at least the fields state and pid.                          *)
(***************************************************************************)
EXTENDS Integers, FiniteSetsExt

CONSTANT MaxTasks    \* MAX_TASKS: slots of the table, slot 0 is the shell

Slot == 0 .. MaxTasks - 1

\* task_visible: the slot holds a task.  Pids stay far below 0xffffffff.
task_visible(t) == t.state # "empty" /\ t.pid > 0

\* How many slots after c the scan of find_next_ready meets slot i.
Distance(c, i) == IF i > c THEN i - c ELSE i - c + MaxTasks

\* Mutant: the scan stops one slot short of the table's end.
ReadySlotsShort(ts) ==
  {i \in 0 .. MaxTasks - 2 : task_visible(ts[i]) /\ ts[i].state = "ready"}

\* The slots with a task that waits for the CPU.
ReadySlots(ts) == {i \in Slot : task_visible(ts[i]) /\ ts[i].state = "ready"}

\* Mutant: the scan starts at slot 0 instead of after the current task.
find_next_ready_from_zero(ts, c) ==
  IF ReadySlots(ts) = {} THEN -1 ELSE Min(ReadySlots(ts))

find_next_ready(ts, c) ==
  IF ReadySlots(ts) = {} THEN -1
  ELSE CHOOSE i \in ReadySlots(ts) :
         \A j \in ReadySlots(ts) : Distance(c, i) <= Distance(c, j)

\* The slots sched_spawn_with_parent_aspace may take: unused or zombie.
FreeSlots(ts) ==
  {i \in Slot \ {0} : ~task_visible(ts[i]) \/ ts[i].state = "zombie"}
=============================================================================

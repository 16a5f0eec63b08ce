------------------------------ MODULE Replay -------------------------------
(***************************************************************************)
(* Recording and replay: kernel/trace.c with the part of the scheduler it  *)
(* steers.  demo record runs a workload profile and keeps its events; demo *)
(* replay runs the profile again, compares each event with the recorded    *)
(* one, and lets the recorded switches choose the next task                *)
(* (trace_replay_expected_next_task in sched_yield).                       *)
(*                                                                         *)
(* An event is its pid, type and two data words, which is what replay      *)
(* compares; ids and timestamps are copied from the recording.  Task code  *)
(* is cut at trace_record and at sched_yield, and an interrupt may come at *)
(* each cut.  One that comes inside trace_record or a switch leaves the    *)
(* same events but for the pid of the interrupt's own events, except in    *)
(* the two statements that store an event and count it, which are atomic   *)
(* here and taken apart in Recorder.  The timer also sends the packets     *)
(* that wait in the transmit queue and records that; no replay produces    *)
(* such an event, so its data words are left out, and when a queue is      *)
(* flushed, by whom and how is in Net.  Address spaces are in Sched and    *)
(* Loader, the disk is in Fs.                                              *)
(***************************************************************************)
EXTENDS TaskTable, Sequences

CONSTANTS
  Rounds,        \* how often the loop of each entry function runs
  MaxEvents,     \* TRACE_BUFFER_CAP
  SessionCap,    \* TRACE_SESSION_CAP
  MaxSessions,   \* sessions the filesystem has room for
  MaxCommands,   \* bound on the commands typed
  MaxIrqs,       \* bound on the interrupts that are recorded or ignored
  MaxPackets,    \* NETFS_QUEUE_CAP
  Profiles,      \* the profiles the user may record
  Commands       \* the kinds of command the user may type

Workloads == {"attack", "sysload", "lifecycle"}
Entries == Workloads \cup {"fork", "shell"}
None == "none"    \* WORKLOAD_PROFILE_NONE

ASSUME ReplayAssumption ==
  /\ MaxTasks \in Nat \ {0, 1}
  /\ Rounds \in [Entries -> Nat]
  /\ {MaxEvents, SessionCap, MaxSessions, MaxCommands, MaxIrqs, MaxPackets} \subseteq Nat
  /\ Profiles \subseteq Workloads
  /\ Commands \subseteq {"fork", "run", "ring3demo", "send", "other", "start", "stop",
                         "record", "replay"}

VARIABLES
  tasks,             \* the task table
  current_task,
  next_pid,
  active_workloads,
  used,              \* pages taken from page_alloc, which never come back
  packets,           \* packets waiting in the transmit queue
  trace,             \* the recorder and replay_state
  sessions,          \* the list trace list prints: session ids, 0 if never set
  store,             \* the sessions on disk, a session's id is its place
  shell,             \* where the shell's code stands
  lost,              \* the CPU left the kernel's code by a bad switch
  mark,              \* history: how the events in the buffer were recorded
  promise,           \* history: what the running or last replay should do
  commands, irqs     \* what the bounds count

vars == <<tasks, current_task, next_pid, active_workloads, used, packets, trace, sessions,
          store, shell, lost, mark, promise, commands, irqs>>

EmptySlot == [state |-> "empty", pid |-> 0, entry |-> "fork", arg |-> 0,
              done |-> 0, at |-> "work"]

Event(pid, type, d0, d1) == [pid |-> pid, type |-> type, d0 |-> d0, d1 |-> d1]

-----------------------------------------------------------------------------
(* trace.c on the value of the recorder.                                    *)

\* The interrupts a profile's recording leaves out.
ignored(t, e) == t.recording /\ t.profile # None /\ e.type = "irq"

has_room(t) == Len(t.buffer) < MaxEvents

\* trace_record: compare in a replay, else append while recording.
trace_record(t, e) ==
  IF ignored(t, e) THEN t
  ELSE IF t.active
  THEN IF t.index < Len(t.events) /\ t.events[t.index + 1] = e
       THEN [t EXCEPT !.index = @ + 1]
       ELSE [t EXCEPT !.failed = TRUE]
  ELSE IF ~t.recording THEN t
  ELSE IF has_room(t) THEN [t EXCEPT !.buffer = Append(@, e)]
  ELSE [t EXCEPT !.dropped = TRUE]

\* transmit_now and enqueue_rx_packet: n packets sent or received by task pid.
Sent(t, pid, n) ==
  LET after[i \in 0 .. n] ==
        IF i = 0 THEN t ELSE trace_record(after[i - 1], Event(pid, "net", 0, 0))
  IN after[n]

\* flush_tx_queue: the packets, then power_note_net_flushed.
Flushed(t, pid, n) == trace_record(Sent(t, pid, n), Event(pid, "power", 0, 0))

\* The events of k packets: each is sent and, with the loopback, received.
NetEvents(k) == {k, 2 * k}

\* trace_start_profile on the recorder's own state.
trace_start_profile(t, p) ==
  [t EXCEPT !.recording = TRUE, !.buffer = <<>>, !.profile = p,
            !.started = @ + 1, !.dropped = FALSE]

\* trace_replay_begin.
trace_replay_begin(t, s) ==
  [t EXCEPT !.active = TRUE, !.failed = FALSE, !.index = 0, !.events = s.events]

\* trace_replay_end.
trace_replay_end(t) ==
  [t EXCEPT !.active = FALSE, !.failed = @ \/ t.index # Len(t.events)]

\* Mutant: any recorded event is taken for a choice.
ForcedAnyType(t) == t.active /\ t.index < Len(t.events)

\* trace_replay_expected_next_task: there is a recorded choice to follow.
Forced(t) ==
  t.active /\ t.index < Len(t.events) /\ t.events[t.index + 1].type = "sched"

-----------------------------------------------------------------------------
(* The scheduler.                                                           *)

\* Mutant: the recorded choice is read from the word that names the task left.
Next_task_left(t, ts) ==
  IF Forced(t) THEN t.events[t.index + 1].d0 ELSE find_next_ready(ts, current_task)

\* The choice in sched_yield.  Nothing checks that a forced task is ready.
Next_task(t, ts) ==
  IF Forced(t) THEN t.events[t.index + 1].d1 ELSE find_next_ready(ts, current_task)

\* switch_to; the event carries the pid of the task switched to.  A slot
\* outside the table, or one that holds no task, has no stack to switch to.
switch_to(t, ts, next) ==
  IF next < 0 \/ next = current_task
  THEN tasks' = ts /\ trace' = t /\ UNCHANGED <<current_task, lost>>
  ELSE IF next \notin Slot \/ (next \in Slot /\ ts[next].state = "empty")
  THEN lost' = TRUE /\ tasks' = ts /\ trace' = t /\ UNCHANGED current_task
  ELSE /\ tasks' = [ts EXCEPT ![next].state = "running",
                              ![current_task].state = IF @ = "running" THEN "ready" ELSE @]
       /\ current_task' = next
       /\ trace' = trace_record(t, Event(ts[next].pid, "sched", current_task, next))
       /\ UNCHANGED lost

sched_yield(t, ts) == switch_to(t, ts, Next_task(t, ts))

NewTask(pid, entry, arg) ==
  [state |-> "ready", pid |-> pid, entry |-> entry, arg |-> arg, done |-> 0, at |-> "work"]

\* sched_spawn in the first free slot; arg is the worker's number.
sched_spawn(r, entry, arg) ==
  IF FreeSlots(r.tasks) = {} THEN [r EXCEPT !.ok = FALSE]
  ELSE [r EXCEPT !.tasks = [@ EXCEPT ![Min(FreeSlots(r.tasks))] = NewTask(r.pid, entry, arg)],
                 !.pid = @ + 1]

Workers(p) == IF p = "attack" THEN 1 ELSE 3

\* workload_run_profile: all the workers of a profile.
workload_run_profile(ts, pid, p) ==
  LET one == sched_spawn([ok |-> TRUE, tasks |-> ts, pid |-> pid], p, 0)
  IN IF Workers(p) = 1 THEN one ELSE sched_spawn(sched_spawn(one, p, 1), p, 2)

\* Mutant: the pids are not restarted.
Prepared_keeping_pids(ts, pid) ==
  [tasks |-> [i \in Slot |-> IF i # 0 /\ ts[i].state = "zombie" THEN EmptySlot ELSE ts[i]],
   pid |-> pid]

\* sched_prepare_replay: forget the zombies, restart the pids at 2.
Prepared(ts, pid) ==
  [tasks |-> [i \in Slot |-> IF i # 0 /\ ts[i].state = "zombie" THEN EmptySlot ELSE ts[i]],
   pid |-> 2]

Others == {i \in Slot \ {0} : tasks[i].state \in {"ready", "running"}}

-----------------------------------------------------------------------------
(* The shell.                                                               *)

ShellAt(pc) == ~lost /\ current_task = 0 /\ shell = pc

\* A line is read.  All but the demo commands are recorded as events.
Typed(kind) ==
  /\ ShellAt("prompt")
  /\ kind \in Commands
  /\ commands < MaxCommands
  /\ commands' = commands + 1
  /\ UNCHANGED <<lost, irqs>>

Shelled == trace_record(trace, Event(1, "shell", 0, 0))

\* sys_fork.
Fork ==
  /\ Typed("fork")
  /\ trace' = Shelled
  /\ LET r == sched_spawn([ok |-> TRUE, tasks |-> tasks, pid |-> next_pid], "fork", 0)
     IN tasks' = r.tasks /\ next_pid' = r.pid
  /\ shell' = "post"
  /\ UNCHANGED <<current_task, active_workloads, used, packets, sessions, store, mark, promise>>

\* attack_sim, sysload and lifecycle_test.
RunWorkload(p) ==
  /\ Typed("run")
  /\ trace' = Shelled
  /\ LET r == workload_run_profile(tasks, next_pid, p)
     IN tasks' = r.tasks /\ next_pid' = r.pid
  /\ active_workloads' = active_workloads + Workers(p)
  /\ shell' = "post"
  /\ UNCHANGED <<current_task, used, packets, sessions, store, mark, promise>>

\* run /bin/ring3demo, for the pages its address space takes.
RunUser ==
  /\ Typed("ring3demo")
  /\ trace' = Shelled
  /\ used' = used + 1
  /\ shell' = "post"
  /\ UNCHANGED <<tasks, current_task, next_pid, active_workloads, packets, sessions, store,
                 mark, promise>>

\* write /net/tx and ping: the packet is queued, or flushed with those that
\* wait, or, in performance mode, sent past the queue.
Send ==
  /\ Typed("send")
  /\ \/ /\ packets < MaxPackets
        /\ packets' = packets + 1
        /\ trace' = Shelled
     \/ \E n \in NetEvents(packets + 1) : packets' = 0 /\ trace' = Flushed(Shelled, 1, n)
     \/ \E n \in NetEvents(1) : packets' = packets /\ trace' = Sent(Shelled, 1, n)
  /\ shell' = "post"
  /\ UNCHANGED <<tasks, current_task, next_pid, active_workloads, used, sessions, store,
                 mark, promise>>

\* Every other command, for the events it leaves: a change of the loopback or
\* of the power mode is recorded after the command.
Other ==
  /\ Typed("other")
  /\ \/ trace' = Shelled
     \/ \E type \in {"net", "power"} : trace' = trace_record(Shelled, Event(1, type, 0, 0))
  /\ shell' = "post"
  /\ UNCHANGED <<tasks, current_task, next_pid, active_workloads, used, packets, sessions, store,
                 mark, promise>>

\* trace start.
TraceStart ==
  /\ Typed("start")
  /\ trace' = trace_start_profile(Shelled, None)
  /\ shell' = "post"
  /\ mark' = [alone |-> FALSE, clean |-> FALSE, used |-> used]
  /\ UNCHANGED <<tasks, current_task, next_pid, active_workloads, used, packets, sessions, store,
                 promise>>

\* Mutant: the list is filled in the order of saving.
ListPlace_saved(t) == Len(store) + 1

\* The place of the list that trace_stop fills: that of the last start.
ListPlace(t) == t.started

\* trace_stop from recorder state t: the buffer is saved under a new id if the
\* filesystem takes it, and entered in the list at the place of the last
\* start.  Before the first start that place lies before the array, in the
\* last event of replay_buffer, which the next replay fills again.
trace_stop(t) ==
  /\ trace' = [t EXCEPT !.recording = FALSE]
  /\ \/ /\ Len(store) < MaxSessions
        /\ store' = Append(store, [profile |-> t.profile, events |-> t.buffer,
                                   nth |-> t.started,
                                   mark |-> [mark EXCEPT !.clean = @ /\ ~t.dropped]])
        /\ sessions' = IF ListPlace(t) \in 1 .. SessionCap
                       THEN [sessions EXCEPT ![ListPlace(t)] = Len(store) + 1]
                       ELSE sessions
     \/ UNCHANGED <<store, sessions>>    \* the save failed

TraceStop ==
  /\ Typed("stop")
  /\ trace_stop(Shelled)
  /\ shell' = "post"
  /\ UNCHANGED <<tasks, current_task, next_pid, active_workloads, used, packets, mark, promise>>

\* demo record up to the wait for the workers.
DemoRecord(p) ==
  /\ Typed("record")
  /\ LET q == Prepared(tasks, next_pid)
         r == workload_run_profile(q.tasks, q.pid, p)
         alone == Others = {} /\ active_workloads = 0 /\ r.ok
     IN /\ tasks' = r.tasks
        /\ next_pid' = r.pid
        /\ mark' = [alone |-> alone, clean |-> alone, used |-> used]
  /\ trace' = trace_start_profile(trace, p)
  /\ active_workloads' = active_workloads + Workers(p)
  /\ shell' = "record"
  /\ UNCHANGED <<current_task, used, packets, sessions, store, promise>>

\* What a replay of session s started now should do.
Promise(s) ==
  IF /\ s.mark.alone
     /\ Others = {} /\ active_workloads = 0
     /\ s.profile = "sysload" => s.mark.used = used
  THEN IF s.mark.clean THEN "match" ELSE "return"
  ELSE "nothing"

\* demo replay up to the wait for the workers.
DemoReplay(id) ==
  /\ Typed("replay")
  /\ id \in DOMAIN store
  /\ store[id].profile # None
  /\ LET q == Prepared(tasks, next_pid)
         r == workload_run_profile(q.tasks, q.pid, store[id].profile)
     IN tasks' = r.tasks /\ next_pid' = r.pid
  /\ trace' = trace_replay_begin(trace, store[id])
  /\ active_workloads' = active_workloads + Workers(store[id].profile)
  /\ promise' = Promise(store[id])
  /\ shell' = "replay"
  /\ UNCHANGED <<current_task, used, packets, sessions, store, mark>>

\* demo replay of a session that cannot be read or has no profile.
DemoRefused(id) ==
  /\ Typed("replay")
  /\ \/ UNCHANGED trace
     \/ /\ id \in DOMAIN store
        /\ store[id].profile = None
        /\ trace' = trace_replay_end(trace_replay_begin(trace, store[id]))
  /\ promise' = "nothing"
  /\ shell' = "post"
  /\ UNCHANGED <<tasks, current_task, next_pid, active_workloads, used, packets, sessions,
                 store, mark>>

\* run_workloads_until_idle, one turn, and what demo record and demo replay
\* do after it.
Busy ==
  /\ active_workloads # 0 \/ ReadySlots(tasks) # {}
  /\ ~(trace.active /\ trace.failed)

Drain ==
  /\ ~lost /\ current_task = 0 /\ shell \in {"record", "replay"}
  /\ Busy
  /\ sched_yield(trace, tasks)
  /\ UNCHANGED <<next_pid, active_workloads, used, packets, sessions, store, shell, mark, promise,
                 commands, irqs>>

RecordDone ==
  /\ ShellAt("record") /\ ~Busy
  /\ trace_stop(trace)
  /\ shell' = "post"
  /\ UNCHANGED <<tasks, current_task, next_pid, active_workloads, used, packets, lost, mark,
                 promise, commands, irqs>>

ReplayDone ==
  /\ ShellAt("replay") /\ ~Busy
  /\ trace' = trace_replay_end(trace)
  /\ shell' = "post"
  /\ UNCHANGED <<tasks, current_task, next_pid, active_workloads, used, packets, sessions, store,
                 lost, mark, promise, commands, irqs>>

\* shell_run between two commands and after one: yield if a task is ready.
ShellYield ==
  /\ ~lost /\ current_task = 0 /\ shell \in {"prompt", "post"}
  /\ shell' = "prompt"
  /\ IF ReadySlots(tasks) # {} THEN sched_yield(trace, tasks)
     ELSE UNCHANGED <<tasks, current_task, trace, lost>>
  /\ UNCHANGED <<next_pid, active_workloads, used, packets, sessions, store, mark, promise,
                 commands, irqs>>

-----------------------------------------------------------------------------
(* The tasks.  A zombie that is switched to halts for ever: no action.      *)

Running(at) ==
  /\ ~lost /\ current_task # 0
  /\ tasks[current_task].at = at
  /\ UNCHANGED <<next_pid, used, packets, sessions, store, shell, mark, promise, commands, irqs>>

\* The events of the loops in workload.c.
WorkEvent(t, pages) ==
  CASE t.entry = "attack" -> Event(t.pid, "workload", 4096 + t.done, 8192 + 4 * t.done)
    [] t.entry = "lifecycle" -> Event(t.pid, "workload", 20480 + t.arg, t.done)
    [] t.entry = "sysload" -> Event(t.pid, "sched", 1000 * t.arg + t.done, 4096 * pages)

\* One turn of an entry function's loop up to its yield.
TaskWork ==
  LET me == tasks[current_task]
  IN /\ Running("work")
     /\ me.done < Rounds[me.entry]
     /\ trace' = IF me.entry = "fork" THEN trace ELSE trace_record(trace, WorkEvent(me, used))
     /\ tasks' = [tasks EXCEPT ![current_task].at = "yield"]
     /\ UNCHANGED <<current_task, active_workloads, lost>>

TaskYield ==
  /\ Running("yield")
  /\ sched_yield(trace, [tasks EXCEPT ![current_task].at = "work", ![current_task].done = @ + 1])
  /\ UNCHANGED active_workloads

\* The end of an entry function and task_exit, whose choice is not forced.
TaskExit ==
  LET me == tasks[current_task]
      gone == [tasks EXCEPT ![current_task].state = "zombie", ![current_task].at = "dead"]
  IN /\ Running("work")
     /\ me.done = Rounds[me.entry]
     /\ active_workloads' = IF me.entry = "fork" THEN active_workloads ELSE active_workloads - 1
     /\ switch_to(trace, gone, find_next_ready(gone, current_task))

-----------------------------------------------------------------------------

\* isr_dispatch for the timer and the keyboard: ignored during a replay,
\* otherwise recorded, a key with its character and scancode as well (here
\* those of the enter key).  netfs_power_tick flushes the queue in some ticks,
\* with n events for its packets.  The mouse leaves what a tick without a
\* flush does.
Interrupt(key, n) ==
  LET pid == tasks[current_task].pid
      t == trace_record(trace, Event(pid, "irq", IF key THEN 33 ELSE 32, 0))
  IN /\ ~lost
     /\ irqs < MaxIrqs
     /\ irqs' = irqs + 1
     /\ n \in NetEvents(packets) \cup {0} /\ (key => n = 0)
     /\ IF trace.active THEN UNCHANGED <<trace, packets, mark>>
        ELSE /\ trace' = IF key THEN trace_record(t, Event(pid, "keyboard", 10, 28))
                        ELSE IF n # 0 THEN Flushed(t, pid, n)
                        ELSE t
             /\ packets' = IF n # 0 THEN 0 ELSE packets
             /\ mark' = [mark EXCEPT !.clean = @ /\ ~((key \/ n # 0) /\ trace.recording)]
     /\ UNCHANGED <<tasks, current_task, next_pid, active_workloads, used, sessions, store,
                    shell, lost, promise, commands>>

Init ==
  /\ tasks = [i \in Slot |-> IF i = 0 THEN [EmptySlot EXCEPT !.state = "running", !.pid = 1,
                                                             !.entry = "shell"]
                             ELSE EmptySlot]
  /\ current_task = 0 /\ next_pid = 2
  /\ active_workloads = 0 /\ used = 0 /\ packets = 0
  /\ trace = [recording |-> FALSE, profile |-> None, buffer |-> <<>>, dropped |-> FALSE,
              started |-> 0, active |-> FALSE, failed |-> FALSE, index |-> 0, events |-> <<>>]
  /\ sessions = [i \in 1 .. SessionCap |-> 0] /\ store = <<>>
  /\ shell = "prompt" /\ lost = FALSE
  /\ mark = [alone |-> FALSE, clean |-> FALSE, used |-> 0] /\ promise = "nothing"
  /\ commands = 0 /\ irqs = 0

\* What the user types.
Command ==
  \/ Fork \/ RunUser \/ Send \/ Other \/ TraceStart \/ TraceStop
  \/ \E p \in Profiles : RunWorkload(p) \/ DemoRecord(p)
  \/ \E id \in 1 .. MaxSessions : DemoReplay(id) \/ DemoRefused(id)

\* What the CPU does by itself.
Cpu ==
  Drain \/ RecordDone \/ ReplayDone \/ ShellYield \/ TaskWork \/ TaskYield \/ TaskExit

Next == Command \/ Cpu \/ \E key \in BOOLEAN, n \in 0 .. 2 * MaxPackets : Interrupt(key, n)

Spec == Init /\ [][Next]_vars

\* The CPU executes; nobody has to type or to press a key.
FairSpec == Spec /\ WF_vars(Cpu)

-----------------------------------------------------------------------------

EventRecord == [pid : Nat, type : {"sched", "workload", "shell", "irq", "keyboard", "net", "power"},
                d0 : Nat, d1 : Nat]

TaskRecord == [state : {"empty", "ready", "running", "zombie"}, pid : Nat, entry : Entries,
               arg : 0 .. 2, done : Nat, at : {"work", "yield", "dead"}]
TraceRecord == [recording : BOOLEAN, profile : Workloads \cup {None}, buffer : Seq(EventRecord),
                dropped : BOOLEAN, started : Nat, active : BOOLEAN, failed : BOOLEAN,
                index : Nat, events : Seq(EventRecord)]
MarkRecord == [alone : BOOLEAN, clean : BOOLEAN, used : Nat]
Session == [profile : Workloads \cup {None}, events : Seq(EventRecord), nth : Nat,
            mark : MarkRecord]

TypeOK ==
  /\ tasks \in [Slot -> TaskRecord] /\ current_task \in Slot
  /\ next_pid \in Nat \ {0} /\ active_workloads \in Nat /\ used \in 0 .. MaxCommands
  /\ packets \in 0 .. MaxPackets
  /\ trace \in TraceRecord
  /\ Len(trace.buffer) <= MaxEvents /\ trace.index <= Len(trace.events)
  /\ store \in Seq(Session) /\ Len(store) <= MaxSessions
  /\ sessions \in [1 .. SessionCap -> 0 .. Len(store)]
  /\ shell \in {"prompt", "post", "record", "replay"} /\ lost \in BOOLEAN
  /\ mark \in MarkRecord /\ promise \in {"match", "return", "nothing"}
  /\ commands \in 0 .. MaxCommands /\ irqs \in 0 .. MaxIrqs

\* A recording made with no other task alive, no key pressed and no packet sent
\* by the timer meanwhile, replayed with no other task alive (and, for sysload,
\* as much memory in use), gives the same events in the same order:
\* trace_record never sees a mismatch, the run does not stop short of the
\* recording, and the CPU does not go astray.  Other timer interrupts may come
\* at any point of the recording, and any at all of the replay.
ReplayFaithful == promise = "match" => ~trace.failed /\ ~lost

\* The running task is about to choose the next one.
AtYield ==
  IF current_task = 0 THEN shell = "replay" ELSE tasks[current_task].at = "yield"

\* In such a replay the task the recording forces on sched_yield is always the
\* one round robin would choose, so it is ready, and following the recording
\* changes nothing.
ForcedIsRoundRobin ==
  promise = "match" /\ AtYield /\ Forced(trace) =>
    Next_task(trace, tasks) = find_next_ready(tasks, current_task)

\* The saved session of a profile recorded alone, with no key pressed and no
\* packet sent by the timer meanwhile, starts and ends in the shell: its first
\* event leaves slot 0 and its last one comes back to it.
SessionsWhole ==
  \A id \in DOMAIN store :
    LET s == store[id]
    IN s.mark.clean =>
         /\ Len(s.events) >= 2
         /\ s.events[1].d0 = 0 /\ s.events[1].type = "sched"
         /\ s.events[Len(s.events)].d1 = 0 /\ s.events[Len(s.events)].type = "sched"

\* Place i of the session list names the newest session that was saved after
\* the i-th start and before the next, whether starts were left without a stop,
\* stops were repeated or saves failed; it is empty if there is none.
ListExact ==
  \A i \in 1 .. SessionCap :
    LET saved == {id \in DOMAIN store : store[id].nth = i}
    IN sessions[i] = IF saved = {} THEN 0 ELSE Max(saved)

\* The store of sessions is exact: the state is well formed, what was saved is
\* whole, and the list says where it is.
StoreExact == TypeOK /\ SessionsWhole /\ ListExact

\* A replay started with no other task alive, of a recording made with none
\* alive, comes to its verdict, also when keys were pressed or packets sent by
\* the timer during the recording, or the buffer was full, and the replay
\* therefore diverges.
QuietReplayReturns == (trace.active /\ promise # "nothing") ~> ~trace.active

\* What explain replay says of every replay: a mismatch is reported, which
\* trace_replay_end does, so a replay that has failed comes to its end.
DivergenceReported == (trace.active /\ trace.failed) ~> ~trace.active
=============================================================================

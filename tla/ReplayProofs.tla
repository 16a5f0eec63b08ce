---------------------------- MODULE ReplayProofs ----------------------------
(***************************************************************************)
(* Proofs about Replay for every number of slots, rounds, events and       *)
(* sessions: recordings made with nothing else alive are replayed event by *)
(* event, whatever other interrupts come if no key is pressed and the timer *)
(* sends no packet meanwhile, and the session list is exact.               *)
(*                                                                         *)
(* A profile that runs alone is a deterministic machine.  A recording in   *)
(* progress is a run of that machine so far, a saved session is a run to   *)
(* the end, and a replay is in the configuration the recorded run had      *)
(* after as many events.  That a configuration is reached is stated as     *)
(* membership in every set that holds the first one and is closed under    *)
(* steps, so that no induction over the length of a run is needed.         *)
(***************************************************************************)
EXTENDS Replay, Lemmas, FiniteSetTheorems

-----------------------------------------------------------------------------
(* A profile that runs with nothing else in the table.  Its configuration   *)
(* is the table, the running task, the counter of workload.c and the events *)
(* so far; each configuration has one successor.                            *)

ShellSlot(state) == [EmptySlot EXCEPT !.state = state, !.pid = 1, !.entry = "shell"]

Config == [tasks : [Slot -> TaskRecord], cur : Slot, active : Nat, log : Seq(EventRecord)]

\* The table sched_prepare_replay leaves when no other task is alive.
Alone == [i \in Slot |-> IF i = 0 THEN ShellSlot("running") ELSE EmptySlot]

\* The workers of a profile have room.
Fits(p) == workload_run_profile(Alone, 2, p).ok

Begin(p) ==
  [tasks |-> workload_run_profile(Alone, 2, p).tasks, cur |-> 0, active |-> Workers(p),
   log |-> <<>>]

Done(m) == m.cur = 0 /\ m.active = 0 /\ ReadySlots(m.tasks) = {}

\* The event of a switch from c to the task round robin chooses.
SwitchEvent(ts, c) == Event(ts[find_next_ready(ts, c)].pid, "sched", c, find_next_ready(ts, c))

SwitchedTo(ts, c, n) ==
  [ts EXCEPT ![n].state = "running", ![c].state = IF @ = "running" THEN "ready" ELSE @]

Moved(m, ts, active) ==
  [tasks |-> SwitchedTo(ts, m.cur, find_next_ready(ts, m.cur)),
   cur |-> find_next_ready(ts, m.cur), active |-> active,
   log |-> Append(m.log, SwitchEvent(ts, m.cur))]

Yielded(ts, c) == [ts EXCEPT ![c].at = "work", ![c].done = @ + 1]
Gone(ts, c) == [ts EXCEPT ![c].state = "zombie", ![c].at = "dead"]

Worked(m, u) ==
  [tasks |-> [m.tasks EXCEPT ![m.cur].at = "yield"], cur |-> m.cur, active |-> m.active,
   log |-> Append(m.log, WorkEvent(m.tasks[m.cur], u))]

\* The successor of m, with u pages in use.
Step(m, u) ==
  IF Done(m) THEN m
  ELSE IF m.cur = 0 THEN Moved(m, m.tasks, m.active)
  ELSE IF m.tasks[m.cur].at = "yield" THEN Moved(m, Yielded(m.tasks, m.cur), m.active)
  ELSE IF m.tasks[m.cur].done < Rounds[m.tasks[m.cur].entry] THEN Worked(m, u)
  ELSE Moved(m, Gone(m.tasks, m.cur), m.active - 1)

\* From x, f is reached in any number of steps.
Leads(x, f, u) == \A T : x \in T /\ (\A y \in T : Step(y, u) \in T) => f \in T

\* A run of profile p reaches m; and it ends with the events of log.
Ran(p, u, m) == Leads(Begin(p), m, u)
RanTo(p, u, log) == \E f \in Config : Ran(p, u, f) /\ Done(f) /\ f.log = log

-----------------------------------------------------------------------------
(* The inductive invariant.                                                 *)

\* The configuration of the kernel, the events being log.
Now(log) == [tasks |-> tasks, cur |-> current_task, active |-> active_workloads, log |-> log]

\* The slots of workers that have not come to their end.
LiveWorkers(ts) ==
  {i \in Slot \ {0} : ts[i].state # "empty" /\ ts[i].at # "dead" /\ ts[i].entry # "fork"}

\* The table: the shell is in slot 0 and can always run, slots without a task
\* are clear, and the CPU is in a slot with a task.
Shaped(ts, c) ==
  /\ ts \in [Slot -> TaskRecord] /\ c \in Slot
  /\ ts[0] = ShellSlot(IF c = 0 THEN "running" ELSE "ready")
  /\ ts[c].state # "empty"
  /\ \A i \in Slot \ {0} :
       /\ ts[i].entry # "shell"
       /\ ts[i].state = "empty" => ts[i] = EmptySlot
       /\ ts[i].state # "empty" => ts[i].pid # 0

KernelInv ==
  /\ TypeOK
  /\ Shaped(tasks, current_task)
  /\ Cardinality(LiveWorkers(tasks)) <= active_workloads
  /\ used <= commands
  /\ trace.active <=> shell = "replay"

\* A clean recording in progress is a run of its profile so far.
RecordInv ==
  shell = "record" /\ mark.clean /\ ~trace.dropped =>
    /\ trace.recording /\ trace.profile \in Workloads /\ Fits(trace.profile)
    /\ mark.used = used
    /\ Ran(trace.profile, used, Now(trace.buffer))

\* Once it has ended the buffer is a run to the end, which a repeated stop
\* saves again.
BufferInv ==
  shell # "record" /\ mark.clean /\ ~trace.dropped =>
    /\ ~trace.recording /\ trace.profile \in Workloads /\ Fits(trace.profile)
    /\ RanTo(trace.profile, mark.used, trace.buffer)

StoreInv ==
  \A id \in DOMAIN store :
    store[id].mark.clean =>
      /\ store[id].profile \in Workloads /\ Fits(store[id].profile)
      /\ RanTo(store[id].profile, store[id].mark.used, store[id].events)

\* A replay that should match is where the recorded run was after as many
\* events.
Following(p, u) ==
  /\ Fits(p) /\ (p = "sysload" => u = used)
  /\ RanTo(p, u, trace.events)
  /\ Ran(p, u, Now(SubSeq(trace.events, 1, trace.index)))

MatchInv ==
  promise = "match" =>
    /\ ~trace.failed /\ ~lost
    /\ shell = "replay" => \E p \in Workloads, u \in Nat : Following(p, u)

ReplayInv == KernelInv /\ RecordInv /\ BufferInv /\ StoreInv /\ MatchInv /\ ListExact

\* What holds of every configuration a run of p reaches.
Good(m, p) ==
  /\ m \in Config /\ Shaped(m.tasks, m.cur)
  /\ \A i \in Slot \ {0} : m.tasks[i].state # "empty" =>
       /\ m.tasks[i].entry = p
       /\ m.tasks[i].state = "running" <=> i = m.cur
       /\ m.tasks[i].state = "zombie" <=> m.tasks[i].at = "dead"
       /\ m.tasks[i].done <= Rounds[p]
       /\ m.tasks[i].at = "yield" => m.tasks[i].done < Rounds[p]
  /\ m.active = Cardinality(LiveWorkers(m.tasks))
  /\ m.log = <<>> => m.cur = 0 /\ m.active # 0
  /\ m.log # <<>> => m.log[1].d0 = 0 /\ m.log[1].type = "sched"
  /\ m.log # <<>> /\ m.cur = 0 =>
       Len(m.log) >= 2 /\ m.log[Len(m.log)].d1 = 0 /\ m.log[Len(m.log)].type = "sched"

-----------------------------------------------------------------------------
(* Slots, counts and sequences.                                             *)

LEMMA SlotFacts ==
  /\ 0 \in Slot /\ Slot \subseteq Nat /\ -1 \notin Slot
  /\ \A c \in Slot : ~(c < 0)
  BY ReplayAssumption DEF Slot

LEMMA PartsFinite ==
  ASSUME NEW S \in SUBSET Slot
  PROVE  IsFiniteSet(S) /\ Cardinality(S) \in Nat
<1>1. IsFiniteSet(Slot)
  BY ReplayAssumption, FS_Interval DEF Slot
<1> QED
  BY <1>1, FS_Subset, FS_CardinalityType

\* The scan of find_next_ready ends at a ready slot if there is one.
LEMMA NextIsReady ==
  ASSUME NEW ts, NEW c \in Slot, ReadySlots(ts) # {}
  PROVE  find_next_ready(ts, c) \in ReadySlots(ts)
<1> DEFINE D == {Distance(c, j) : j \in ReadySlots(ts)}
<1>1. D \subseteq Nat /\ D # {}
  BY ReplayAssumption DEF Distance, ReadySlots, Slot
<1>2. \E x \in D : \A y \in D : x <= y
  BY <1>1, LeastNatural
<1>3. \E i \in ReadySlots(ts) : \A j \in ReadySlots(ts) : Distance(c, i) <= Distance(c, j)
  BY <1>2
<1> QED
  BY <1>3 DEF find_next_ready

\* It depends on which tasks are ready only.
LEMMA SameChoice ==
  ASSUME NEW ts, NEW us, NEW c, ReadySlots(us) = ReadySlots(ts)
  PROVE  find_next_ready(us, c) = find_next_ready(ts, c)
  BY DEF find_next_ready

LEMMA FreeSlotTaken ==
  ASSUME NEW ts, FreeSlots(ts) # {}
  PROVE  Min(FreeSlots(ts)) \in FreeSlots(ts)
<1>1. FreeSlots(ts) \subseteq Nat
  BY SlotFacts DEF FreeSlots
<1>2. \E x \in FreeSlots(ts) : \A y \in FreeSlots(ts) : x <= y
  BY <1>1, LeastNatural
<1> QED
  BY <1>2 DEF Min

LEMMA MaxOfSlots ==
  ASSUME NEW n \in Nat, NEW S \in SUBSET (1 .. n)
  PROVE  Max(S \cup {n + 1}) = n + 1
<1>1. \A y \in S \cup {n + 1} : n + 1 >= y /\ y \in Nat
  OBVIOUS
<1>2. \E x \in S \cup {n + 1} : \A y \in S \cup {n + 1} : x >= y
  BY <1>1
<1>3. /\ Max(S \cup {n + 1}) \in S \cup {n + 1}
      /\ \A y \in S \cup {n + 1} : Max(S \cup {n + 1}) >= y
  BY <1>2 DEF Max
<1> DEFINE x == Max(S \cup {n + 1})
<1>4. x >= n + 1 /\ x \in Nat /\ n + 1 >= x
  BY <1>1, <1>3
<1> HIDE DEF x
<1>5. x = n + 1
  BY <1>4
<1> QED
  BY <1>5 DEF x

\* One more event of a recording is compared.
LEMMA OneMore ==
  ASSUME NEW s \in Seq(EventRecord), NEW n \in Nat, n <= Len(s), NEW e \in EventRecord,
         Extends(Append(SubSeq(s, 1, n), e), s)
  PROVE  n < Len(s) /\ s[n + 1] = e /\ SubSeq(s, 1, n + 1) = Append(SubSeq(s, 1, n), e)
<1> DEFINE t == SubSeq(s, 1, n)
           a == Append(t, e)
<1>1. t \in Seq(EventRecord) /\ Len(t) = n /\ \A i \in 1 .. n : t[i] = s[i]
  OBVIOUS
<1> HIDE DEF t
<1>2. Len(a) = n + 1 /\ a[n + 1] = e /\ Len(s) \in Nat
  BY <1>1
<1>3. Len(a) <= Len(s) /\ \A i \in 1 .. Len(a) : s[i] = a[i]
  BY DEF Extends, t
<1> HIDE DEF a
<1>4. n + 1 <= Len(s) /\ s[n + 1] = e
  BY <1>2, <1>3
<1>5. SubSeq(s, 1, n + 1) \in Seq(EventRecord) /\ Len(SubSeq(s, 1, n + 1)) = n + 1
      /\ \A i \in 1 .. n + 1 : SubSeq(s, 1, n + 1)[i] = s[i]
  BY <1>4
<1>6. a \in Seq(EventRecord) /\ \A i \in 1 .. n + 1 : a[i] = s[i]
  BY <1>1, <1>2, <1>3 DEF a
<1>7. SubSeq(s, 1, n + 1) = a
  BY <1>2, <1>5, <1>6
<1> QED
  BY <1>2, <1>4, <1>7 DEF a, t
-----------------------------------------------------------------------------
(* The recorder.                                                            *)

\* A recorder within its bounds.
TraceSound(t) == t \in TraceRecord /\ Len(t.buffer) <= MaxEvents /\ t.index <= Len(t.events)

\* What t and a later recorder u agree on if only events were recorded: the
\* buffer, the replay's place and the flags alone may change.
Kept(t, u) ==
  /\ TraceSound(u)
  /\ u.recording = t.recording /\ u.profile = t.profile /\ u.active = t.active
  /\ u.started = t.started /\ u.events = t.events
  /\ ~t.active => u.failed = t.failed
  /\ t.dropped => u.dropped
  /\ ~t.recording => u.buffer = t.buffer /\ u.dropped = t.dropped

LEMMA RecordKeeps ==
  ASSUME NEW t, TraceSound(t), NEW e \in EventRecord
  PROVE  Kept(t, trace_record(t, e))
<1> USE DEF TraceSound, Kept
<1>1. t.buffer \in Seq(EventRecord) /\ t.events \in Seq(EventRecord) /\ t.index \in Nat
      /\ MaxEvents \in Nat
      /\ Len(t.buffer) \in Nat /\ Len(t.events) \in Nat
  BY ReplayAssumption DEF TraceRecord
<1>2. CASE ignored(t, e)
  BY <1>2 DEF trace_record
<1>3. CASE ~ignored(t, e) /\ t.active
  <2>1. CASE t.index < Len(t.events) /\ t.events[t.index + 1] = e
    <3>1. trace_record(t, e) = [t EXCEPT !.index = @ + 1]
      BY <1>3, <2>1 DEF trace_record
    <3>2. t.index + 1 \in Nat /\ t.index + 1 <= Len(t.events)
      BY <1>1, <2>1
    <3> DEFINE r == [t EXCEPT !.index = @ + 1]
    <3>3. /\ r \in TraceRecord /\ r.index = t.index + 1 /\ r.buffer = t.buffer
             /\ r.events = t.events
          /\ r.recording = t.recording /\ r.profile = t.profile /\ r.active = t.active
          /\ r.started = t.started /\ r.dropped = t.dropped
      BY <1>1, <3>2 DEF TraceRecord
    <3> HIDE DEF r
    <3> QED
      BY <1>3, <3>1, <3>2, <3>3 DEF r
  <2>2. CASE ~(t.index < Len(t.events) /\ t.events[t.index + 1] = e)
    <3>1. trace_record(t, e) = [t EXCEPT !.failed = TRUE]
      BY <1>3, <2>2 DEF trace_record
    <3> QED
      BY <1>1, <1>3, <3>1 DEF TraceRecord
  <2> QED
    BY <2>1, <2>2
<1>4. CASE ~ignored(t, e) /\ ~t.active
  <2>1. CASE ~t.recording
    BY <1>4, <2>1 DEF trace_record
  <2>2. CASE t.recording /\ has_room(t)
    <3>1. trace_record(t, e) = [t EXCEPT !.buffer = Append(@, e)]
      BY <1>4, <2>2 DEF trace_record
    <3>2. Append(t.buffer, e) \in Seq(EventRecord) /\ Len(Append(t.buffer, e)) = Len(t.buffer) + 1
      BY <1>1
    <3>3. Len(t.buffer) + 1 <= MaxEvents
      BY <1>1, <2>2 DEF has_room
    <3> QED
      BY <1>1, <2>2, <3>1, <3>2, <3>3 DEF TraceRecord
  <2>3. CASE t.recording /\ ~has_room(t)
    <3>1. trace_record(t, e) = [t EXCEPT !.dropped = TRUE]
      BY <1>4, <2>3 DEF trace_record
    <3> QED
      BY <1>1, <2>3, <3>1 DEF TraceRecord
  <2> QED
    BY <2>1, <2>2, <2>3
<1> QED
  BY <1>2, <1>3, <1>4

\* A profile's recording takes every event but interrupts, or loses it.
LEMMA RecordOn ==
  ASSUME NEW t \in TraceRecord, NEW e, t.recording, ~t.active, e.type # "irq"
  PROVE  \/ trace_record(t, e) = [t EXCEPT !.buffer = Append(@, e)]
         \/ trace_record(t, e) = [t EXCEPT !.dropped = TRUE]
  BY DEF trace_record, ignored

\* A replay that meets the event it expects goes on to the next one.
LEMMA RecordMatch ==
  ASSUME NEW t \in TraceRecord, NEW e, t.active, e.type # "irq",
         t.index < Len(t.events), t.events[t.index + 1] = e
  PROVE  trace_record(t, e) = [t EXCEPT !.index = @ + 1]
  BY DEF trace_record, ignored

-----------------------------------------------------------------------------
(* The table.                                                               *)

LEMMA EmptySlotTyped ==
  /\ EmptySlot \in TaskRecord /\ EmptySlot.state = "empty" /\ EmptySlot.entry = "fork"
  /\ \A state \in {"ready", "running"} :
       /\ ShellSlot(state) \in TaskRecord /\ ShellSlot(state).state = state
       /\ ShellSlot(state).pid = 1 /\ ShellSlot(state).entry = "shell"
<1>1. EmptySlot \in TaskRecord /\ EmptySlot.state = "empty" /\ EmptySlot.entry = "fork"
  BY DEF EmptySlot, TaskRecord, Entries
<1>2. ASSUME NEW state \in {"ready", "running"}
      PROVE  /\ ShellSlot(state) \in TaskRecord /\ ShellSlot(state).state = state
             /\ ShellSlot(state).pid = 1 /\ ShellSlot(state).entry = "shell"
  <2>1. /\ ShellSlot(state).state = state /\ ShellSlot(state).pid = 1
        /\ ShellSlot(state).entry = "shell"
    BY DEF ShellSlot, EmptySlot
  <2>2. state \in {"empty", "ready", "running", "zombie"} /\ "shell" \in Entries /\ 1 \in Nat
    BY DEF Entries
  <2>3. ShellSlot(state) \in TaskRecord
    BY <1>1, <2>2 DEF ShellSlot, TaskRecord
  <2> QED
    BY <2>1, <2>3
<1> QED
  BY <1>1, <1>2

LEMMA AloneShaped == Shaped(Alone, 0) /\ LiveWorkers(Alone) = {}
  BY EmptySlotTyped, SlotFacts DEF Shaped, Alone, LiveWorkers

\* The shell is ready while another task runs.
LEMMA ShellReady ==
  ASSUME NEW ts, NEW c, Shaped(ts, c)
  PROVE  /\ c # 0 => 0 \in ReadySlots(ts)
         /\ c = 0 => 0 \notin ReadySlots(ts)
  BY EmptySlotTyped, SlotFacts DEF Shaped, ReadySlots, task_visible

\* A task of a slot after a switch.
LEMMA SwitchedFields ==
  ASSUME NEW ts \in [Slot -> TaskRecord], NEW c \in Slot, NEW n \in Slot, n # c
  PROVE  /\ SwitchedTo(ts, c, n) \in [Slot -> TaskRecord]
         /\ SwitchedTo(ts, c, n)[n] = [ts[n] EXCEPT !.state = "running"]
         /\ SwitchedTo(ts, c, n)[c] = [ts[c] EXCEPT !.state = IF @ = "running" THEN "ready" ELSE @]
         /\ \A i \in Slot \ {n, c} : SwitchedTo(ts, c, n)[i] = ts[i]
         /\ \A i \in Slot : /\ SwitchedTo(ts, c, n)[i].pid = ts[i].pid
                            /\ SwitchedTo(ts, c, n)[i].entry = ts[i].entry
                            /\ SwitchedTo(ts, c, n)[i].arg = ts[i].arg
                            /\ SwitchedTo(ts, c, n)[i].done = ts[i].done
                            /\ SwitchedTo(ts, c, n)[i].at = ts[i].at
  BY DEF SwitchedTo, TaskRecord

LEMMA SwitchedShaped ==
  ASSUME NEW ts, NEW c, Shaped(ts, c), NEW n \in Slot, n # c, ts[n].state # "empty"
  PROVE  /\ Shaped(SwitchedTo(ts, c, n), n)
         /\ LiveWorkers(SwitchedTo(ts, c, n)) = LiveWorkers(ts)
<1> DEFINE us == SwitchedTo(ts, c, n)
<1>1. ts \in [Slot -> TaskRecord] /\ c \in Slot
  BY DEF Shaped
<1>2. /\ us \in [Slot -> TaskRecord] /\ us[n] = [ts[n] EXCEPT !.state = "running"]
      /\ us[c] = [ts[c] EXCEPT !.state = IF @ = "running" THEN "ready" ELSE @]
      /\ \A i \in Slot \ {n, c} : us[i] = ts[i]
      /\ \A i \in Slot : us[i].pid = ts[i].pid /\ us[i].entry = ts[i].entry /\ us[i].at = ts[i].at
  BY <1>1, SwitchedFields
<1> HIDE DEF us
<1>3. \A i \in Slot : us[i].state = "empty" <=> ts[i].state = "empty"
  BY <1>1, <1>2 DEF TaskRecord, Shaped
<1>4. us[n].state # "empty"
  BY <1>3
<1>5. us[0] = ShellSlot(IF n = 0 THEN "running" ELSE "ready")
  <2>1. ts[0] = ShellSlot(IF c = 0 THEN "running" ELSE "ready") /\ 0 \in Slot
    BY SlotFacts DEF Shaped
  <2>2. CASE n = 0
    <3>1. us[0] = [ShellSlot("ready") EXCEPT !.state = "running"]
      BY <1>2, <2>1, <2>2
    <3> QED
      BY <2>2, <3>1 DEF ShellSlot, EmptySlot
  <2>3. CASE c = 0
    <3>1. us[0] = [ShellSlot("running") EXCEPT !.state = "ready"]
      <4>1. ts[0].state = "running" /\ ts[0] = ShellSlot("running")
        BY <2>1, <2>3, EmptySlotTyped
      <4> QED
        BY <1>2, <2>3, <4>1
    <3>2. n # 0
      BY <2>3
    <3> QED
      BY <3>1, <3>2 DEF ShellSlot, EmptySlot
  <2>4. CASE n # 0 /\ c # 0
    BY <1>2, <2>1, <2>4
  <2> QED
    BY <2>2, <2>3, <2>4
<1>6. ASSUME NEW i \in Slot \ {0}
      PROVE  /\ us[i].entry # "shell"
             /\ us[i].state = "empty" => us[i] = EmptySlot
             /\ us[i].state # "empty" => us[i].pid # 0
  <2>1. us[i].state = "empty" => i \notin {n, c}
    BY <1>3 DEF Shaped
  <2> QED
    BY <1>2, <1>3, <2>1 DEF Shaped
<1>7. LiveWorkers(us) = LiveWorkers(ts)
  BY <1>2, <1>3 DEF LiveWorkers
<1> QED
  BY <1>2, <1>4, <1>5, <1>6, <1>7 DEF Shaped, us
-----------------------------------------------------------------------------
(* The configurations of a profile's run.                                   *)

\* A slot of a table in which only workers of p and the shell are.
WorkerOf(x, p) ==
  x.state # "empty" =>
    /\ x.entry = p /\ x.done <= Rounds[p]
    /\ x.state = "zombie" <=> x.at = "dead"
    /\ x.at = "yield" => x.done < Rounds[p]

\* Its events begin with the shell's switch, and end with one to the shell
\* whenever the shell runs.
LogSound(log, c) ==
  /\ log \in Seq(EventRecord)
  /\ log = <<>> => c = 0
  /\ log # <<>> => log[1].d0 = 0 /\ log[1].type = "sched"
  /\ log # <<>> /\ c = 0 =>
       Len(log) >= 2 /\ log[Len(log)].d1 = 0 /\ log[Len(log)].type = "sched"

LEMMA LogGrows ==
  ASSUME NEW log, NEW c \in Slot, LogSound(log, c), NEW n \in Slot, NEW e \in EventRecord,
         \/ e.type = "sched" /\ e.d0 = c /\ e.d1 = n /\ n # c
         \/ n = c /\ c # 0
  PROVE  LogSound(Append(log, e), n) /\ Append(log, e) # <<>>
<1> DEFINE g == Append(log, e)
<1>1. /\ log \in Seq(EventRecord) /\ (log = <<>> => c = 0)
      /\ log # <<>> => log[1].d0 = 0 /\ log[1].type = "sched"
  BY DEF LogSound
<1>2. /\ g \in Seq(EventRecord) /\ g # <<>> /\ Len(log) \in Nat /\ Len(g) = Len(log) + 1
      /\ g[Len(log) + 1] = e /\ \A i \in 1 .. Len(log) : g[i] = log[i]
      /\ log = <<>> <=> Len(log) = 0
  <2>1. g \in Seq(EventRecord) /\ Len(log) \in Nat /\ Len(g) = Len(log) + 1
    BY <1>1
  <2>2. g[Len(log) + 1] = e /\ \A i \in 1 .. Len(log) : g[i] = log[i]
    BY <1>1
  <2>3. log = <<>> <=> Len(log) = 0
    BY <1>1
  <2>4. g # <<>>
    BY <2>1
  <2> QED
    BY <2>1, <2>2, <2>3, <2>4
<1> HIDE DEF g
<1>3. g[1].d0 = 0 /\ g[1].type = "sched"
  <2>1. CASE log = <<>>
    <3>1. g[1] = e /\ c = 0
      BY <1>1, <1>2, <2>1
    <3> QED
      BY <3>1
  <2>2. CASE log # <<>>
    <3>1. 1 \in 1 .. Len(log)
      BY <1>2, <2>2
    <3> QED
      BY <1>1, <1>2, <2>2, <3>1
  <2> QED
    BY <2>1, <2>2
<1>4. ASSUME n = 0
      PROVE  Len(g) >= 2 /\ g[Len(g)].d1 = 0 /\ g[Len(g)].type = "sched"
  <2>1. e.type = "sched" /\ e.d1 = 0 /\ c # 0
    BY <1>4
  <2>2. Len(log) # 0
    BY <1>1, <1>2, <2>1
  <2> QED
    BY <1>2, <2>1, <2>2
<1> QED
  BY <1>2, <1>3, <1>4 DEF LogSound, g

LEMMA GoodParts ==
  ASSUME NEW m, NEW p
  PROVE  Good(m, p) <=>
           /\ m \in Config /\ Shaped(m.tasks, m.cur)
           /\ \A i \in Slot \ {0} : WorkerOf(m.tasks[i], p)
           /\ \A i \in Slot \ {0} : m.tasks[i].state # "empty" =>
                (m.tasks[i].state = "running" <=> i = m.cur)
           /\ m.active = Cardinality(LiveWorkers(m.tasks))
           /\ LogSound(m.log, m.cur) /\ (m.log = <<>> => m.active # 0)
<1>1. m \in Config => m.log \in Seq(EventRecord)
  BY DEF Config
<1> QED
  BY <1>1 DEF Good, WorkerOf, LogSound

\* A switch from slot c, whose task is running or gone.
LEMMA MovedGood ==
  ASSUME NEW p \in Workloads, NEW m \in Config, NEW ts, NEW a, Shaped(ts, m.cur),
         \A i \in Slot \ {0} : WorkerOf(ts[i], p),
         \A i \in Slot \ {0} : ts[i].state = "running" => i = m.cur,
         m.cur \notin ReadySlots(ts), ReadySlots(ts) # {},
         a = Cardinality(LiveWorkers(ts)), LogSound(m.log, m.cur)
  PROVE  /\ Good(Moved(m, ts, a), p)
         /\ find_next_ready(ts, m.cur) \in ReadySlots(ts) \ {m.cur}
         /\ find_next_ready(ts, m.cur) \in Slot
         /\ SwitchEvent(ts, m.cur) \in EventRecord /\ SwitchEvent(ts, m.cur).type = "sched"
<1> DEFINE c == m.cur
           n == find_next_ready(ts, c)
           us == SwitchedTo(ts, c, n)
           e == SwitchEvent(ts, c)
           r == Moved(m, ts, a)
<1>1. c \in Slot /\ ts \in [Slot -> TaskRecord] /\ m.log \in Seq(EventRecord)
  BY DEF Config, Shaped
<1>2. n \in ReadySlots(ts) \ {c}
  BY <1>1, NextIsReady
<1>3. n \in Slot /\ ts[n].state = "ready"
  BY <1>2 DEF ReadySlots
<1>4. e = Event(ts[n].pid, "sched", c, n)
  BY DEF SwitchEvent
<1>5. r = [tasks |-> us, cur |-> n, active |-> a, log |-> Append(m.log, e)]
  BY DEF Moved
<1> HIDE DEF n, e, r
<1>6. e \in EventRecord /\ e.type = "sched" /\ e.d0 = c /\ e.d1 = n
  <2>1. ts[n].pid \in Nat /\ c \in Nat /\ n \in Nat
    BY <1>1, <1>3, SlotFacts DEF TaskRecord
  <2> QED
    BY <1>4, <2>1 DEF Event, EventRecord
<1>7. Shaped(us, n) /\ LiveWorkers(us) = LiveWorkers(ts)
  BY <1>2, <1>3, SwitchedShaped
<1>8. /\ us \in [Slot -> TaskRecord] /\ us[n] = [ts[n] EXCEPT !.state = "running"]
      /\ us[c] = [ts[c] EXCEPT !.state = IF @ = "running" THEN "ready" ELSE @]
      /\ \A i \in Slot \ {n, c} : us[i] = ts[i]
      /\ \A i \in Slot : us[i].entry = ts[i].entry /\ us[i].at = ts[i].at /\ us[i].done = ts[i].done
  BY <1>1, <1>2, <1>3, SwitchedFields
<1> HIDE DEF us, c
<1>9. /\ us[n].state = "running"
      /\ us[c].state = (IF ts[c].state = "running" THEN "ready" ELSE ts[c].state)
  BY <1>1, <1>3, <1>8 DEF TaskRecord
<1>10. ASSUME NEW i \in Slot \ {0}
       PROVE  WorkerOf(us[i], p) /\ (us[i].state # "empty" => (us[i].state = "running" <=> i = n))
  <2>1. WorkerOf(ts[i], p) /\ (ts[i].state = "running" => i = c)
    BY DEF c
  <2>2. us[i].entry = ts[i].entry /\ us[i].at = ts[i].at /\ us[i].done = ts[i].done
    BY <1>8
  <2>3. CASE i = n
    BY <1>3, <1>9, <2>1, <2>2, <2>3 DEF WorkerOf
  <2>4. CASE i = c /\ i # n
    BY <1>9, <2>1, <2>2, <2>4 DEF WorkerOf
  <2>5. CASE i # c /\ i # n
    BY <1>8, <2>1, <2>5
  <2> QED
    BY <2>3, <2>4, <2>5
<1>11. LogSound(Append(m.log, e), n) /\ Append(m.log, e) # <<>>
  BY <1>1, <1>2, <1>3, <1>6, LogGrows DEF c
<1>12. a \in Nat
  <2>1. LiveWorkers(ts) \in SUBSET Slot
    BY DEF LiveWorkers
  <2> QED
    BY <2>1, PartsFinite
<1>13. Append(m.log, e) \in Seq(EventRecord)
  BY <1>11 DEF LogSound
<1>14. r \in Config
  BY <1>3, <1>5, <1>8, <1>12, <1>13 DEF Config
<1>15. r.tasks = us /\ r.cur = n /\ r.active = a /\ r.log = Append(m.log, e)
  BY <1>5
<1>16. Good(r, p)
  BY <1>7, <1>10, <1>11, <1>14, <1>15, GoodParts
<1> QED
  BY <1>2, <1>3, <1>6, <1>16 DEF n, e, r, c

-----------------------------------------------------------------------------
(* Spawning.                                                                *)

Spawning == [ok : BOOLEAN, tasks : [Slot -> TaskRecord], pid : Nat \ {0}]

\* q is what a spawn makes of r: a new task in a free slot, or no room.
Spawned(q, r, entry, arg) ==
  /\ q \in Spawning /\ Shaped(q.tasks, 0)
  /\ \/ q.tasks = r.tasks /\ ~q.ok
     \/ /\ q.ok = r.ok
        /\ \E s \in Slot \ {0} :
             /\ r.tasks[s].state \in {"empty", "zombie"}
             /\ q.tasks = [r.tasks EXCEPT ![s] = NewTask(r.pid, entry, arg)]

LEMMA NewTaskTyped ==
  ASSUME NEW pid \in Nat \ {0}, NEW entry \in Entries, NEW arg \in 0 .. 2
  PROVE  /\ NewTask(pid, entry, arg) \in TaskRecord
         /\ NewTask(pid, entry, arg).state = "ready" /\ NewTask(pid, entry, arg).pid = pid
         /\ NewTask(pid, entry, arg).entry = entry /\ NewTask(pid, entry, arg).done = 0
         /\ NewTask(pid, entry, arg).at = "work"
  BY DEF NewTask, TaskRecord

LEMMA SpawnIs ==
  ASSUME NEW r \in Spawning, Shaped(r.tasks, 0), NEW entry \in Entries \ {"shell"},
         NEW arg \in 0 .. 2
  PROVE  Spawned(sched_spawn(r, entry, arg), r, entry, arg)
<1> DEFINE ts == r.tasks
           q == sched_spawn(r, entry, arg)
           x == NewTask(r.pid, entry, arg)
           s == Min(FreeSlots(ts))
<1>1. /\ ts \in [Slot -> TaskRecord] /\ r.pid \in Nat \ {0} /\ r.ok \in BOOLEAN
      /\ \A i \in Slot \ {0} : ts[i].state # "empty" => ts[i].pid # 0
  BY DEF Shaped, Spawning
<1>2. x \in TaskRecord /\ x.state = "ready" /\ x.pid = r.pid /\ x.entry = entry
  BY <1>1, NewTaskTyped
<1> HIDE DEF x
<1>3. CASE FreeSlots(ts) = {}
  <2>1. q = [r EXCEPT !.ok = FALSE]
    BY <1>3 DEF sched_spawn
  <2>2. q \in Spawning /\ q.tasks = ts /\ ~q.ok
    BY <2>1 DEF Spawning
  <2> QED
    BY <2>2 DEF Spawned
<1>4. CASE FreeSlots(ts) # {}
  <2>1. s \in FreeSlots(ts)
    BY <1>4, FreeSlotTaken
  <2>2. s \in Slot \ {0}
    BY <2>1 DEF FreeSlots
  <2>3. ts[s].state \in {"empty", "zombie"}
    <3>1. ts[s] \in TaskRecord /\ (ts[s].state # "empty" => ts[s].pid # 0)
      BY <1>1, <2>2
    <3>2. ts[s].pid \in Nat
      BY <3>1 DEF TaskRecord
    <3>3. ~(ts[s].state # "empty" /\ ts[s].pid > 0) \/ ts[s].state = "zombie"
      BY <2>1 DEF FreeSlots, task_visible
    <3> HIDE DEF s, ts
    <3> QED
      BY <3>1, <3>2, <3>3
  <2> DEFINE us == [ts EXCEPT ![s] = x]
  <2>4. q = [r EXCEPT !.tasks = us, !.pid = r.pid + 1]
    BY <1>4 DEF sched_spawn, x
  <2> HIDE DEF s, q
  <2>5. us \in [Slot -> TaskRecord] /\ us[s] = x /\ \A i \in Slot \ {s} : us[i] = ts[i]
    BY <1>1, <1>2, <2>2
  <2>6. us[0] = ts[0] /\ 0 \in Slot
    BY <2>2, <2>5, SlotFacts
  <2> HIDE DEF us
  <2>7. Shaped(us, 0)
    <3>1. ASSUME NEW i \in Slot \ {0}
          PROVE  /\ us[i].entry # "shell"
                 /\ us[i].state = "empty" => us[i] = EmptySlot
                 /\ us[i].state # "empty" => us[i].pid # 0
      BY <1>1, <1>2, <2>5 DEF Shaped
    <3> QED
      BY <2>5, <2>6, <3>1 DEF Shaped
  <2>8. r.pid + 1 \in Nat \ {0}
    BY <1>1
  <2>9. q \in Spawning /\ q.tasks = us /\ q.ok = r.ok
    BY <2>4, <2>5, <2>8 DEF Spawning
  <2> QED
    BY <2>2, <2>3, <2>7, <2>9 DEF Spawned, us, q, x
<1> QED
  BY <1>3, <1>4

\* A spawn of a worker adds at most one live worker, and one if there is room.
LEMMA SpawnCounts ==
  ASSUME NEW r \in Spawning, Shaped(r.tasks, 0), NEW entry \in Entries \ {"shell"},
         NEW arg \in 0 .. 2,
         NEW q, Spawned(q, r, entry, arg),
         NEW k \in Nat, Cardinality(LiveWorkers(r.tasks)) <= k
  PROVE  /\ Cardinality(LiveWorkers(q.tasks)) <= k + 1
         /\ entry = "fork" => Cardinality(LiveWorkers(q.tasks)) <= k
<1> DEFINE L == LiveWorkers(r.tasks)
<1>1. L \in SUBSET Slot /\ r.tasks \in [Slot -> TaskRecord]
  BY DEF LiveWorkers, Shaped
<1>2. IsFiniteSet(L) /\ Cardinality(L) \in Nat
  BY <1>1, PartsFinite
<1>3. CASE q.tasks = r.tasks
  BY <1>2, <1>3
<1>4. ASSUME NEW s \in Slot \ {0}, q.tasks = [r.tasks EXCEPT ![s] = NewTask(r.pid, entry, arg)]
      PROVE  /\ Cardinality(LiveWorkers(q.tasks)) <= k + 1
             /\ entry = "fork" => Cardinality(LiveWorkers(q.tasks)) <= k
  <2>1. LiveWorkers(q.tasks) \subseteq L \cup {s}
        /\ (entry = "fork" => LiveWorkers(q.tasks) \subseteq L)
    <3>1. q.tasks[s] = NewTask(r.pid, entry, arg) /\ \A i \in Slot \ {s} : q.tasks[i] = r.tasks[i]
      BY <1>1, <1>4
    <3>2. NewTask(r.pid, entry, arg).entry = entry
      BY DEF NewTask
    <3> QED
      BY <3>1, <3>2 DEF LiveWorkers
  <2> HIDE DEF L
  <2>2. IsFiniteSet(L \cup {s}) /\ Cardinality(L \cup {s}) <= Cardinality(L) + 1
        /\ Cardinality(L \cup {s}) \in Nat
    BY <1>2, FS_AddElement
  <2>3. Cardinality(LiveWorkers(q.tasks)) <= Cardinality(L \cup {s})
    BY <2>1, <2>2, FS_Subset
  <2>4. entry = "fork" => Cardinality(LiveWorkers(q.tasks)) <= Cardinality(L)
    BY <1>2, <2>1, FS_Subset
  <2>5. Cardinality(LiveWorkers(q.tasks)) \in Nat /\ Cardinality(L) <= k
    <3>1. LiveWorkers(q.tasks) \in SUBSET Slot
      BY DEF LiveWorkers
    <3> QED
      BY <3>1, PartsFinite DEF L
  <2> QED
    BY <1>2, <2>2, <2>3, <2>4, <2>5
<1> QED
  BY <1>3, <1>4 DEF Spawned

\* In a table where every slot is clear or has a live worker a spawn that
\* finds room adds exactly one.
LEMMA SpawnExact ==
  ASSUME NEW r \in Spawning, Shaped(r.tasks, 0), NEW p \in Workloads, NEW arg \in 0 .. 2,
         NEW q, Spawned(q, r, p, arg), q.ok,
         \A i \in Slot \ {0} : r.tasks[i].state \in {"empty", "ready"} /\ WorkerOf(r.tasks[i], p)
  PROVE  /\ \A i \in Slot \ {0} : q.tasks[i].state \in {"empty", "ready"} /\ WorkerOf(q.tasks[i], p)
         /\ Cardinality(LiveWorkers(q.tasks)) = Cardinality(LiveWorkers(r.tasks)) + 1
         /\ r.ok
<1> DEFINE L == LiveWorkers(r.tasks)
           x == NewTask(r.pid, p, arg)
<1>1. L \in SUBSET Slot /\ r.tasks \in [Slot -> TaskRecord] /\ r.pid \in Nat \ {0}
  BY DEF LiveWorkers, Shaped, Spawning
<1>2. PICK s \in Slot \ {0} : r.tasks[s].state \in {"empty", "zombie"}
      /\ q.tasks = [r.tasks EXCEPT ![s] = x]
  BY DEF Spawned
<1>3. r.tasks[s].state = "empty" /\ s \notin L
  BY <1>2 DEF LiveWorkers
<1>4. q.tasks[s] = x /\ \A i \in Slot \ {s} : q.tasks[i] = r.tasks[i]
  BY <1>1, <1>2
<1>5. p \in Entries \ {"shell", "fork"} /\ Rounds[p] \in Nat
  BY ReplayAssumption DEF Entries, Workloads
<1>6. x.state = "ready" /\ x.entry = p /\ x.done = 0 /\ x.at = "work"
  BY DEF NewTask
<1> HIDE DEF x
<1>7. LiveWorkers(q.tasks) = L \cup {s}
  BY <1>4, <1>5, <1>6 DEF LiveWorkers
<1>8. Cardinality(LiveWorkers(q.tasks)) = Cardinality(L) + 1
  BY <1>1, <1>3, <1>7, PartsFinite, FS_AddElement
<1>9. WorkerOf(x, p)
  BY <1>5, <1>6 DEF WorkerOf
<1>10. ASSUME NEW i \in Slot \ {0}
       PROVE  q.tasks[i].state \in {"empty", "ready"} /\ WorkerOf(q.tasks[i], p)
  BY <1>4, <1>6, <1>9
<1> QED
  BY <1>8, <1>10 DEF Spawned

\* Workers is the number of spawns of workload_run_profile.
LEMMA ProfileCounts ==
  ASSUME NEW ts, Shaped(ts, 0), NEW pid \in Nat \ {0}, NEW p \in Workloads,
         NEW k \in Nat, Cardinality(LiveWorkers(ts)) <= k
  PROVE  /\ workload_run_profile(ts, pid, p) \in Spawning
         /\ Shaped(workload_run_profile(ts, pid, p).tasks, 0)
         /\ Cardinality(LiveWorkers(workload_run_profile(ts, pid, p).tasks)) <= k + Workers(p)
         /\ Workers(p) \in Nat
<1> DEFINE r == [ok |-> TRUE, tasks |-> ts, pid |-> pid]
           r1 == sched_spawn(r, p, 0)
           r2 == sched_spawn(r1, p, 1)
           r3 == sched_spawn(r2, p, 2)
<1>1. r \in Spawning /\ r.tasks = ts
  BY DEF Spawning, Shaped
<1>2. p \in Entries \ {"shell"} /\ 0 \in 0 .. 2 /\ 1 \in 0 .. 2 /\ 2 \in 0 .. 2
  BY DEF Entries, Workloads
<1>3. workload_run_profile(ts, pid, p) = (IF p = "attack" THEN r1 ELSE r3)
  BY DEF workload_run_profile, Workers
<1> HIDE DEF r, r1, r2, r3
<1>4. Spawned(r1, r, p, 0)
  BY <1>1, <1>2, SpawnIs DEF r1
<1>5. r1 \in Spawning /\ Shaped(r1.tasks, 0) /\ Cardinality(LiveWorkers(r1.tasks)) <= k + 1
  <2>1. r1 \in Spawning /\ Shaped(r1.tasks, 0)
    BY <1>4 DEF Spawned
  <2> QED
    BY <1>1, <1>2, <1>4, <2>1, SpawnCounts
<1>6. Spawned(r2, r1, p, 1)
  BY <1>2, <1>5, SpawnIs DEF r2
<1>7. r2 \in Spawning /\ Shaped(r2.tasks, 0) /\ Cardinality(LiveWorkers(r2.tasks)) <= (k + 1) + 1
  <2>1. k + 1 \in Nat
    OBVIOUS
  <2>2. r2 \in Spawning /\ Shaped(r2.tasks, 0)
    BY <1>6 DEF Spawned
  <2> QED
    BY <1>2, <1>5, <1>6, <2>1, <2>2, SpawnCounts
<1>8. Spawned(r3, r2, p, 2)
  BY <1>2, <1>7, SpawnIs DEF r3
<1>9. r3 \in Spawning /\ Shaped(r3.tasks, 0)
      /\ Cardinality(LiveWorkers(r3.tasks)) <= ((k + 1) + 1) + 1
  <2>1. (k + 1) + 1 \in Nat
    OBVIOUS
  <2>2. r3 \in Spawning /\ Shaped(r3.tasks, 0)
    BY <1>8 DEF Spawned
  <2> QED
    BY <1>2, <1>7, <1>8, <2>1, <2>2, SpawnCounts
<1>10. ((k + 1) + 1) + 1 = k + 3
  OBVIOUS
<1> QED
  BY <1>3, <1>5, <1>9, <1>10 DEF Workers

\* A run of a profile begins in a good configuration.
LEMMA BeginGood ==
  ASSUME NEW p \in Workloads, Fits(p)
  PROVE  Good(Begin(p), p)
<1> DEFINE r == [ok |-> TRUE, tasks |-> Alone, pid |-> 2]
           r1 == sched_spawn(r, p, 0)
           r2 == sched_spawn(r1, p, 1)
           r3 == sched_spawn(r2, p, 2)
           w == workload_run_profile(Alone, 2, p)
           Idle(ts) == \A i \in Slot \ {0} :
                         ts[i].state \in {"empty", "ready"} /\ WorkerOf(ts[i], p)
<1>1. r \in Spawning /\ r.tasks = Alone /\ Shaped(r.tasks, 0)
  BY AloneShaped DEF Spawning, Shaped
<1>2. p \in Entries \ {"shell"} /\ 0 \in 0 .. 2 /\ 1 \in 0 .. 2 /\ 2 \in 0 .. 2
  BY DEF Entries, Workloads
<1>3. w = (IF p = "attack" THEN r1 ELSE r3) /\ w.ok
  BY DEF workload_run_profile, Workers, Fits
<1>4. Idle(r.tasks) /\ Cardinality(LiveWorkers(r.tasks)) = 0
  <2>1. Cardinality(LiveWorkers(Alone)) = 0
    BY AloneShaped, FS_EmptySet
  <2>2. \A i \in Slot \ {0} : Alone[i] = EmptySlot
    BY DEF Alone
  <2> QED
    BY <2>1, <2>2, EmptySlotTyped DEF WorkerOf
<1> HIDE DEF r, r1, r2, r3, w
<1>5. Spawned(r1, r, p, 0) /\ r1 \in Spawning /\ Shaped(r1.tasks, 0)
  <2>1. Spawned(r1, r, p, 0)
    BY <1>1, <1>2, SpawnIs DEF r1
  <2> QED
    BY <2>1 DEF Spawned
<1>6. Spawned(r2, r1, p, 1) /\ r2 \in Spawning /\ Shaped(r2.tasks, 0)
  <2>1. Spawned(r2, r1, p, 1)
    BY <1>2, <1>5, SpawnIs DEF r2
  <2> QED
    BY <2>1 DEF Spawned
<1>7. Spawned(r3, r2, p, 2) /\ r3 \in Spawning /\ Shaped(r3.tasks, 0)
  <2>1. Spawned(r3, r2, p, 2)
    BY <1>2, <1>6, SpawnIs DEF r3
  <2> QED
    BY <2>1 DEF Spawned
<1>8. r1.ok => Idle(r1.tasks) /\ Cardinality(LiveWorkers(r1.tasks)) = 1
  <2> SUFFICES ASSUME r1.ok PROVE Idle(r1.tasks) /\ Cardinality(LiveWorkers(r1.tasks)) = 1
    OBVIOUS
  <2> QED
    BY <1>1, <1>2, <1>4, <1>5, SpawnExact
<1>9. (r3.ok => r2.ok) /\ (r2.ok => r1.ok)
  BY <1>6, <1>7 DEF Spawned
<1>10. r2.ok => Idle(r2.tasks) /\ Cardinality(LiveWorkers(r2.tasks)) = 1 + 1
  <2> SUFFICES ASSUME r2.ok PROVE Idle(r2.tasks) /\ Cardinality(LiveWorkers(r2.tasks)) = 1 + 1
    OBVIOUS
  <2> QED
    BY <1>2, <1>5, <1>6, <1>8, <1>9, SpawnExact
<1>11. r3.ok => Idle(r3.tasks) /\ Cardinality(LiveWorkers(r3.tasks)) = (1 + 1) + 1
  <2> SUFFICES ASSUME r3.ok PROVE Idle(r3.tasks) /\ Cardinality(LiveWorkers(r3.tasks)) = (1 + 1) + 1
    OBVIOUS
  <2> QED
    BY <1>2, <1>6, <1>7, <1>9, <1>10, SpawnExact
<1>12. /\ Shaped(w.tasks, 0) /\ Idle(w.tasks)
       /\ Cardinality(LiveWorkers(w.tasks)) = Workers(p) /\ Workers(p) \in Nat \ {0}
  BY <1>3, <1>5, <1>7, <1>8, <1>11 DEF Workers
<1> DEFINE b == Begin(p)
<1>13. b.tasks = w.tasks /\ b.cur = 0 /\ b.active = Workers(p) /\ b.log = <<>>
  BY DEF Begin, w
<1>14. b \in Config
  BY <1>12, SlotFacts DEF Config, Shaped, Begin, w
<1>15. LogSound(<<>>, 0)
  BY DEF LogSound
<1> HIDE DEF b
<1>16. \A i \in Slot \ {0} : b.tasks[i].state # "empty" =>
         (b.tasks[i].state = "running" <=> i = b.cur)
  BY <1>12, <1>13
<1> QED
  BY <1>12, <1>13, <1>14, <1>15, <1>16, GoodParts DEF b

-----------------------------------------------------------------------------
(* The steps of a run.                                                      *)

\* The parts of a table that a change of one task's at, done and state keeps.
LEMMA TaskChanged ==
  ASSUME NEW ts, NEW c \in Slot \ {0}, Shaped(ts, c), NEW x \in TaskRecord,
         x.state # "empty", x.pid = ts[c].pid, x.entry = ts[c].entry
  PROVE  /\ Shaped([ts EXCEPT ![c] = x], c)
         /\ [ts EXCEPT ![c] = x][c] = x /\ \A i \in Slot \ {c} : [ts EXCEPT ![c] = x][i] = ts[i]
<1> DEFINE us == [ts EXCEPT ![c] = x]
<1>1. ts \in [Slot -> TaskRecord] /\ ts[c].state # "empty"
  BY DEF Shaped
<1>2. us \in [Slot -> TaskRecord] /\ us[c] = x /\ \A i \in Slot \ {c} : us[i] = ts[i]
  BY <1>1
<1> HIDE DEF us
<1>3. us[0] = ts[0]
  BY <1>2, SlotFacts
<1>4. ASSUME NEW i \in Slot \ {0}
      PROVE  /\ us[i].entry # "shell"
             /\ us[i].state = "empty" => us[i] = EmptySlot
             /\ us[i].state # "empty" => us[i].pid # 0
  BY <1>1, <1>2 DEF Shaped
<1> QED
  BY <1>2, <1>3, <1>4 DEF us, Shaped

\* The running task after a turn, after its yield's first half, and at its end.
Turned(x) == [x EXCEPT !.at = "yield"]
Counted(x) == [x EXCEPT !.at = "work", !.done = @ + 1]
Ended(x) == [x EXCEPT !.state = "zombie", !.at = "dead"]

LEMMA TaskForms ==
  ASSUME NEW x \in TaskRecord
  PROVE  /\ \A y \in {Turned(x), Counted(x), Ended(x)} :
              y \in TaskRecord /\ y.pid = x.pid /\ y.entry = x.entry /\ y.arg = x.arg
         /\ Turned(x).state = x.state /\ Turned(x).done = x.done /\ Turned(x).at = "yield"
         /\ Counted(x).state = x.state /\ Counted(x).done = x.done + 1 /\ Counted(x).at = "work"
         /\ Ended(x).state = "zombie" /\ Ended(x).done = x.done /\ Ended(x).at = "dead"
<1>1. /\ Turned(x) \in TaskRecord /\ Turned(x).pid = x.pid /\ Turned(x).entry = x.entry
      /\ Turned(x).arg = x.arg /\ Turned(x).state = x.state /\ Turned(x).done = x.done
      /\ Turned(x).at = "yield"
  BY DEF Turned, TaskRecord
<1>2. /\ Counted(x) \in TaskRecord /\ Counted(x).pid = x.pid /\ Counted(x).entry = x.entry
      /\ Counted(x).arg = x.arg /\ Counted(x).state = x.state /\ Counted(x).done = x.done + 1
      /\ Counted(x).at = "work"
  <2> DEFINE d == x.done + 1
  <2>1. x.done \in Nat
    BY DEF TaskRecord
  <2>2. d \in Nat /\ Counted(x) = [x EXCEPT !.at = "work", !.done = d]
    BY <2>1 DEF Counted
  <2> HIDE DEF d
  <2>3. /\ Counted(x) \in TaskRecord /\ Counted(x).pid = x.pid /\ Counted(x).entry = x.entry
        /\ Counted(x).arg = x.arg /\ Counted(x).state = x.state /\ Counted(x).done = d
        /\ Counted(x).at = "work"
    BY <2>2 DEF TaskRecord
  <2> QED
    BY <2>3 DEF d
<1>3. /\ Ended(x) \in TaskRecord /\ Ended(x).pid = x.pid /\ Ended(x).entry = x.entry
      /\ Ended(x).arg = x.arg /\ Ended(x).state = "zombie" /\ Ended(x).done = x.done
      /\ Ended(x).at = "dead"
  BY DEF Ended, TaskRecord
<1> QED
  BY <1>1, <1>2, <1>3

LEMMA TableForms ==
  ASSUME NEW ts \in [Slot -> TaskRecord], NEW c \in Slot
  PROVE  /\ [ts EXCEPT ![c].at = "yield"] = [ts EXCEPT ![c] = Turned(ts[c])]
         /\ Yielded(ts, c) = [ts EXCEPT ![c] = Counted(ts[c])]
         /\ Gone(ts, c) = [ts EXCEPT ![c] = Ended(ts[c])]
  BY DEF Turned, Counted, Ended, Yielded, Gone, TaskRecord

\* The event of the next step of m.
StepEvent(m, u) ==
  IF m.cur = 0 THEN SwitchEvent(m.tasks, 0)
  ELSE IF m.tasks[m.cur].at = "yield" THEN SwitchEvent(Yielded(m.tasks, m.cur), m.cur)
  ELSE IF m.tasks[m.cur].done < Rounds[m.tasks[m.cur].entry] THEN WorkEvent(m.tasks[m.cur], u)
  ELSE SwitchEvent(Gone(m.tasks, m.cur), m.cur)

LEMMA WorkEventTyped ==
  ASSUME NEW x \in TaskRecord, x.entry \in Workloads, NEW u \in Nat
  PROVE  /\ WorkEvent(x, u) \in EventRecord /\ WorkEvent(x, u).type \in {"sched", "workload"}
         /\ \A v : x.entry # "sysload" => WorkEvent(x, v) = WorkEvent(x, u)
<1>1. x.pid \in Nat /\ x.done \in Nat /\ x.arg \in Nat
  BY DEF TaskRecord
<1>2. CASE x.entry = "attack"
  <2>1. WorkEvent(x, u) = Event(x.pid, "workload", 4096 + x.done, 8192 + 4 * x.done)
    BY <1>2 DEF WorkEvent
  <2>2. 4096 + x.done \in Nat /\ 8192 + 4 * x.done \in Nat
    BY <1>1
  <2>3. \A v : WorkEvent(x, v) = WorkEvent(x, u)
    BY <1>2 DEF WorkEvent
  <2> QED
    BY <1>1, <2>1, <2>2, <2>3 DEF Event, EventRecord
<1>3. CASE x.entry = "lifecycle"
  <2>1. WorkEvent(x, u) = Event(x.pid, "workload", 20480 + x.arg, x.done)
    BY <1>3 DEF WorkEvent
  <2>2. 20480 + x.arg \in Nat
    BY <1>1
  <2>3. \A v : WorkEvent(x, v) = WorkEvent(x, u)
    BY <1>3 DEF WorkEvent
  <2> QED
    BY <1>1, <2>1, <2>2, <2>3 DEF Event, EventRecord
<1>4. CASE x.entry = "sysload"
  <2>1. WorkEvent(x, u) = Event(x.pid, "sched", 1000 * x.arg + x.done, 4096 * u)
    BY <1>4 DEF WorkEvent
  <2>2. 1000 * x.arg + x.done \in Nat /\ 4096 * u \in Nat
    BY <1>1
  <2> QED
    BY <1>1, <1>4, <2>1, <2>2 DEF Event, EventRecord
<1> QED
  BY <1>2, <1>3, <1>4 DEF Workloads

\* While a worker lives and the shell runs there is a task to switch to.
LEMMA SomeReady ==
  ASSUME NEW p, NEW m, Good(m, p), m.cur = 0, m.active # 0
  PROVE  ReadySlots(m.tasks) # {}
<1>1. LiveWorkers(m.tasks) # {}
  BY FS_EmptySet DEF Good
<1>2. PICK i \in LiveWorkers(m.tasks) : TRUE
  BY <1>1
<1>3. /\ i \in Slot \ {0} /\ m.tasks[i].state # "empty" /\ m.tasks[i].at # "dead"
      /\ m.tasks[i].pid # 0 /\ m.tasks[i] \in TaskRecord
  BY <1>2 DEF LiveWorkers, Good, Shaped
<1>4. m.tasks[i].state = "ready"
  BY <1>3 DEF Good, TaskRecord
<1>5. m.tasks[i].pid > 0
  BY <1>3 DEF TaskRecord
<1> QED
  BY <1>3, <1>4, <1>5 DEF ReadySlots, task_visible

\* The running task of a good configuration.
LEMMA GoodRunning ==
  ASSUME NEW p \in Workloads, NEW m, Good(m, p), m.cur # 0
  PROVE  /\ m.cur \in Slot \ {0} /\ m.tasks[m.cur] \in TaskRecord
         /\ m.tasks[m.cur].state = "running" /\ m.tasks[m.cur].entry = p
         /\ m.tasks[m.cur].at \in {"work", "yield"}
         /\ m.tasks[m.cur].done \in Nat /\ m.tasks[m.cur].done <= Rounds[p]
         /\ m.tasks[m.cur].at = "yield" => m.tasks[m.cur].done < Rounds[p]
         /\ m.cur \in LiveWorkers(m.tasks) /\ Rounds[p] \in Nat
<1>1. /\ m.cur \in Slot \ {0} /\ m.tasks[m.cur] \in TaskRecord /\ m.tasks[m.cur].state # "empty"
  BY DEF Good, Shaped
<1>2. p # "fork" /\ Rounds[p] \in Nat
  BY ReplayAssumption DEF Workloads, Entries
<1>3. m.tasks[m.cur].state = "running" /\ m.tasks[m.cur].entry = p /\ m.tasks[m.cur].at # "dead"
  BY <1>1 DEF Good
<1>4. m.tasks[m.cur].at \in {"work", "yield"} /\ m.tasks[m.cur].done \in Nat
  BY <1>1, <1>3 DEF TaskRecord
<1> QED
  BY <1>1, <1>2, <1>3, <1>4 DEF Good, LiveWorkers

\* A table in which the running task has become x, still alive.
LEMMA AliveTable ==
  ASSUME NEW p \in Workloads, NEW m, Good(m, p), m.cur # 0, NEW x \in TaskRecord,
         x.pid = m.tasks[m.cur].pid, x.entry = p, x.state = "running",
         x.at # "dead", WorkerOf(x, p)
  PROVE  /\ Shaped([m.tasks EXCEPT ![m.cur] = x], m.cur)
         /\ \A i \in Slot \ {0} : WorkerOf([m.tasks EXCEPT ![m.cur] = x][i], p)
         /\ \A i \in Slot \ {0} : [m.tasks EXCEPT ![m.cur] = x][i].state # "empty" =>
              ([m.tasks EXCEPT ![m.cur] = x][i].state = "running" <=> i = m.cur)
         /\ m.cur \notin ReadySlots([m.tasks EXCEPT ![m.cur] = x])
         /\ LiveWorkers([m.tasks EXCEPT ![m.cur] = x]) = LiveWorkers(m.tasks)
<1> DEFINE c == m.cur
           us == [m.tasks EXCEPT ![c] = x]
<1>1. /\ c \in Slot \ {0} /\ m.tasks[c].state = "running" /\ m.tasks[c].entry = p
      /\ c \in LiveWorkers(m.tasks)
  BY GoodRunning
<1>2. /\ Shaped(m.tasks, c) /\ \A i \in Slot \ {0} : WorkerOf(m.tasks[i], p)
      /\ \A i \in Slot \ {0} : m.tasks[i].state # "empty" =>
           (m.tasks[i].state = "running" <=> i = c)
  BY GoodParts
<1>3. Shaped(us, c) /\ us[c] = x /\ \A i \in Slot \ {c} : us[i] = m.tasks[i]
  BY <1>1, <1>2, TaskChanged
<1> HIDE DEF us
<1>4. \A i \in Slot \ {0} : WorkerOf(us[i], p)
  BY <1>2, <1>3
<1>5. \A i \in Slot \ {0} : us[i].state # "empty" => (us[i].state = "running" <=> i = c)
  BY <1>2, <1>3
<1>6. c \notin ReadySlots(us)
  BY <1>3 DEF ReadySlots
<1>7. p # "fork"
  BY DEF Workloads
<1>8. LiveWorkers(us) = LiveWorkers(m.tasks)
  BY <1>1, <1>3, <1>7 DEF LiveWorkers
<1> QED
  BY <1>3, <1>4, <1>5, <1>6, <1>8 DEF us, c

\* The table when the running task has ended.
LEMMA EndedTable ==
  ASSUME NEW p \in Workloads, NEW m, Good(m, p), m.cur # 0
  PROVE  /\ Shaped(Gone(m.tasks, m.cur), m.cur)
         /\ \A i \in Slot \ {0} : WorkerOf(Gone(m.tasks, m.cur)[i], p)
         /\ \A i \in Slot \ {0} : Gone(m.tasks, m.cur)[i].state = "running" => i = m.cur
         /\ m.cur \notin ReadySlots(Gone(m.tasks, m.cur))
         /\ m.active - 1 = Cardinality(LiveWorkers(Gone(m.tasks, m.cur)))
<1> DEFINE c == m.cur
           x == Ended(m.tasks[c])
           us == Gone(m.tasks, c)
<1>1. /\ c \in Slot \ {0} /\ m.tasks[c] \in TaskRecord /\ m.tasks[c].state = "running"
      /\ m.tasks[c].entry = p /\ m.tasks[c].done <= Rounds[p] /\ c \in LiveWorkers(m.tasks)
  BY GoodRunning
<1>2. /\ Shaped(m.tasks, c) /\ \A i \in Slot \ {0} : WorkerOf(m.tasks[i], p)
      /\ \A i \in Slot \ {0} : m.tasks[i].state # "empty" =>
           (m.tasks[i].state = "running" <=> i = c)
      /\ m.active = Cardinality(LiveWorkers(m.tasks))
  BY GoodParts
<1>3. us = [m.tasks EXCEPT ![c] = x]
  BY <1>1, <1>2, TableForms DEF Shaped
<1>4. /\ x \in TaskRecord /\ x.pid = m.tasks[c].pid /\ x.entry = p
      /\ x.state = "zombie" /\ x.done = m.tasks[c].done /\ x.at = "dead"
  BY <1>1, TaskForms
<1> HIDE DEF us, x, c
<1>5. Shaped(us, c) /\ us[c] = x /\ \A i \in Slot \ {c} : us[i] = m.tasks[i]
  BY <1>1, <1>2, <1>3, <1>4, TaskChanged
<1>6. WorkerOf(x, p)
  BY <1>1, <1>4 DEF WorkerOf
<1>7. \A i \in Slot \ {0} : WorkerOf(us[i], p)
  BY <1>2, <1>5, <1>6
<1>8. \A i \in Slot \ {0} : us[i].state = "running" => i = c
  BY <1>2, <1>5
<1>9. c \notin ReadySlots(us)
  BY <1>4, <1>5 DEF ReadySlots
<1>10. LiveWorkers(us) = LiveWorkers(m.tasks) \ {c}
  BY <1>4, <1>5 DEF LiveWorkers
<1>11. LiveWorkers(m.tasks) \in SUBSET Slot
  BY DEF LiveWorkers
<1>12. Cardinality(LiveWorkers(us)) = Cardinality(LiveWorkers(m.tasks)) - 1
  BY <1>1, <1>10, <1>11, PartsFinite, FS_RemoveElement
<1> QED
  BY <1>2, <1>5, <1>7, <1>8, <1>9, <1>12 DEF us, c

\* A run goes from good configurations to good ones, and each step that is
\* not the last appends its event.
LEMMA StepGood ==
  ASSUME NEW p \in Workloads, NEW m, Good(m, p), NEW u \in Nat
  PROVE  /\ Good(Step(m, u), p)
         /\ ~Done(m) =>
              /\ Step(m, u).log = Append(m.log, StepEvent(m, u))
              /\ StepEvent(m, u) \in EventRecord /\ StepEvent(m, u).type # "irq"
<1> DEFINE c == m.cur
<1>1. /\ m \in Config /\ Shaped(m.tasks, c) /\ LogSound(m.log, c)
      /\ \A i \in Slot \ {0} : WorkerOf(m.tasks[i], p)
      /\ \A i \in Slot \ {0} : m.tasks[i].state # "empty" =>
           (m.tasks[i].state = "running" <=> i = c)
      /\ m.active = Cardinality(LiveWorkers(m.tasks))
  BY GoodParts
<1>2. m.tasks \in [Slot -> TaskRecord] /\ c \in Slot /\ m.log \in Seq(EventRecord)
      /\ m.active \in Nat
  BY <1>1 DEF Config
<1>3. ASSUME NEW ts, NEW a
      PROVE  Moved(m, ts, a).log = Append(m.log, SwitchEvent(ts, m.cur))
  BY DEF Moved
<1>4. CASE Done(m)
  BY <1>4 DEF Step
<1>5. CASE ~Done(m) /\ c = 0
  <2>1. ReadySlots(m.tasks) # {}
    BY <1>5, SomeReady DEF Done
  <2>2. c \notin ReadySlots(m.tasks)
    BY <1>1, <1>5, ShellReady
  <2>3. \A i \in Slot \ {0} : m.tasks[i].state = "running" => i = c
    BY <1>1
  <2>4. /\ Good(Moved(m, m.tasks, m.active), p)
        /\ SwitchEvent(m.tasks, c) \in EventRecord /\ SwitchEvent(m.tasks, c).type = "sched"
    BY <1>1, <2>1, <2>2, <2>3, MovedGood
  <2>5. Step(m, u) = Moved(m, m.tasks, m.active) /\ StepEvent(m, u) = SwitchEvent(m.tasks, c)
    BY <1>5 DEF Step, StepEvent
  <2> QED
    BY <1>3, <2>4, <2>5
<1>6. CASE ~Done(m) /\ c # 0 /\ m.tasks[c].at = "yield"
  <2> DEFINE x == Counted(m.tasks[c])
             us == Yielded(m.tasks, c)
  <2>1. /\ m.tasks[c] \in TaskRecord /\ m.tasks[c].state = "running" /\ m.tasks[c].entry = p
        /\ m.tasks[c].done \in Nat /\ m.tasks[c].done < Rounds[p] /\ Rounds[p] \in Nat
    BY <1>6, GoodRunning
  <2>2. /\ x \in TaskRecord /\ x.pid = m.tasks[c].pid /\ x.entry = p /\ x.state = "running"
        /\ x.at = "work" /\ x.done = m.tasks[c].done + 1
    BY <2>1, TaskForms
  <2>3. us = [m.tasks EXCEPT ![c] = x]
    BY <1>2, TableForms
  <2> HIDE DEF x
  <2>4. WorkerOf(x, p)
    BY <2>1, <2>2 DEF WorkerOf
  <2>5. /\ Shaped(us, c) /\ \A i \in Slot \ {0} : WorkerOf(us[i], p)
        /\ \A i \in Slot \ {0} : us[i].state # "empty" => (us[i].state = "running" <=> i = c)
        /\ c \notin ReadySlots(us) /\ LiveWorkers(us) = LiveWorkers(m.tasks)
    BY <1>6, <2>2, <2>3, <2>4, AliveTable
  <2> HIDE DEF us
  <2>6. \A i \in Slot \ {0} : us[i].state = "running" => i = c
    BY <2>5
  <2>7. 0 \in ReadySlots(us)
    BY <1>6, <2>5, ShellReady
  <2>8. /\ Good(Moved(m, us, m.active), p)
        /\ SwitchEvent(us, c) \in EventRecord /\ SwitchEvent(us, c).type = "sched"
    BY <1>1, <2>5, <2>6, <2>7, MovedGood
  <2>9. Step(m, u) = Moved(m, us, m.active) /\ StepEvent(m, u) = SwitchEvent(us, c)
    BY <1>6 DEF Step, StepEvent, us
  <2> QED
    BY <1>3, <2>8, <2>9
<1>7. CASE ~Done(m) /\ c # 0 /\ m.tasks[c].at # "yield" /\ m.tasks[c].done < Rounds[p]
  <2> DEFINE x == Turned(m.tasks[c])
             us == [m.tasks EXCEPT ![c].at = "yield"]
             e == WorkEvent(m.tasks[c], u)
             r == Worked(m, u)
  <2>1. m.tasks[c] \in TaskRecord /\ m.tasks[c].state = "running" /\ m.tasks[c].entry = p
    BY <1>7, GoodRunning
  <2>2. /\ x \in TaskRecord /\ x.pid = m.tasks[c].pid /\ x.entry = p /\ x.state = "running"
        /\ x.at = "yield" /\ x.done = m.tasks[c].done
    BY <2>1, TaskForms
  <2>3. us = [m.tasks EXCEPT ![c] = x]
    BY <1>2, TableForms
  <2> HIDE DEF x
  <2>4. WorkerOf(x, p)
    <3>1. Rounds[p] \in Nat /\ x.done \in Nat
      BY <1>7, <2>2, GoodRunning
    <3> QED
      BY <1>7, <2>2, <3>1 DEF WorkerOf
  <2> HIDE DEF us
  <2>5. /\ Shaped(us, c) /\ \A i \in Slot \ {0} : WorkerOf(us[i], p)
        /\ \A i \in Slot \ {0} : us[i].state # "empty" => (us[i].state = "running" <=> i = c)
        /\ LiveWorkers(us) = LiveWorkers(m.tasks)
    BY <1>7, <2>2, <2>3, <2>4, AliveTable
  <2>6. e \in EventRecord /\ e.type \in {"sched", "workload"}
    BY <2>1, WorkEventTyped
  <2>7. Step(m, u) = r /\ StepEvent(m, u) = e
    BY <1>7, <2>1 DEF Step, StepEvent
  <2>8. r = [tasks |-> us, cur |-> c, active |-> m.active, log |-> Append(m.log, e)]
    BY DEF Worked, us
  <2> HIDE DEF e, r
  <2>9. LogSound(Append(m.log, e), c) /\ Append(m.log, e) # <<>>
    BY <1>1, <1>2, <1>7, <2>6, LogGrows
  <2>10. r.tasks = us /\ r.cur = c /\ r.active = m.active /\ r.log = Append(m.log, e)
    BY <2>8
  <2>11. r \in Config
    BY <1>2, <2>5, <2>8, <2>9 DEF Config, Shaped, LogSound
  <2>12. Good(r, p)
    BY <1>1, <2>5, <2>9, <2>10, <2>11, GoodParts
  <2> QED
    BY <2>6, <2>7, <2>10, <2>12
<1>8. CASE ~Done(m) /\ c # 0 /\ m.tasks[c].at # "yield" /\ ~(m.tasks[c].done < Rounds[p])
  <2> DEFINE us == Gone(m.tasks, c)
  <2>1. /\ Shaped(us, c) /\ \A i \in Slot \ {0} : WorkerOf(us[i], p)
        /\ \A i \in Slot \ {0} : us[i].state = "running" => i = c
        /\ c \notin ReadySlots(us) /\ m.active - 1 = Cardinality(LiveWorkers(us))
    BY <1>8, EndedTable
  <2>2. m.tasks[c].entry = p
    BY <1>8, GoodRunning
  <2> HIDE DEF us
  <2>3. 0 \in ReadySlots(us)
    BY <1>8, <2>1, ShellReady
  <2>4. /\ Good(Moved(m, us, m.active - 1), p)
        /\ SwitchEvent(us, c) \in EventRecord /\ SwitchEvent(us, c).type = "sched"
    BY <1>1, <2>1, <2>3, MovedGood
  <2>5. Step(m, u) = Moved(m, us, m.active - 1) /\ StepEvent(m, u) = SwitchEvent(us, c)
    BY <1>8, <2>2 DEF Step, StepEvent, us
  <2> QED
    BY <1>3, <2>4, <2>5
<1> QED
  BY <1>4, <1>5, <1>6, <1>7, <1>8

-----------------------------------------------------------------------------
(* Runs.  A configuration is reached if it is in every set that holds the   *)
(* first one and is closed under steps.                                     *)

LEMMA LeadsAlong ==
  ASSUME NEW x, NEW y, NEW u, Leads(x, y, u), NEW T, x \in T, \A z \in T : Step(z, u) \in T
  PROVE  y \in T
  BY DEF Leads

LEMMA LeadsStep ==
  ASSUME NEW x, NEW y, NEW u
  PROVE  Leads(x, x, u) /\ (Leads(x, y, u) => Leads(x, Step(y, u), u))
  BY DEF Leads

LEMMA RanGood ==
  ASSUME NEW p \in Workloads, Fits(p), NEW u \in Nat, NEW m, Ran(p, u, m)
  PROVE  Good(m, p)
<1> DEFINE T == {x \in Config : Good(x, p)}
<1>1. Begin(p) \in T
  BY BeginGood DEF Good
<1>2. \A x \in T : Step(x, u) \in T
  BY StepGood DEF Good
<1> HIDE DEF T
<1>3. m \in T
  BY <1>1, <1>2, LeadsAlong DEF Ran
<1> QED
  BY <1>3 DEF T

\* From every configuration of a run its end is still ahead.
LEMMA EndAhead ==
  ASSUME NEW p \in Workloads, Fits(p), NEW u \in Nat, NEW m, Ran(p, u, m),
         NEW f, Ran(p, u, f), Done(f)
  PROVE  Leads(m, f, u)
<1> DEFINE S == {x \in Config : Good(x, p) /\ Leads(x, f, u)}
<1>1. Begin(p) \in S
  BY BeginGood DEF Good, Ran
<1>2. ASSUME NEW x \in S
      PROVE  Step(x, u) \in S
  <2>1. Good(x, p) /\ Leads(x, f, u)
    OBVIOUS
  <2>2. Good(Step(x, u), p) /\ Step(x, u) \in Config
    BY <2>1, StepGood DEF Good
  <2>3. CASE x = f
    BY <2>2, <2>3 DEF Step
  <2>4. CASE x # f
    <3>1. ASSUME NEW T, Step(x, u) \in T, \A y \in T : Step(y, u) \in T
          PROVE  f \in T
      <4> DEFINE V == T \cup {x}
      <4>1. x \in V /\ \A y \in V : Step(y, u) \in V
        BY <3>1
      <4> HIDE DEF V
      <4>2. f \in V
        BY <2>1, <4>1, LeadsAlong
      <4> QED
        BY <2>4, <4>2 DEF V
    <3>2. Leads(Step(x, u), f, u)
      BY <3>1 DEF Leads
    <3> QED
      BY <2>2, <3>2
  <2> QED
    BY <2>3, <2>4
<1> HIDE DEF S
<1>3. m \in S
  BY <1>1, <1>2, LeadsAlong DEF Ran
<1> QED
  BY <1>3 DEF S

\* Events are only added.
LEMMA LogExtends ==
  ASSUME NEW p \in Workloads, NEW u \in Nat, NEW m, Good(m, p), NEW f, Leads(m, f, u)
  PROVE  Extends(m.log, f.log)
<1> DEFINE T == {x \in Config : Good(x, p) /\ Extends(m.log, x.log)}
<1>1. m.log \in Seq(EventRecord) /\ Len(m.log) \in Nat
  BY DEF Good, Config
<1>2. m \in T
  BY <1>1 DEF Good, Extends
<1>3. ASSUME NEW x \in T
      PROVE  Step(x, u) \in T
  <2>1. Good(Step(x, u), p) /\ Step(x, u) \in Config
    BY StepGood DEF Good
  <2>2. CASE Done(x)
    BY <2>2 DEF Step
  <2>3. CASE ~Done(x)
    <3> DEFINE e == StepEvent(x, u)
    <3>1. e \in EventRecord /\ Step(x, u).log = Append(x.log, e)
      BY <2>3, StepGood
    <3> HIDE DEF e
    <3>2. x.log \in Seq(EventRecord)
      BY DEF Config
    <3>3. /\ Len(Append(x.log, e)) = Len(x.log) + 1 /\ Len(x.log) \in Nat
          /\ \A i \in 1 .. Len(x.log) : Append(x.log, e)[i] = x.log[i]
      BY <3>1, <3>2
    <3>4. Len(m.log) <= Len(x.log) /\ \A i \in 1 .. Len(m.log) : x.log[i] = m.log[i]
      BY DEF Extends
    <3> DEFINE a == Append(x.log, e)
    <3> HIDE DEF a
    <3>5. Extends(m.log, a)
      BY <1>1, <3>3, <3>4 DEF Extends, a
    <3> QED
      BY <2>1, <3>1, <3>5 DEF a
  <2> QED
    BY <2>2, <2>3
<1> HIDE DEF T
<1>4. f \in T
  BY <1>2, <1>3, LeadsAlong
<1> QED
  BY <1>4 DEF T

\* The events before a step of a run that ends with ev, and its own.
LEMMA Lockstep ==
  ASSUME NEW p \in Workloads, Fits(p), NEW u \in Nat, NEW m, Ran(p, u, m),
         NEW ev \in Seq(EventRecord), NEW n \in Nat, n <= Len(ev), m.log = SubSeq(ev, 1, n),
         RanTo(p, u, ev)
  PROVE  /\ Good(m, p)
         /\ Done(m) => n = Len(ev)
         /\ ~Done(m) =>
              /\ n < Len(ev) /\ ev[n + 1] = StepEvent(m, u) /\ StepEvent(m, u).type # "irq"
              /\ Ran(p, u, Step(m, u)) /\ Step(m, u).log = SubSeq(ev, 1, n + 1)
<1>1. PICK f \in Config : Ran(p, u, f) /\ Done(f) /\ f.log = ev
  BY DEF RanTo
<1>2. Good(m, p)
  BY RanGood
<1>3. CASE Done(m)
  <2>1. Leads(m, f, u)
    BY <1>1, EndAhead
  <2>2. f \in {m}
    <3>1. m \in {m} /\ \A y \in {m} : Step(y, u) \in {m}
      BY <1>3 DEF Step
    <3> QED
      BY <2>1, <3>1, LeadsAlong
  <2>3. SubSeq(ev, 1, n) = ev /\ Len(SubSeq(ev, 1, n)) = n
    BY <1>1, <2>2
  <2> QED
    BY <1>2, <1>3, <2>3
<1>4. CASE ~Done(m)
  <2> DEFINE e == StepEvent(m, u)
             s == Step(m, u)
  <2>1. e \in EventRecord /\ e.type # "irq" /\ s.log = Append(SubSeq(ev, 1, n), e)
    BY <1>2, <1>4, StepGood
  <2>2. Ran(p, u, s)
    BY LeadsStep DEF Ran
  <2>3. Good(s, p)
    BY <1>2, StepGood
  <2> HIDE DEF e, s
  <2>4. Leads(s, f, u)
    BY <1>1, <2>2, EndAhead
  <2>5. Extends(s.log, ev)
    BY <1>1, <2>3, <2>4, LogExtends
  <2>6. n < Len(ev) /\ ev[n + 1] = e /\ SubSeq(ev, 1, n + 1) = Append(SubSeq(ev, 1, n), e)
    <3>1. Extends(Append(SubSeq(ev, 1, n), e), ev)
      BY <2>1, <2>5
    <3> QED
      BY <2>1, <3>1, OneMore
  <2> QED
    BY <1>2, <1>4, <2>1, <2>2, <2>6 DEF e, s
<1> QED
  BY <1>3, <1>4

-----------------------------------------------------------------------------
(* The scheduler's steps in any state.                                      *)

LEMMA KeptTrans ==
  ASSUME NEW t, NEW u, NEW v, Kept(t, u), Kept(u, v)
  PROVE  Kept(t, v)
  BY DEF Kept

LEMMA KeptSame ==
  ASSUME NEW t, TraceSound(t)
  PROVE  Kept(t, t)
  BY DEF Kept

\* The events of n packets.
LEMMA SentKept ==
  ASSUME NEW t, TraceSound(t), NEW pid \in Nat, NEW n \in Nat
  PROVE  Kept(t, Sent(t, pid, n))
<1> DEFINE e == Event(pid, "net", 0, 0)
           D == {x \in TraceRecord : TraceSound(x)}
           h == [p \in D \X (1 .. n) |-> trace_record(p[1], e)]
           Body(f) == [i \in 0 .. n |-> IF i = 0 THEN t ELSE trace_record(f[i - 1], e)]
           g == CHOOSE f : f = Body(f)
<1>1. e \in EventRecord /\ t \in D
  BY DEF Event, EventRecord, TraceSound
<1> HIDE DEF e
<1>2. \A x \in D : Kept(x, trace_record(x, e)) /\ trace_record(x, e) \in D
  <2> TAKE x \in D
  <2>1. Kept(x, trace_record(x, e))
    BY <1>1, RecordKeeps
  <2> QED
    BY <2>1 DEF Kept, TraceSound
<1>3. h \in [D \X (1 .. n) -> D]
  <2>1. ASSUME NEW p \in D \X (1 .. n)
        PROVE  trace_record(p[1], e) \in D
    <3>1. p[1] \in D
      OBVIOUS
    <3> HIDE DEF D
    <3> QED
      BY <1>2, <3>1
  <2> HIDE DEF D
  <2> QED
    BY <2>1
<1> HIDE DEF D
<1>4. PICK f \in [0 .. n -> D] : f[0] = t /\ \A i \in 1 .. n : f[i] = h[<<f[i - 1], i>>]
  <2> HIDE DEF h
  <2>1. \E f : IsRecursion(f, n, D, t, h)
    BY <1>1, <1>3, RecursionExists DEF Steps
  <2> QED
    BY <2>1 DEF IsRecursion
<1>5. f = Body(f)
  <2>1. ASSUME NEW i \in 1 .. n
        PROVE  f[i] = trace_record(f[i - 1], e)
    <3>1. f[i - 1] \in D
      BY <1>4
    <3> QED
      BY <1>4, <3>1
  <2>2. \A i \in 0 .. n : f[i] = IF i = 0 THEN t ELSE trace_record(f[i - 1], e)
    BY <1>4, <2>1
  <2> QED
    BY <1>4, <2>2
<1>6. g = Body(g)
  <2> HIDE DEF Body
  <2> QED
    BY <1>5
<1>7. Sent(t, pid, n) = g[n]
  BY DEF Sent, e
<1> HIDE DEF g, h
<1>8. g[0] = t /\ \A i \in 1 .. n : g[i] = trace_record(g[i - 1], e)
  BY <1>6
<1> DEFINE T == {i \in 0 .. n : g[i] \in D /\ Kept(t, g[i])}
<1>9. 0 \in T
  BY <1>1, <1>8, KeptSame
<1>10. ASSUME NEW m \in 0 .. n - 1, m \in T
       PROVE  m + 1 \in T
  <2>1. m + 1 \in 1 .. n /\ (m + 1) - 1 = m
    OBVIOUS
  <2>2. g[m + 1] = trace_record(g[m], e)
    BY <1>8, <2>1
  <2>3. g[m] \in D /\ Kept(t, g[m])
    BY <1>10
  <2>4. g[m + 1] \in D /\ Kept(g[m], g[m + 1])
    BY <1>2, <2>2, <2>3
  <2>5. Kept(t, g[m + 1])
    BY <2>3, <2>4, KeptTrans
  <2> QED
    BY <2>1, <2>4, <2>5
<1> HIDE DEF T
<1>11. 0 .. n \subseteq T
  BY <1>9, <1>10, SetInduction
<1>12. n \in 0 .. n
  OBVIOUS
<1> QED
  BY <1>7, <1>11, <1>12 DEF T

\* The events of a flush.
LEMMA FlushedKept ==
  ASSUME NEW t, TraceSound(t), NEW pid \in Nat, NEW n \in Nat
  PROVE  Kept(t, Flushed(t, pid, n))
<1> DEFINE u == Sent(t, pid, n)
           e == Event(pid, "power", 0, 0)
<1>1. Kept(t, u) /\ e \in EventRecord
  BY SentKept DEF Event, EventRecord
<1> HIDE DEF u, e
<1>2. Kept(u, trace_record(u, e))
  BY <1>1, RecordKeeps DEF Kept
<1> QED
  BY <1>1, <1>2, KeptTrans DEF Flushed, u, e

\* The parts of the kernel's invariant.
TableSound ==
  /\ Shaped(tasks, current_task)
  /\ active_workloads \in Nat /\ Cardinality(LiveWorkers(tasks)) <= active_workloads
DiskSound ==
  /\ store \in Seq(Session) /\ Len(store) <= MaxSessions
  /\ sessions \in [1 .. SessionCap -> 0 .. Len(store)] /\ mark \in MarkRecord
FlowSound ==
  /\ next_pid \in Nat \ {0} /\ used \in 0 .. MaxCommands /\ used <= commands
  /\ shell \in {"prompt", "post", "record", "replay"} /\ lost \in BOOLEAN
  /\ promise \in {"match", "return", "nothing"}
  /\ commands \in 0 .. MaxCommands /\ irqs \in 0 .. MaxIrqs
  /\ packets \in 0 .. MaxPackets
  /\ trace.active <=> shell = "replay"

LEMMA KernelParts == KernelInv <=> TableSound /\ TraceSound(trace) /\ DiskSound /\ FlowSound
  BY DEF KernelInv, TypeOK, TableSound, TraceSound, DiskSound, FlowSound, Shaped

\* switch_to to any task.
LEMMA SwitchSound ==
  ASSUME NEW t, TraceSound(t), NEW ts, Shaped(ts, current_task), NEW n \in Int,
         lost \in BOOLEAN, switch_to(t, ts, n)
  PROVE  /\ Shaped(tasks', current_task') /\ LiveWorkers(tasks') = LiveWorkers(ts)
         /\ Kept(t, trace') /\ lost' \in BOOLEAN
<1>1. CASE n < 0 \/ n = current_task
  BY <1>1, KeptSame DEF switch_to
<1>2. CASE ~(n < 0 \/ n = current_task) /\ (n \notin Slot \/ (n \in Slot /\ ts[n].state = "empty"))
  BY <1>2, KeptSame DEF switch_to
<1>3. CASE ~(n < 0 \/ n = current_task) /\ n \in Slot /\ ts[n].state # "empty"
  <2> DEFINE e == Event(ts[n].pid, "sched", current_task, n)
  <2>1. /\ tasks' = SwitchedTo(ts, current_task, n) /\ current_task' = n
        /\ trace' = trace_record(t, e) /\ lost' = lost
    BY <1>3 DEF switch_to, SwitchedTo
  <2>2. Shaped(tasks', current_task') /\ LiveWorkers(tasks') = LiveWorkers(ts)
    BY <1>3, <2>1, SwitchedShaped
  <2>3. ts[n].pid \in Nat /\ n \in Nat /\ current_task \in Nat
    BY <1>3, SlotFacts DEF Shaped, TaskRecord
  <2>4. e \in EventRecord
    BY <2>3 DEF Event, EventRecord
  <2> QED
    BY <2>1, <2>2, <2>4, RecordKeeps
<1> QED
  BY <1>1, <1>2, <1>3

\* switch_to to another task that is ready.
LEMMA SwitchReady ==
  ASSUME NEW t, NEW ts, current_task \in Slot, NEW n, n \in ReadySlots(ts), n # current_task,
         switch_to(t, ts, n)
  PROVE  /\ tasks' = SwitchedTo(ts, current_task, n) /\ current_task' = n
         /\ trace' = trace_record(t, Event(ts[n].pid, "sched", current_task, n))
         /\ lost' = lost
<1>1. n \in Slot /\ ts[n].state = "ready" /\ ~(n < 0)
  BY SlotFacts DEF ReadySlots
<1> QED
  BY <1>1 DEF switch_to, SwitchedTo

\* The choice of round robin does not lead astray.
LEMMA FairNotLost ==
  ASSUME NEW t, NEW ts, current_task \in Slot, switch_to(t, ts, find_next_ready(ts, current_task))
  PROVE  lost' = lost
<1> DEFINE n == find_next_ready(ts, current_task)
<1>1. CASE ReadySlots(ts) = {}
  <2>1. n = -1 /\ -1 < 0
    BY <1>1 DEF find_next_ready
  <2> QED
    BY <2>1 DEF switch_to
<1>2. CASE ReadySlots(ts) # {}
  <2>1. n \in ReadySlots(ts)
    BY <1>2, NextIsReady
  <2> HIDE DEF n
  <2>2. n \in Slot /\ ts[n].state = "ready" /\ ~(n < 0)
    BY <2>1, SlotFacts DEF ReadySlots
  <2>3. switch_to(t, ts, n)
    BY DEF n
  <2> QED
    BY <2>2, <2>3 DEF switch_to
<1> QED
  BY <1>1, <1>2

LEMMA ChoiceInt ==
  ASSUME current_task \in Slot, NEW t, TraceSound(t), NEW ts
  PROVE  /\ find_next_ready(ts, current_task) \in Int /\ Next_task(t, ts) \in Int
         /\ ~t.active => Next_task(t, ts) = find_next_ready(ts, current_task)
<1>1. find_next_ready(ts, current_task) \in Int
  <2>1. CASE ReadySlots(ts) = {}
    BY <2>1 DEF find_next_ready
  <2>2. CASE ReadySlots(ts) # {}
    BY <2>2, NextIsReady, SlotFacts DEF ReadySlots
  <2> QED
    BY <2>1, <2>2
<1>2. Forced(t) => t.events[t.index + 1].d1 \in Int
  <2> SUFFICES ASSUME Forced(t) PROVE t.events[t.index + 1].d1 \in Int
    OBVIOUS
  <2>1. t.events \in Seq(EventRecord) /\ t.index \in Nat /\ t.index < Len(t.events)
    BY DEF TraceSound, TraceRecord, Forced
  <2>2. t.events[t.index + 1] \in EventRecord
    BY <2>1
  <2> QED
    BY <2>2 DEF EventRecord
<1>3. ~t.active => ~Forced(t)
  BY DEF Forced
<1> QED
  BY <1>1, <1>2, <1>3 DEF Next_task

\* The steps of the CPU that a command may wait for, or the shell's own.
TaskStep == Drain \/ ShellYield \/ TaskWork \/ TaskYield \/ TaskExit

\* The table a task leaves when its turn is over.
LEMMA TurnTable ==
  ASSUME NEW ts, NEW c \in Slot \ {0}, Shaped(ts, c)
  PROVE  /\ ts[c].at # "dead" =>
              /\ Shaped([ts EXCEPT ![c].at = "yield"], c)
              /\ LiveWorkers([ts EXCEPT ![c].at = "yield"]) = LiveWorkers(ts)
              /\ Shaped(Yielded(ts, c), c) /\ LiveWorkers(Yielded(ts, c)) = LiveWorkers(ts)
         /\ Shaped(Gone(ts, c), c) /\ LiveWorkers(Gone(ts, c)) = LiveWorkers(ts) \ {c}
<1> DEFINE x == ts[c]
           U(y) == [ts EXCEPT ![c] = y]
<1>1. ts \in [Slot -> TaskRecord] /\ x \in TaskRecord /\ x.state # "empty"
  BY DEF Shaped
<1>2. [ts EXCEPT ![c].at = "yield"] = U(Turned(x)) /\ Yielded(ts, c) = U(Counted(x))
      /\ Gone(ts, c) = U(Ended(x))
  BY <1>1, TableForms
<1>3. ASSUME NEW y \in {Turned(x), Counted(x), Ended(x)}
      PROVE  y \in TaskRecord /\ y.state # "empty" /\ y.pid = x.pid /\ y.entry = x.entry
  BY <1>1, <1>3, TaskForms
<1>4. ASSUME NEW y \in {Turned(x), Counted(x), Ended(x)}
      PROVE  Shaped(U(y), c) /\ U(y)[c] = y /\ \A i \in Slot \ {c} : U(y)[i] = ts[i]
  <2>1. y \in TaskRecord /\ y.state # "empty" /\ y.pid = x.pid /\ y.entry = x.entry
    BY <1>3
  <2> QED
    BY <2>1, TaskChanged
<1> HIDE DEF U, x
<1>5. ASSUME NEW y \in {Turned(x), Counted(x)}, x.at # "dead"
      PROVE  LiveWorkers(U(y)) = LiveWorkers(ts)
  <2>1. y.at # "dead" /\ y.state # "empty" /\ y.entry = x.entry
    BY <1>1, <1>3, TaskForms
  <2> QED
    BY <1>1, <1>4, <1>5, <2>1 DEF LiveWorkers, x
<1>6. LiveWorkers(U(Ended(x))) = LiveWorkers(ts) \ {c}
  <2>1. Ended(x).at = "dead"
    BY <1>1, TaskForms
  <2> QED
    BY <1>4, <2>1 DEF LiveWorkers
<1> QED
  BY <1>2, <1>4, <1>5, <1>6 DEF x

LEMMA TaskStepSound ==
  ASSUME KernelInv, TaskStep
  PROVE  /\ TableSound' /\ Kept(trace, trace') /\ lost' \in BOOLEAN
         /\ UNCHANGED <<next_pid, used, packets, sessions, store, mark, promise, commands, irqs>>
         /\ \/ shell' = shell
            \/ shell \in {"prompt", "post"} /\ shell' = "prompt"
<1> DEFINE c == current_task
<1>1. /\ TraceSound(trace) /\ Shaped(tasks, c) /\ c \in Slot /\ lost \in BOOLEAN
      /\ active_workloads \in Nat /\ Cardinality(LiveWorkers(tasks)) <= active_workloads
      /\ used \in Nat
  BY KernelParts, ReplayAssumption DEF TableSound, FlowSound, Shaped
<1>2. ASSUME NEW ts, Shaped(ts, c), sched_yield(trace, ts)
      PROVE  /\ Shaped(tasks', current_task') /\ LiveWorkers(tasks') = LiveWorkers(ts)
             /\ Kept(trace, trace') /\ lost' \in BOOLEAN
  <2>1. Next_task(trace, ts) \in Int
    BY <1>1, ChoiceInt
  <2> QED
    BY <1>1, <1>2, <2>1, SwitchSound DEF sched_yield
<1>3. CASE Drain
  <2>1. sched_yield(trace, tasks) /\ active_workloads' = active_workloads
    BY <1>3 DEF Drain
  <2>2. TableSound'
    BY <1>1, <1>2, <2>1 DEF TableSound
  <2> QED
    BY <1>1, <1>2, <1>3, <2>1, <2>2 DEF Drain
<1>4. CASE ShellYield
  <2>1. CASE sched_yield(trace, tasks)
    <3>1. TableSound'
      BY <1>1, <1>2, <1>4, <2>1 DEF TableSound, ShellYield
    <3> QED
      BY <1>1, <1>2, <1>4, <2>1, <3>1 DEF ShellYield
  <2>2. CASE UNCHANGED <<tasks, current_task, trace, lost>>
    <3>1. TableSound'
      BY <1>1, <1>4, <2>2 DEF TableSound, ShellYield
    <3> QED
      BY <1>1, <1>4, <2>2, <3>1, KeptSame DEF ShellYield
  <2> QED
    BY <1>4, <2>1, <2>2 DEF ShellYield
<1>5. CASE TaskWork
  <2> DEFINE me == tasks[c]
             us == [tasks EXCEPT ![c].at = "yield"]
  <2>1. /\ c \in Slot \ {0} /\ me.at = "work" /\ tasks' = us
        /\ trace' = (IF me.entry = "fork" THEN trace ELSE trace_record(trace, WorkEvent(me, used)))
        /\ UNCHANGED <<current_task, active_workloads, lost>>
        /\ UNCHANGED <<next_pid, used, packets, sessions, store, shell, mark, promise, commands,
                       irqs>>
    BY <1>1, <1>5 DEF TaskWork, Running
  <2>2. Shaped(us, c) /\ LiveWorkers(us) = LiveWorkers(tasks)
    BY <1>1, <2>1, TurnTable
  <2>3. TableSound'
    BY <1>1, <2>1, <2>2 DEF TableSound
  <2>4. Kept(trace, trace')
    <3>1. CASE me.entry = "fork"
      BY <1>1, <2>1, <3>1, KeptSame
    <3>2. CASE me.entry # "fork"
      <4>1. me \in TaskRecord /\ me.entry \in Workloads
        BY <1>1, <2>1, <3>2 DEF Shaped, TaskRecord, Entries
      <4>2. WorkEvent(me, used) \in EventRecord
        BY <1>1, <4>1, WorkEventTyped
      <4> QED
        BY <1>1, <2>1, <3>2, <4>2, RecordKeeps
    <3> QED
      BY <3>1, <3>2
  <2> QED
    BY <1>1, <2>1, <2>3, <2>4
<1>6. CASE TaskYield
  <2>1. /\ c \in Slot \ {0} /\ tasks[c].at = "yield" /\ sched_yield(trace, Yielded(tasks, c))
        /\ active_workloads' = active_workloads
        /\ UNCHANGED <<next_pid, used, packets, sessions, store, shell, mark, promise, commands,
                       irqs>>
    BY <1>1, <1>6 DEF TaskYield, Running, Yielded
  <2>2. Shaped(Yielded(tasks, c), c) /\ LiveWorkers(Yielded(tasks, c)) = LiveWorkers(tasks)
    BY <1>1, <2>1, TurnTable
  <2>3. /\ Shaped(tasks', current_task') /\ LiveWorkers(tasks') = LiveWorkers(tasks)
        /\ Kept(trace, trace') /\ lost' \in BOOLEAN
    BY <1>2, <2>1, <2>2
  <2>4. TableSound'
    BY <1>1, <2>1, <2>3 DEF TableSound
  <2> QED
    BY <2>1, <2>3, <2>4
<1>7. CASE TaskExit
  <2> DEFINE me == tasks[c]
             gone == Gone(tasks, c)
             n == find_next_ready(gone, c)
             L == LiveWorkers(tasks)
  <2>1. /\ c \in Slot \ {0} /\ me.at = "work" /\ switch_to(trace, gone, n)
        /\ active_workloads' =
             (IF me.entry = "fork" THEN active_workloads ELSE active_workloads - 1)
        /\ UNCHANGED <<next_pid, used, packets, sessions, store, shell, mark, promise, commands,
                       irqs>>
    BY <1>1, <1>7 DEF TaskExit, Running, Gone
  <2>2. Shaped(gone, c) /\ LiveWorkers(gone) = L \ {c}
    BY <1>1, <2>1, TurnTable
  <2>3. n \in Int
    BY <1>1, ChoiceInt
  <2> HIDE DEF gone, n
  <2>4. /\ Shaped(tasks', current_task') /\ LiveWorkers(tasks') = L \ {c}
        /\ Kept(trace, trace') /\ lost' \in BOOLEAN
    BY <1>1, <2>1, <2>2, <2>3, SwitchSound
  <2>5. L \in SUBSET Slot
    BY DEF LiveWorkers
  <2>6. IsFiniteSet(L) /\ Cardinality(L) \in Nat
    BY <2>5, PartsFinite
  <2>7. Cardinality(L \ {c}) = (IF c \in L THEN Cardinality(L) - 1 ELSE Cardinality(L))
    <3>1. L \ {c} = L \/ c \in L
      OBVIOUS
    <3> HIDE DEF L
    <3> QED
      BY <2>6, <3>1, FS_RemoveElement
  <2>8. me.entry # "fork" => c \in L
    BY <1>1, <2>1 DEF LiveWorkers, Shaped
  <2>9. c \in L => Cardinality(L) # 0
    <3> HIDE DEF L
    <3> QED
      BY <2>6, FS_EmptySet
  <2> HIDE DEF L, me
  <2>10. active_workloads' \in Nat /\ Cardinality(L \ {c}) <= active_workloads'
    <3>1. Cardinality(L) <= active_workloads
      BY <1>1 DEF L
    <3>2. CASE me.entry = "fork"
      BY <1>1, <2>1, <2>6, <2>7, <3>1, <3>2
    <3>3. CASE me.entry # "fork"
      BY <1>1, <2>1, <2>6, <2>7, <2>8, <2>9, <3>1, <3>3
    <3> QED
      BY <3>2, <3>3
  <2>11. TableSound'
    BY <2>4, <2>10 DEF TableSound
  <2> QED
    BY <2>1, <2>4, <2>11
<1> QED
  BY <1>3, <1>4, <1>5, <1>6, <1>7 DEF TaskStep

LEMMA TaskStepKernel ==
  ASSUME KernelInv, TaskStep
  PROVE  KernelInv'
<1>1. /\ TableSound' /\ Kept(trace, trace') /\ lost' \in BOOLEAN
      /\ UNCHANGED <<next_pid, used, packets, sessions, store, mark, promise, commands, irqs>>
      /\ \/ shell' = shell
         \/ shell \in {"prompt", "post"} /\ shell' = "prompt"
  BY TaskStepSound
<1>2. DiskSound /\ FlowSound
  BY KernelParts
<1>3. TraceSound(trace')
  BY <1>1 DEF Kept
<1>4. DiskSound'
  BY <1>1, <1>2 DEF DiskSound
<1>5. trace'.active = trace.active
  BY <1>1 DEF Kept
<1>6. FlowSound'
  BY <1>1, <1>2, <1>5 DEF FlowSound
<1>7. KernelInv' <=> TableSound' /\ TraceSound(trace') /\ DiskSound' /\ FlowSound'
  BY DEF KernelInv, TypeOK, TableSound, TraceSound, DiskSound, FlowSound, Shaped
<1> QED
  BY <1>1, <1>3, <1>4, <1>6, <1>7

LEMMA KernelPartsNext ==
  KernelInv' <=> TableSound' /\ TraceSound(trace') /\ DiskSound' /\ FlowSound'
  BY DEF KernelInv, TypeOK, TableSound, TraceSound, DiskSound, FlowSound, Shaped

-----------------------------------------------------------------------------
(* The commands.                                                            *)

LEMMA ShelledKept ==
  ASSUME TraceSound(trace)
  PROVE  Kept(trace, Shelled)
<1>1. Event(1, "shell", 0, 0) \in EventRecord
  BY DEF Event, EventRecord
<1> QED
  BY <1>1, RecordKeeps DEF Shelled

\* What every command finds and leaves.
LEMMA TypedSound ==
  ASSUME KernelInv, NEW kind, Typed(kind)
  PROVE  /\ ~lost /\ current_task = 0 /\ shell = "prompt" /\ ~trace.active
         /\ commands' \in 0 .. MaxCommands /\ commands' = commands + 1
         /\ lost' = lost /\ irqs' = irqs
<1>1. FlowSound /\ MaxCommands \in Nat
  BY KernelParts, ReplayAssumption
<1>2. commands \in 0 .. MaxCommands /\ commands < MaxCommands /\ commands' = commands + 1
  BY <1>1 DEF FlowSound, Typed
<1>3. commands' \in 0 .. MaxCommands
  BY <1>1, <1>2
<1> QED
  BY <1>1, <1>2, <1>3 DEF FlowSound, Typed, ShellAt

\* A command that leaves the prompt for shell code at, with its own effect on
\* the table, the recorder and the disk.
LEMMA CommandSound ==
  ASSUME KernelInv, NEW kind, Typed(kind), TableSound', TraceSound(trace'), DiskSound',
         next_pid' \in Nat \ {0}, used' \in {used, used + 1},
         shell' \in {"post", "record", "replay"}, trace'.active <=> shell' = "replay",
         promise' \in {"match", "return", "nothing"},
         packets' = packets \/ packets' \in 0 .. MaxPackets
  PROVE  KernelInv'
<1>1. FlowSound /\ MaxCommands \in Nat
  BY KernelParts, ReplayAssumption
<1>2. commands' \in 0 .. MaxCommands /\ commands' = commands + 1 /\ lost' = lost /\ irqs' = irqs
  BY TypedSound
<1>3. used \in 0 .. MaxCommands /\ used <= commands /\ commands \in 0 .. MaxCommands
  BY <1>1 DEF FlowSound
<1>4. used' \in 0 .. MaxCommands /\ used' <= commands'
  BY <1>1, <1>2, <1>3
<1>5. FlowSound'
  BY <1>1, <1>2, <1>4 DEF FlowSound
<1> QED
  BY <1>5, KernelPartsNext

\* sched_prepare_replay: only slots are cleared, and all if nothing is alive.
LEMMA PreparedSound ==
  ASSUME NEW ts, NEW pid, Shaped(ts, 0)
  PROVE  /\ Shaped(Prepared(ts, pid).tasks, 0) /\ Prepared(ts, pid).pid = 2
         /\ LiveWorkers(Prepared(ts, pid).tasks) \subseteq LiveWorkers(ts)
         /\ {i \in Slot \ {0} : ts[i].state \in {"ready", "running"}} = {} =>
              Prepared(ts, pid).tasks = Alone
<1> DEFINE us == Prepared(ts, pid).tasks
<1>1. us = [i \in Slot |-> IF i # 0 /\ ts[i].state = "zombie" THEN EmptySlot ELSE ts[i]]
      /\ Prepared(ts, pid).pid = 2
  BY DEF Prepared
<1>2. /\ ts \in [Slot -> TaskRecord] /\ 0 \in Slot /\ ts[0] = ShellSlot("running")
      /\ ts[0].state # "empty"
  BY SlotFacts DEF Shaped
<1> HIDE DEF us
<1>3. /\ us \in [Slot -> TaskRecord] /\ us[0] = ts[0]
      /\ \A i \in Slot \ {0} : us[i] = EmptySlot \/ us[i] = ts[i]
  BY <1>1, <1>2, EmptySlotTyped
<1>4. Shaped(us, 0)
  <2>1. ASSUME NEW i \in Slot \ {0}
        PROVE  /\ us[i].entry # "shell"
               /\ us[i].state = "empty" => us[i] = EmptySlot
               /\ us[i].state # "empty" => us[i].pid # 0
    BY <1>3, EmptySlotTyped DEF Shaped
  <2> QED
    BY <1>2, <1>3, <2>1 DEF Shaped
<1>5. LiveWorkers(us) \subseteq LiveWorkers(ts)
  BY <1>3, EmptySlotTyped DEF LiveWorkers
<1>6. ASSUME {i \in Slot \ {0} : ts[i].state \in {"ready", "running"}} = {}
      PROVE  us = Alone
  <2>1. \A i \in Slot : us[i] = (IF i = 0 THEN ShellSlot("running") ELSE EmptySlot)
    <3>1. ASSUME NEW i \in Slot \ {0}
          PROVE  us[i] = EmptySlot
      <4>1. ts[i].state \in {"empty", "zombie"}
        BY <1>2, <1>6 DEF TaskRecord
      <4> QED
        BY <1>1, <4>1 DEF Shaped
    <3> QED
      BY <1>2, <1>3, <3>1
  <2> QED
    BY <1>3, <2>1 DEF Alone
<1> QED
  BY <1>1, <1>4, <1>5, <1>6 DEF us

\* The workers of a profile are started on a prepared table.
LEMMA PreparedRun ==
  ASSUME NEW ts, NEW pid, Shaped(ts, 0), NEW p \in Workloads, NEW k \in Nat,
         Cardinality(LiveWorkers(ts)) <= k
  PROVE  /\ workload_run_profile(Prepared(ts, pid).tasks, Prepared(ts, pid).pid, p) \in Spawning
         /\ Shaped(workload_run_profile(Prepared(ts, pid).tasks, Prepared(ts, pid).pid, p).tasks, 0)
         /\ Cardinality(LiveWorkers(workload_run_profile(Prepared(ts, pid).tasks,
                                      Prepared(ts, pid).pid, p).tasks)) <= k + Workers(p)
         /\ Workers(p) \in Nat
<1> DEFINE us == Prepared(ts, pid).tasks
<1>1. Shaped(us, 0) /\ Prepared(ts, pid).pid = 2 /\ LiveWorkers(us) \subseteq LiveWorkers(ts)
  BY PreparedSound
<1> HIDE DEF us
<1>2. LiveWorkers(ts) \in SUBSET Slot
  BY DEF LiveWorkers
<1>3. Cardinality(LiveWorkers(us)) <= Cardinality(LiveWorkers(ts))
      /\ Cardinality(LiveWorkers(us)) \in Nat
      /\ Cardinality(LiveWorkers(ts)) \in Nat
  BY <1>1, <1>2, PartsFinite, FS_Subset
<1>4. Cardinality(LiveWorkers(us)) <= k /\ 2 \in Nat \ {0}
  BY <1>3
<1> QED
  BY <1>1, <1>4, ProfileCounts DEF us

\* The session trace_stop saves from recorder state t.
Saved(t) ==
  [profile |-> t.profile, events |-> t.buffer, nth |-> t.started,
   mark |-> [mark EXCEPT !.clean = @ /\ ~t.dropped]]

LEMMA SavedFields ==
  ASSUME NEW t, TraceSound(t), mark \in MarkRecord
  PROVE  /\ Saved(t) \in Session /\ Saved(t).profile = t.profile /\ Saved(t).events = t.buffer
         /\ Saved(t).nth = t.started /\ Saved(t).mark.used = mark.used
         /\ Saved(t).mark.clean <=> mark.clean /\ ~t.dropped
<1> DEFINE b == mark.clean /\ ~t.dropped
           k == [mark EXCEPT !.clean = b]
<1>1. b \in BOOLEAN
  OBVIOUS
<1>2. Saved(t) = [profile |-> t.profile, events |-> t.buffer, nth |-> t.started, mark |-> k]
  BY DEF Saved
<1> HIDE DEF b
<1>3. k \in MarkRecord /\ k.clean = b /\ k.used = mark.used
  BY <1>1 DEF MarkRecord
<1> HIDE DEF k
<1>4. Saved(t) \in Session
  BY <1>2, <1>3 DEF Session, TraceSound, TraceRecord
<1>5. /\ Saved(t).profile = t.profile /\ Saved(t).events = t.buffer /\ Saved(t).nth = t.started
      /\ Saved(t).mark.used = mark.used /\ Saved(t).mark.clean = b
  BY <1>2, <1>3
<1>6. Saved(t).mark.clean <=> mark.clean /\ ~t.dropped
  BY <1>5, Zenon DEF b
<1> QED
  BY <1>4, <1>5, <1>6

LEMMA StopSound ==
  ASSUME NEW t, TraceSound(t), DiskSound, trace_stop(t), mark' = mark
  PROVE  /\ TraceSound(trace') /\ DiskSound'
         /\ trace'.active = t.active /\ trace'.failed = t.failed /\ ~trace'.recording
         /\ trace'.profile = t.profile /\ trace'.buffer = t.buffer /\ trace'.dropped = t.dropped
         /\ \/ store' = store /\ sessions' = sessions
            \/ /\ store' = Append(store, Saved(t))
               /\ sessions' = IF t.started \in 1 .. SessionCap
                              THEN [sessions EXCEPT ![t.started] = Len(store) + 1] ELSE sessions
<1>1. t \in TraceRecord /\ trace' = [t EXCEPT !.recording = FALSE]
  BY DEF trace_stop, TraceSound
<1>2. /\ trace' \in TraceRecord /\ trace'.active = t.active /\ trace'.failed = t.failed
      /\ ~trace'.recording /\ trace'.profile = t.profile /\ trace'.buffer = t.buffer
      /\ trace'.dropped = t.dropped /\ trace'.index = t.index /\ trace'.events = t.events
  BY <1>1 DEF TraceRecord
<1>3. TraceSound(trace')
  BY <1>2 DEF TraceSound
<1>4. CASE UNCHANGED <<store, sessions>>
  BY <1>2, <1>3, <1>4 DEF DiskSound
<1>5. ASSUME Len(store) < MaxSessions, store' = Append(store, Saved(t)),
             sessions' = IF t.started \in 1 .. SessionCap
                         THEN [sessions EXCEPT ![t.started] = Len(store) + 1] ELSE sessions
      PROVE  DiskSound'
  <2>1. Saved(t) \in Session
    BY SavedFields DEF DiskSound
  <2>2. store \in Seq(Session) /\ Len(store) \in Nat /\ MaxSessions \in Nat
    BY ReplayAssumption DEF DiskSound
  <2>3. store' \in Seq(Session) /\ Len(store') = Len(store) + 1
    BY <1>5, <2>1, <2>2
  <2>4. sessions' \in [1 .. SessionCap -> 0 .. Len(store) + 1]
    <3>1. sessions \in [1 .. SessionCap -> 0 .. Len(store) + 1]
      BY <2>2 DEF DiskSound
    <3>2. Len(store) + 1 \in 0 .. Len(store) + 1
      BY <2>2
    <3> QED
      BY <1>5, <3>1, <3>2
  <2> QED
    BY <1>5, <2>2, <2>3, <2>4 DEF DiskSound
<1>6. \/ UNCHANGED <<store, sessions>>
      \/ /\ Len(store) < MaxSessions /\ store' = Append(store, Saved(t))
         /\ sessions' = IF t.started \in 1 .. SessionCap
                        THEN [sessions EXCEPT ![t.started] = Len(store) + 1] ELSE sessions
  BY DEF trace_stop, ListPlace, Saved
<1> QED
  BY <1>2, <1>3, <1>4, <1>5, <1>6

\* Commands that leave nothing but events to the recorder.
Plain == Fork \/ RunUser \/ Send \/ Other \/ \E p \in Profiles : RunWorkload(p)

LEMMA PlainKernel ==
  ASSUME KernelInv, Plain
  PROVE  /\ KernelInv' /\ shell = "prompt" /\ shell' = "post" /\ Kept(trace, trace')
            /\ ~trace.active
         /\ UNCHANGED <<lost, store, sessions, mark, promise>>
<1>1. TableSound /\ TraceSound(trace) /\ DiskSound /\ FlowSound
  BY KernelParts
<1>2. /\ Shaped(tasks, current_task) /\ active_workloads \in Nat
      /\ Cardinality(LiveWorkers(tasks)) <= active_workloads /\ next_pid \in Nat \ {0}
      /\ promise \in {"match", "return", "nothing"}
  BY <1>1 DEF TableSound, FlowSound
<1>3. Kept(trace, Shelled) /\ TraceSound(Shelled)
  BY <1>1, ShelledKept DEF Kept
<1>4. ASSUME NEW kind, Typed(kind), Kept(trace, trace'), shell' = "post",
             UNCHANGED <<store, sessions, mark, promise>>
      PROVE  /\ TraceSound(trace') /\ DiskSound' /\ Kept(trace, trace') /\ ~trace.active
             /\ (trace'.active <=> shell' = "replay")
             /\ lost' = lost /\ shell = "prompt" /\ current_task = 0
  <2>1. ~trace.active /\ lost' = lost /\ shell = "prompt" /\ current_task = 0
    BY <1>4, TypedSound
  <2>2. DiskSound'
    BY <1>1, <1>4 DEF DiskSound
  <2> QED
    BY <1>4, <2>1, <2>2 DEF Kept
<1>5. CASE Fork
  <2> DEFINE r == [ok |-> TRUE, tasks |-> tasks, pid |-> next_pid]
             q == sched_spawn(r, "fork", 0)
  <2>1. /\ Typed("fork") /\ trace' = Shelled /\ tasks' = q.tasks /\ next_pid' = q.pid
        /\ shell' = "post" /\ UNCHANGED <<current_task, active_workloads, used, packets>>
        /\ UNCHANGED <<store, sessions, mark, promise>>
    BY <1>5 DEF Fork
  <2>2. current_task = 0
    BY <1>3, <1>4, <2>1
  <2>3. r \in Spawning /\ r.tasks = tasks
    BY <1>2 DEF Spawning, Shaped
  <2> HIDE DEF r, q
  <2>4. "fork" \in Entries \ {"shell"} /\ 0 \in 0 .. 2
    BY DEF Entries
  <2>5. Spawned(q, r, "fork", 0)
    BY <1>2, <2>2, <2>3, <2>4, SpawnIs DEF q
  <2>6. Cardinality(LiveWorkers(q.tasks)) <= active_workloads
    BY <1>2, <2>2, <2>3, <2>4, <2>5, SpawnCounts
  <2>7. Shaped(q.tasks, 0) /\ q.pid \in Nat \ {0}
    BY <2>5 DEF Spawned, Spawning
  <2>8. TableSound'
    BY <1>2, <2>1, <2>2, <2>6, <2>7 DEF TableSound
  <2>9. KernelInv'
    BY <1>2, <1>3, <1>4, <2>1, <2>7, <2>8, CommandSound
  <2> QED
    BY <1>3, <1>4, <2>1, <2>9
<1>6. CASE RunUser
  <2>1. /\ Typed("ring3demo") /\ trace' = Shelled /\ shell' = "post" /\ used' = used + 1
        /\ UNCHANGED <<tasks, current_task, active_workloads, next_pid, packets>>
        /\ UNCHANGED <<store, sessions, mark, promise>>
    BY <1>6 DEF RunUser
  <2>2. TableSound'
    BY <1>1, <2>1 DEF TableSound
  <2>3. KernelInv'
    BY <1>2, <1>3, <1>4, <2>1, <2>2, CommandSound
  <2> QED
    BY <1>3, <1>4, <2>1, <2>3
<1>7. CASE Send
  <2>1. /\ Typed("send") /\ shell' = "post"
        /\ UNCHANGED <<tasks, current_task, active_workloads, next_pid, used>>
        /\ UNCHANGED <<store, sessions, mark, promise>>
    BY <1>7 DEF Send
  <2>2. packets \in 0 .. MaxPackets /\ MaxPackets \in Nat
    BY <1>1, ReplayAssumption DEF FlowSound
  <2>3. Kept(trace, trace') /\ (packets' = packets \/ packets' \in 0 .. MaxPackets)
    <3>1. CASE packets < MaxPackets /\ packets' = packets + 1 /\ trace' = Shelled
      BY <1>3, <2>2, <3>1
    <3>2. ASSUME NEW n \in NetEvents(packets + 1), packets' = 0, trace' = Flushed(Shelled, 1, n)
          PROVE  Kept(trace, trace') /\ packets' \in 0 .. MaxPackets
      <4>1. n \in Nat
        BY <2>2 DEF NetEvents
      <4> QED
        BY <1>3, <2>2, <3>2, <4>1, FlushedKept, KeptTrans
    <3>3. ASSUME NEW n \in NetEvents(1), packets' = packets, trace' = Sent(Shelled, 1, n)
          PROVE  Kept(trace, trace')
      <4>1. n \in Nat
        BY DEF NetEvents
      <4> QED
        BY <1>3, <3>3, <4>1, SentKept, KeptTrans
    <3> QED
      BY <1>7, <3>1, <3>2, <3>3 DEF Send
  <2>4. TableSound'
    BY <1>1, <2>1 DEF TableSound
  <2>5. KernelInv'
    BY <1>2, <1>4, <2>1, <2>3, <2>4, CommandSound
  <2> QED
    BY <1>4, <2>1, <2>3, <2>5
<1>8. CASE Other
  <2>1. /\ Typed("other") /\ shell' = "post"
        /\ UNCHANGED <<tasks, current_task, active_workloads, next_pid, used, packets>>
        /\ UNCHANGED <<store, sessions, mark, promise>>
    BY <1>8 DEF Other
  <2>2. Kept(trace, trace')
    <3>1. CASE trace' = Shelled
      BY <1>3, <3>1
    <3>2. ASSUME NEW type \in {"net", "power"},
                 trace' = trace_record(Shelled, Event(1, type, 0, 0))
          PROVE  Kept(trace, trace')
      <4> DEFINE e == Event(1, type, 0, 0)
      <4>1. e \in EventRecord
        BY DEF Event, EventRecord
      <4> HIDE DEF e
      <4>2. trace' = trace_record(Shelled, e)
        BY <3>2 DEF e
      <4>3. Kept(Shelled, trace')
        BY <1>3, <4>1, <4>2, RecordKeeps
      <4> QED
        BY <1>3, <4>3, KeptTrans
    <3> QED
      BY <1>8, <3>1, <3>2 DEF Other
  <2>3. TableSound'
    BY <1>1, <2>1 DEF TableSound
  <2>4. KernelInv'
    BY <1>2, <1>4, <2>1, <2>2, <2>3, CommandSound
  <2> QED
    BY <1>4, <2>1, <2>2, <2>4
<1>9. ASSUME NEW p \in Profiles, RunWorkload(p)
      PROVE  /\ KernelInv' /\ shell = "prompt" /\ shell' = "post" /\ Kept(trace, trace')
                /\ ~trace.active
             /\ UNCHANGED <<lost, store, sessions, mark, promise>>
  <2> DEFINE q == workload_run_profile(tasks, next_pid, p)
  <2>1. /\ Typed("run") /\ trace' = Shelled /\ tasks' = q.tasks /\ next_pid' = q.pid
        /\ active_workloads' = active_workloads + Workers(p)
        /\ shell' = "post" /\ UNCHANGED <<current_task, used, packets>>
        /\ UNCHANGED <<store, sessions, mark, promise>>
    BY <1>9 DEF RunWorkload
  <2>2. current_task = 0 /\ p \in Workloads
    BY <1>3, <1>4, <2>1, ReplayAssumption
  <2>3. /\ q \in Spawning /\ Shaped(q.tasks, 0) /\ Workers(p) \in Nat
        /\ Cardinality(LiveWorkers(q.tasks)) <= active_workloads + Workers(p)
    BY <1>2, <2>2, ProfileCounts
  <2> HIDE DEF q
  <2>4. TableSound'
    BY <1>2, <2>1, <2>2, <2>3 DEF TableSound
  <2>5. q.pid \in Nat \ {0}
    BY <2>3 DEF Spawning
  <2>6. KernelInv'
    BY <1>2, <1>3, <1>4, <2>1, <2>4, <2>5, CommandSound
  <2> QED
    BY <1>3, <1>4, <2>1, <2>6
<1> QED
  BY <1>5, <1>6, <1>7, <1>8, <1>9 DEF Plain

LEMMA StartSound ==
  ASSUME NEW t, TraceSound(t), NEW p \in Workloads \cup {None}
  PROVE  /\ TraceSound(trace_start_profile(t, p))
         /\ trace_start_profile(t, p).active = t.active
            /\ trace_start_profile(t, p).failed = t.failed
         /\ trace_start_profile(t, p).recording /\ trace_start_profile(t, p).profile = p
         /\ trace_start_profile(t, p).buffer = <<>>
<1> DEFINE n == t.started + 1
           r == [t EXCEPT !.recording = TRUE, !.buffer = <<>>, !.profile = p,
                          !.started = n, !.dropped = FALSE]
<1>1. t \in TraceRecord /\ t.started \in Nat /\ t.index <= Len(t.events)
  BY DEF TraceSound, TraceRecord
<1>2. n \in Nat /\ trace_start_profile(t, p) = r /\ MaxEvents \in Nat
  BY <1>1, ReplayAssumption DEF trace_start_profile
<1> HIDE DEF n
<1>3. <<>> \in Seq(EventRecord) /\ Len(<<>>) = 0
  OBVIOUS
<1>4. /\ r \in TraceRecord /\ r.active = t.active /\ r.failed = t.failed /\ r.recording
      /\ r.profile = p /\ r.buffer = <<>> /\ r.index = t.index /\ r.events = t.events
  BY <1>1, <1>2, <1>3 DEF TraceRecord
<1> HIDE DEF r
<1>5. TraceSound(r)
  BY <1>1, <1>2, <1>3, <1>4 DEF TraceSound
<1> QED
  BY <1>2, <1>4, <1>5

\* Both ends of a replay.
LEMMA ReplayEnds ==
  ASSUME NEW t, TraceSound(t)
  PROVE  /\ \A s \in Session :
              /\ TraceSound(trace_replay_begin(t, s)) /\ trace_replay_begin(t, s).active
              /\ ~trace_replay_begin(t, s).failed /\ trace_replay_begin(t, s).index = 0
              /\ trace_replay_begin(t, s).events = s.events
              /\ trace_replay_begin(t, s).recording = t.recording
              /\ trace_replay_begin(t, s).profile = t.profile
              /\ trace_replay_begin(t, s).buffer = t.buffer
              /\ trace_replay_begin(t, s).dropped = t.dropped
         /\ TraceSound(trace_replay_end(t)) /\ ~trace_replay_end(t).active
         /\ trace_replay_end(t).recording = t.recording
         /\ trace_replay_end(t).profile = t.profile
         /\ trace_replay_end(t).buffer = t.buffer /\ trace_replay_end(t).dropped = t.dropped
         /\ trace_replay_end(t).failed <=> t.failed \/ t.index # Len(t.events)
<1>1. t \in TraceRecord
  BY DEF TraceSound
<1>2. ASSUME NEW s \in Session
      PROVE  /\ TraceSound(trace_replay_begin(t, s)) /\ trace_replay_begin(t, s).active
             /\ ~trace_replay_begin(t, s).failed /\ trace_replay_begin(t, s).index = 0
             /\ trace_replay_begin(t, s).events = s.events
             /\ trace_replay_begin(t, s).recording = t.recording
             /\ trace_replay_begin(t, s).profile = t.profile
             /\ trace_replay_begin(t, s).buffer = t.buffer
             /\ trace_replay_begin(t, s).dropped = t.dropped
  <2> DEFINE r == trace_replay_begin(t, s)
  <2>1. s.events \in Seq(EventRecord) /\ Len(s.events) \in Nat
    BY DEF Session
  <2>2. /\ r \in TraceRecord /\ r.active /\ ~r.failed /\ r.index = 0 /\ r.events = s.events
        /\ r.recording = t.recording /\ r.profile = t.profile /\ r.buffer = t.buffer
        /\ r.dropped = t.dropped
    BY <1>1, <2>1 DEF TraceRecord, trace_replay_begin
  <2> HIDE DEF r
  <2>3. TraceSound(r)
    BY <2>1, <2>2 DEF TraceSound
  <2> QED
    BY <2>2, <2>3 DEF r
<1> DEFINE b == t.failed \/ t.index # Len(t.events)
           r == [t EXCEPT !.active = FALSE, !.failed = b]
<1>3. b \in BOOLEAN /\ trace_replay_end(t) = r
  BY DEF trace_replay_end
<1> HIDE DEF b
<1>4. /\ r \in TraceRecord /\ ~r.active /\ r.failed = b /\ r.recording = t.recording
      /\ r.profile = t.profile /\ r.buffer = t.buffer /\ r.dropped = t.dropped
      /\ r.index = t.index /\ r.events = t.events
  BY <1>1, <1>3 DEF TraceRecord
<1> HIDE DEF r
<1>5. TraceSound(r)
  BY <1>4 DEF TraceSound
<1>6. r.failed <=> t.failed \/ t.index # Len(t.events)
  BY <1>4, Zenon DEF b
<1> QED
  BY <1>2, <1>3, <1>4, <1>5, <1>6

LEMMA TraceStartKernel ==
  ASSUME KernelInv, TraceStart
  PROVE  /\ KernelInv' /\ shell' = "post" /\ ~mark'.clean /\ trace'.failed = trace.failed
         /\ UNCHANGED <<lost, store, sessions, promise>>
<1>1. TableSound /\ TraceSound(trace) /\ DiskSound /\ FlowSound
  BY KernelParts
<1>2. /\ Typed("start") /\ trace' = trace_start_profile(Shelled, None) /\ shell' = "post"
      /\ mark' = [alone |-> FALSE, clean |-> FALSE, used |-> used]
      /\ UNCHANGED <<tasks, current_task, next_pid, active_workloads, used, packets, sessions,
                     store, promise>>
  BY DEF TraceStart
<1>3. ~trace.active /\ lost' = lost
  BY <1>2, TypedSound
<1>4. Kept(trace, Shelled)
  BY <1>1, ShelledKept
<1>5. TraceSound(trace') /\ trace'.active = Shelled.active /\ trace'.failed = Shelled.failed
  BY <1>2, <1>4, StartSound DEF Kept
<1>6. ~trace'.active /\ trace'.failed = trace.failed
  BY <1>3, <1>4, <1>5 DEF Kept
<1>7. TableSound'
  BY <1>1, <1>2 DEF TableSound
<1>8. mark' \in MarkRecord /\ ~mark'.clean
  <2>1. used \in Nat
    BY <1>1, ReplayAssumption DEF FlowSound
  <2> QED
    BY <1>2, <2>1 DEF MarkRecord
<1>9. DiskSound'
  BY <1>1, <1>2, <1>8 DEF DiskSound
<1>10. next_pid' \in Nat \ {0} /\ promise' \in {"match", "return", "nothing"}
  BY <1>1, <1>2 DEF FlowSound
<1>11. KernelInv'
  BY <1>2, <1>5, <1>6, <1>7, <1>9, <1>10, CommandSound
<1> QED
  BY <1>2, <1>3, <1>6, <1>8, <1>11

LEMMA TraceStopKernel ==
  ASSUME KernelInv, TraceStop
  PROVE  KernelInv' /\ shell = "prompt" /\ shell' = "post" /\ UNCHANGED <<lost, mark, promise>>
<1>1. TableSound /\ TraceSound(trace) /\ DiskSound /\ FlowSound
  BY KernelParts
<1>2. /\ Typed("stop") /\ trace_stop(Shelled) /\ shell' = "post"
      /\ UNCHANGED <<tasks, current_task, next_pid, active_workloads, used, packets, mark, promise>>
  BY DEF TraceStop
<1>3. ~trace.active /\ lost' = lost /\ shell = "prompt"
  BY <1>2, TypedSound
<1>4. Kept(trace, Shelled)
  BY <1>1, ShelledKept
<1>5. TraceSound(trace') /\ DiskSound' /\ trace'.active = Shelled.active
  BY <1>1, <1>2, <1>4, StopSound DEF Kept
<1>6. ~trace'.active
  BY <1>3, <1>4, <1>5 DEF Kept
<1>7. TableSound'
  BY <1>1, <1>2 DEF TableSound
<1>8. next_pid' \in Nat \ {0} /\ promise' \in {"match", "return", "nothing"}
  BY <1>1, <1>2 DEF FlowSound
<1>9. KernelInv'
  BY <1>2, <1>5, <1>6, <1>7, <1>8, CommandSound
<1> QED
  BY <1>2, <1>3, <1>9

\* Nothing but the shell is alive, which is what a recording or replay alone
\* begins with.
Quiet == Others = {} /\ active_workloads = 0

LEMMA QuietBegins ==
  ASSUME KernelInv, current_task = 0, Quiet, NEW p \in Workloads
  PROVE  /\ workload_run_profile(Prepared(tasks, next_pid).tasks, Prepared(tasks, next_pid).pid, p)
              = workload_run_profile(Alone, 2, p)
         /\ active_workloads + Workers(p) = Workers(p)
<1>1. Shaped(tasks, 0)
  BY KernelParts DEF TableSound
<1>2. Prepared(tasks, next_pid).tasks = Alone /\ Prepared(tasks, next_pid).pid = 2
  BY <1>1, PreparedSound DEF Quiet, Others
<1> QED
  BY <1>2 DEF Quiet, Workers

LEMMA DemoRecordKernel ==
  ASSUME KernelInv, NEW p \in Profiles, DemoRecord(p)
  PROVE  /\ KernelInv' /\ shell = "prompt" /\ shell' = "record" /\ trace'.failed = trace.failed
         /\ UNCHANGED <<lost, store, sessions, promise, used>>
         /\ current_task' = 0 /\ mark'.used = used
         /\ trace'.recording /\ trace'.profile = p /\ trace'.buffer = <<>>
         /\ mark'.clean => Fits(p) /\ Now(trace.buffer)' = Begin(p)
<1> DEFINE q == Prepared(tasks, next_pid)
           r == workload_run_profile(q.tasks, q.pid, p)
           alone == Others = {} /\ active_workloads = 0 /\ r.ok
<1>1. TableSound /\ TraceSound(trace) /\ DiskSound /\ FlowSound
  BY KernelParts
<1>2. /\ Typed("record") /\ tasks' = r.tasks /\ next_pid' = r.pid
      /\ mark' = [alone |-> alone, clean |-> alone, used |-> used]
      /\ trace' = trace_start_profile(trace, p)
      /\ active_workloads' = active_workloads + Workers(p) /\ shell' = "record"
      /\ UNCHANGED <<current_task, used, packets, sessions, store, promise>>
  BY DEF DemoRecord
<1>3. ~trace.active /\ lost' = lost /\ shell = "prompt" /\ current_task = 0
  BY <1>2, TypedSound
<1>4. p \in Workloads
  BY ReplayAssumption
<1>5. /\ Shaped(tasks, 0) /\ active_workloads \in Nat
      /\ Cardinality(LiveWorkers(tasks)) <= active_workloads /\ used \in Nat
  BY <1>1, <1>3, ReplayAssumption DEF TableSound, FlowSound
<1>6. /\ r \in Spawning /\ Shaped(r.tasks, 0) /\ Workers(p) \in Nat
      /\ Cardinality(LiveWorkers(r.tasks)) <= active_workloads + Workers(p)
  BY <1>4, <1>5, PreparedRun
<1>7. alone => r = workload_run_profile(Alone, 2, p) /\ active_workloads + Workers(p) = Workers(p)
  BY <1>3, <1>4, QuietBegins DEF Quiet
<1> HIDE DEF r, q
<1>8. alone \in BOOLEAN /\ (alone => r.ok)
  OBVIOUS
<1> HIDE DEF alone
<1>9. mark' \in MarkRecord /\ mark'.clean = alone /\ mark'.used = used
  BY <1>2, <1>5, <1>8 DEF MarkRecord
<1>10. TableSound'
  BY <1>2, <1>3, <1>5, <1>6 DEF TableSound
<1>11. /\ TraceSound(trace') /\ trace'.active = trace.active /\ trace'.failed = trace.failed
       /\ trace'.recording /\ trace'.profile = p /\ trace'.buffer = <<>>
  BY <1>1, <1>2, <1>4, StartSound
<1>12. DiskSound'
  BY <1>1, <1>2, <1>9 DEF DiskSound
<1>13. next_pid' \in Nat \ {0} /\ promise' \in {"match", "return", "nothing"}
  BY <1>1, <1>2, <1>6 DEF FlowSound, Spawning
<1>14. KernelInv'
  BY <1>2, <1>3, <1>10, <1>11, <1>12, <1>13, CommandSound
<1>15. mark'.clean => Fits(p) /\ Now(trace.buffer)' = Begin(p)
  <2> SUFFICES ASSUME alone PROVE Fits(p) /\ Now(trace.buffer)' = Begin(p)
    BY <1>9
  <2>1. Fits(p)
    BY <1>7, <1>8 DEF Fits
  <2> QED
    BY <1>2, <1>3, <1>7, <1>11, <2>1 DEF Now, Begin
<1> QED
  BY <1>2, <1>3, <1>9, <1>11, <1>14, <1>15

LEMMA DemoReplayKernel ==
  ASSUME KernelInv, NEW id, DemoReplay(id)
  PROVE  /\ KernelInv' /\ shell = "prompt" /\ shell' = "replay" /\ ~trace'.failed
         /\ UNCHANGED <<lost, store, sessions, mark, used>> /\ ~lost
         /\ trace'.recording = trace.recording /\ trace'.profile = trace.profile
         /\ trace'.buffer = trace.buffer /\ trace'.dropped = trace.dropped
         /\ id \in DOMAIN store /\ store[id] \in Session /\ store[id].profile \in Workloads
         /\ trace'.events = store[id].events
         /\ promise' = "match" =>
              /\ store[id].mark.clean
              /\ store[id].profile = "sysload" => store[id].mark.used = used
              /\ Now(SubSeq(trace.events, 1, trace.index))' = Begin(store[id].profile)
<1> DEFINE s == store[id]
           p == s.profile
           q == Prepared(tasks, next_pid)
           r == workload_run_profile(q.tasks, q.pid, p)
<1>1. TableSound /\ TraceSound(trace) /\ DiskSound /\ FlowSound
  BY KernelParts
<1>2. /\ Typed("replay") /\ id \in DOMAIN store /\ p # None
      /\ tasks' = r.tasks /\ next_pid' = r.pid
      /\ trace' = trace_replay_begin(trace, s)
      /\ active_workloads' = active_workloads + Workers(p)
      /\ promise' = Promise(s) /\ shell' = "replay"
      /\ UNCHANGED <<current_task, used, packets, sessions, store, mark>>
  BY DEF DemoReplay
<1>3. ~trace.active /\ ~lost /\ lost' = lost /\ shell = "prompt" /\ current_task = 0
  BY <1>2, TypedSound
<1>4. s \in Session
  BY <1>1, <1>2 DEF DiskSound
<1>5. p \in Workloads
  BY <1>2, <1>4 DEF Session
<1>6. /\ Shaped(tasks, 0) /\ active_workloads \in Nat
      /\ Cardinality(LiveWorkers(tasks)) <= active_workloads
  BY <1>1, <1>3 DEF TableSound
<1>7. /\ r \in Spawning /\ Shaped(r.tasks, 0) /\ Workers(p) \in Nat
      /\ Cardinality(LiveWorkers(r.tasks)) <= active_workloads + Workers(p)
  BY <1>5, <1>6, PreparedRun
<1>8. Quiet => r = workload_run_profile(Alone, 2, p) /\ active_workloads + Workers(p) = Workers(p)
  BY <1>3, <1>5, QuietBegins
<1> HIDE DEF r, q
<1>9. TableSound'
  BY <1>2, <1>3, <1>6, <1>7 DEF TableSound
<1>10. /\ TraceSound(trace') /\ trace'.active /\ ~trace'.failed /\ trace'.index = 0
       /\ trace'.events = s.events /\ trace'.recording = trace.recording
       /\ trace'.profile = trace.profile /\ trace'.buffer = trace.buffer
       /\ trace'.dropped = trace.dropped
  <2>1. trace' = trace_replay_begin(trace, s) /\ s \in Session /\ TraceSound(trace)
    BY <1>1, <1>2, <1>4
  <2> HIDE DEF s, p
  <2> QED
    BY <2>1, ReplayEnds
<1>11. DiskSound'
  BY <1>1, <1>2 DEF DiskSound
<1>12. next_pid' \in Nat \ {0} /\ promise' \in {"match", "return", "nothing"}
  BY <1>2, <1>7 DEF Spawning, Promise
<1>13. KernelInv'
  BY <1>2, <1>9, <1>10, <1>11, <1>12, CommandSound
<1>14. ASSUME promise' = "match"
       PROVE  /\ s.mark.clean
              /\ p = "sysload" => s.mark.used = used
              /\ Now(SubSeq(trace.events, 1, trace.index))' = Begin(p)
  <2>1. s.mark.clean /\ Quiet /\ (p = "sysload" => s.mark.used = used)
    BY <1>2, <1>14 DEF Promise, Quiet
  <2>2. SubSeq(trace'.events, 1, trace'.index) = <<>>
    <3>1. trace'.events \in Seq(EventRecord)
      BY <1>4, <1>10 DEF Session
    <3> QED
      BY <1>10, <3>1
  <2> QED
    BY <1>2, <1>3, <1>8, <2>1, <2>2 DEF Now, Begin
<1> QED
  BY <1>2, <1>3, <1>4, <1>5, <1>10, <1>13, <1>14

LEMMA DemoRefusedKernel ==
  ASSUME KernelInv, NEW id, DemoRefused(id)
  PROVE  /\ KernelInv' /\ shell = "prompt" /\ shell' = "post" /\ promise' = "nothing"
         /\ UNCHANGED <<lost, store, sessions, mark>>
         /\ trace'.recording = trace.recording /\ trace'.profile = trace.profile
         /\ trace'.buffer = trace.buffer /\ trace'.dropped = trace.dropped
<1>1. TableSound /\ TraceSound(trace) /\ DiskSound /\ FlowSound
  BY KernelParts
<1>2. /\ Typed("replay") /\ promise' = "nothing" /\ shell' = "post"
      /\ UNCHANGED <<tasks, current_task, next_pid, active_workloads, used, packets, sessions,
                     store, mark>>
      /\ \/ trace' = trace
         \/ id \in DOMAIN store /\ trace' = trace_replay_end(trace_replay_begin(trace, store[id]))
  BY DEF DemoRefused
<1>3. ~trace.active /\ lost' = lost /\ shell = "prompt"
  BY <1>2, TypedSound
<1>4. /\ TraceSound(trace') /\ ~trace'.active
      /\ trace'.recording = trace.recording /\ trace'.profile = trace.profile
      /\ trace'.buffer = trace.buffer /\ trace'.dropped = trace.dropped
  <2>1. CASE trace' = trace
    BY <1>1, <1>3, <2>1
  <2>2. CASE id \in DOMAIN store /\ trace' = trace_replay_end(trace_replay_begin(trace, store[id]))
    <3>1. store[id] \in Session
      BY <1>1, <2>2 DEF DiskSound
    <3> DEFINE t == trace_replay_begin(trace, store[id])
    <3>2. /\ TraceSound(t) /\ t.recording = trace.recording /\ t.profile = trace.profile
          /\ t.buffer = trace.buffer /\ t.dropped = trace.dropped
      BY <1>1, <3>1, ReplayEnds
    <3> HIDE DEF t
    <3>3. trace' = trace_replay_end(t)
      BY <2>2 DEF t
    <3> QED
      BY <3>2, <3>3, ReplayEnds
  <2> QED
    BY <1>2, <2>1, <2>2
<1>5. TableSound'
  BY <1>1, <1>2 DEF TableSound
<1>6. DiskSound'
  BY <1>1, <1>2 DEF DiskSound
<1>7. next_pid' \in Nat \ {0}
  BY <1>1, <1>2 DEF FlowSound
<1>8. KernelInv'
  BY <1>2, <1>4, <1>5, <1>6, <1>7, CommandSound
<1> QED
  BY <1>2, <1>3, <1>4, <1>8

-----------------------------------------------------------------------------
(* The ends of a recording and of a replay, and interrupts.                 *)

\* The loop of run_workloads_until_idle is left when the run is over.
LEMMA NotBusyDone ==
  ASSUME current_task = 0, ~Busy, ~(trace.active /\ trace.failed), NEW log
  PROVE  Done(Now(log))
  BY DEF Busy, Done, Now

LEMMA RecordDoneKernel ==
  ASSUME KernelInv, RecordDone
  PROVE  KernelInv' /\ UNCHANGED <<lost, mark, promise>> /\ shell = "record" /\ shell' = "post"
<1>1. TableSound /\ TraceSound(trace) /\ DiskSound /\ FlowSound
  BY KernelParts
<1>2. /\ shell = "record" /\ trace_stop(trace) /\ shell' = "post"
      /\ UNCHANGED <<tasks, current_task, next_pid, active_workloads, used, packets, lost, mark,
                     promise, commands, irqs>>
  BY DEF RecordDone, ShellAt
<1>3. TraceSound(trace') /\ DiskSound' /\ trace'.active = trace.active
  BY <1>1, <1>2, StopSound
<1>4. TableSound'
  BY <1>1, <1>2 DEF TableSound
<1>5. FlowSound'
  BY <1>1, <1>2, <1>3 DEF FlowSound
<1> QED
  BY <1>2, <1>3, <1>4, <1>5, KernelPartsNext

LEMMA ReplayDoneKernel ==
  ASSUME KernelInv, ReplayDone
  PROVE  /\ KernelInv' /\ UNCHANGED <<lost, mark, promise, store, sessions>>
         /\ shell = "replay" /\ shell' = "post"
         /\ trace'.recording = trace.recording /\ trace'.profile = trace.profile
         /\ trace'.buffer = trace.buffer /\ trace'.dropped = trace.dropped
         /\ trace'.failed <=> trace.failed \/ trace.index # Len(trace.events)
<1>1. TableSound /\ TraceSound(trace) /\ DiskSound /\ FlowSound
  BY KernelParts
<1>2. /\ shell = "replay" /\ trace' = trace_replay_end(trace) /\ shell' = "post"
      /\ UNCHANGED <<tasks, current_task, next_pid, active_workloads, used, packets, sessions,
                     store, lost, mark, promise, commands, irqs>>
  BY DEF ReplayDone, ShellAt
<1>3. /\ TraceSound(trace') /\ ~trace'.active
      /\ trace'.recording = trace.recording /\ trace'.profile = trace.profile
      /\ trace'.buffer = trace.buffer /\ trace'.dropped = trace.dropped
      /\ trace'.failed <=> trace.failed \/ trace.index # Len(trace.events)
  BY <1>1, <1>2, ReplayEnds
<1>4. TableSound'
  BY <1>1, <1>2 DEF TableSound
<1>5. DiskSound'
  BY <1>1, <1>2 DEF DiskSound
<1>6. FlowSound'
  BY <1>1, <1>2, <1>3 DEF FlowSound
<1> QED
  BY <1>2, <1>3, <1>4, <1>5, <1>6, KernelPartsNext

\* An interrupt changes the recorder only, by its events and not in a replay;
\* in a recording a key and a flush are marked, and a profile's recording
\* ignores the rest of what the timer does.
LEMMA InterruptKernel ==
  ASSUME KernelInv, NEW key \in BOOLEAN, NEW n \in 0 .. 2 * MaxPackets, Interrupt(key, n)
  PROVE  /\ KernelInv' /\ Kept(trace, trace') /\ (trace.active => trace' = trace)
         /\ UNCHANGED <<tasks, current_task, active_workloads, used, lost, promise, shell,
                        store, sessions>>
         /\ mark'.clean => mark.clean
         /\ mark'.used = mark.used
         /\ mark'.clean /\ trace.recording /\ trace.profile # None => trace' = trace
<1> DEFINE pid == tasks[current_task].pid
           e == Event(pid, "irq", IF key THEN 33 ELSE 32, 0)
           g == Event(pid, "keyboard", 10, 28)
           t == trace_record(trace, e)
<1>1. TableSound /\ TraceSound(trace) /\ DiskSound /\ FlowSound
  BY KernelParts
<1>2. /\ irqs < MaxIrqs /\ irqs' = irqs + 1
      /\ UNCHANGED <<tasks, current_task, next_pid, active_workloads, used, sessions, store,
                     shell, lost, promise, commands>>
  BY DEF Interrupt
<1>3. CASE trace.active
  <2>1. trace' = trace /\ mark' = mark /\ packets' = packets
    BY <1>3 DEF Interrupt
  <2>2. DiskSound' /\ TableSound'
    BY <1>1, <1>2, <2>1 DEF DiskSound, TableSound
  <2>3. irqs' \in 0 .. MaxIrqs
    BY <1>1, <1>2, ReplayAssumption DEF FlowSound
  <2>4. FlowSound'
    BY <1>1, <1>2, <2>1, <2>3 DEF FlowSound
  <2>5. KernelInv'
    BY <1>1, <2>1, <2>2, <2>4, KernelPartsNext
  <2> QED
    BY <1>1, <1>2, <2>1, <2>5, KeptSame
<1>4. CASE ~trace.active
  <2> DEFINE b == mark.clean /\ ~((key \/ n # 0) /\ trace.recording)
  <2>1. /\ trace' = (IF key THEN trace_record(t, g)
                    ELSE IF n # 0 THEN Flushed(t, pid, n) ELSE t)
        /\ packets' = (IF n # 0 THEN 0 ELSE packets)
        /\ mark' = [mark EXCEPT !.clean = b]
    BY <1>4 DEF Interrupt
  <2>2. pid \in Nat
    BY <1>1 DEF TableSound, Shaped, TaskRecord
  <2>3. e \in EventRecord /\ g \in EventRecord /\ e.type = "irq"
    BY <2>2 DEF Event, EventRecord
  <2> HIDE DEF e, g
  <2>4. Kept(trace, t)
    BY <1>1, <2>3, RecordKeeps
  <2>5. trace.recording /\ trace.profile # None => t = trace
    BY <2>3 DEF trace_record, ignored
  <2> HIDE DEF t
  <2>6. Kept(t, trace_record(t, g)) /\ Kept(t, Flushed(t, pid, n)) /\ Kept(t, t)
    <3>1. TraceSound(t) /\ n \in Nat
      BY <2>4, ReplayAssumption DEF Kept
    <3> HIDE DEF pid
    <3> QED
      BY <2>2, <2>3, <3>1, RecordKeeps, FlushedKept, KeptSame
  <2>7. Kept(trace, trace')
    BY <2>1, <2>4, <2>6, KeptTrans
  <2>8. b \in BOOLEAN /\ (b => mark.clean /\ (trace.recording => ~key /\ n = 0))
    OBVIOUS
  <2> HIDE DEF b
  <2>9. mark' \in MarkRecord /\ mark'.clean = b /\ mark'.used = mark.used
    BY <1>1, <2>1, <2>8 DEF MarkRecord, DiskSound
  <2>10. DiskSound' /\ TableSound'
    BY <1>1, <1>2, <2>9 DEF DiskSound, TableSound
  <2>11. irqs' \in 0 .. MaxIrqs /\ packets' \in 0 .. MaxPackets
    <3>1. packets \in 0 .. MaxPackets /\ MaxPackets \in Nat
      BY <1>1, ReplayAssumption DEF FlowSound
    <3>2. packets' \in 0 .. MaxPackets
      BY <2>1, <3>1
    <3> QED
      BY <1>1, <1>2, <3>2, ReplayAssumption DEF FlowSound
  <2>12. trace'.active = trace.active /\ TraceSound(trace')
    BY <2>7 DEF Kept
  <2>13. FlowSound'
    BY <1>1, <1>2, <2>11, <2>12 DEF FlowSound
  <2>14. KernelInv'
    BY <2>10, <2>12, <2>13, KernelPartsNext
  <2>15. mark'.clean /\ trace.recording /\ trace.profile # None => trace' = trace
    BY <2>1, <2>5, <2>8, <2>9
  <2> QED
    BY <1>2, <1>4, <2>7, <2>8, <2>9, <2>14, <2>15
<1> QED
  BY <1>3, <1>4

-----------------------------------------------------------------------------
(* The kernel takes the steps of a run.                                     *)

\* Only sysload's events tell how much memory is in use.
LEMMA StepSame ==
  ASSUME NEW p \in Workloads, NEW m, Good(m, p), NEW u \in Nat,
         NEW v \in Nat, p = "sysload" => u = v
  PROVE  Step(m, u) = Step(m, v) /\ StepEvent(m, u) = StepEvent(m, v)
<1>1. CASE m.cur = 0
  BY <1>1 DEF Step, StepEvent
<1>2. CASE m.cur # 0
  <2>1. m.tasks[m.cur] \in TaskRecord /\ m.tasks[m.cur].entry = p
    BY <1>2, GoodRunning
  <2>2. WorkEvent(m.tasks[m.cur], u) = WorkEvent(m.tasks[m.cur], v)
    <3>1. CASE p = "sysload"
      BY <3>1
    <3>2. CASE p # "sysload"
      BY <2>1, <3>2, WorkEventTyped
    <3> QED
      BY <3>1, <3>2
  <2> QED
    BY <2>2 DEF Step, StepEvent, Worked
<1> QED
  BY <1>1, <1>2

\* The table that sched_yield looks at.
YieldTable(ts, c) == IF c = 0 THEN ts ELSE Yielded(ts, c)

\* Where sched_yield is called.
Yields(ts, c) == c = 0 \/ ts[c].at = "yield"

\* In a yield's or an exit's table some other task is ready.
LEMMA SwitchOut ==
  ASSUME NEW p \in Workloads, NEW m, Good(m, p), ~Done(m)
  PROVE  LET y == YieldTable(m.tasks, m.cur)
             g == Gone(m.tasks, m.cur)
         IN /\ Yields(m.tasks, m.cur) => find_next_ready(y, m.cur) \in ReadySlots(y) \ {m.cur}
            /\ m.cur # 0 => find_next_ready(g, m.cur) \in ReadySlots(g) \ {m.cur}
<1> DEFINE c == m.cur
           y == YieldTable(m.tasks, c)
           g == Gone(m.tasks, c)
<1>1. Shaped(m.tasks, c) /\ c \in Slot /\ m.tasks \in [Slot -> TaskRecord]
  BY DEF Good, Shaped
<1>2. CASE c = 0
  <2>1. y = m.tasks /\ ReadySlots(y) # {}
    BY <1>2, SomeReady DEF YieldTable, Done
  <2>2. c \notin ReadySlots(y)
    BY <1>1, <1>2, <2>1, ShellReady
  <2> HIDE DEF y
  <2>3. find_next_ready(y, c) \in ReadySlots(y)
    BY <1>1, <2>1, NextIsReady
  <2> QED
    BY <1>2, <2>2, <2>3 DEF y
<1>3. CASE c # 0
  <2> DEFINE x == m.tasks[c]
  <2>1. x \in TaskRecord /\ x.state = "running" /\ x.at # "dead" /\ c \in Slot \ {0}
    BY <1>3, GoodRunning
  <2>2. y = [m.tasks EXCEPT ![c] = Counted(x)] /\ g = [m.tasks EXCEPT ![c] = Ended(x)]
    BY <1>1, <1>3, TableForms DEF YieldTable
  <2>3. Shaped(y, c) /\ Shaped(g, c)
    BY <1>1, <1>3, <2>1, TurnTable DEF YieldTable
  <2>4. y[c].state # "ready" /\ g[c].state # "ready"
    <3>1. Counted(x).state # "ready" /\ Ended(x).state # "ready"
      BY <2>1, TaskForms
    <3> QED
      BY <1>1, <2>2, <3>1
  <2> HIDE DEF y, g
  <2>5. 0 \in ReadySlots(y) /\ 0 \in ReadySlots(g)
    BY <1>3, <2>3, ShellReady
  <2>6. c \notin ReadySlots(y) /\ c \notin ReadySlots(g)
    BY <2>4 DEF ReadySlots
  <2>7. find_next_ready(y, c) \in ReadySlots(y) /\ find_next_ready(g, c) \in ReadySlots(g)
    BY <1>1, <2>5, NextIsReady
  <2> QED
    BY <2>6, <2>7 DEF y, g
<1> QED
  BY <1>2, <1>3

\* A step of the CPU while demo record or demo replay waits.
RunStep == Drain \/ TaskWork \/ TaskYield \/ TaskExit

\* Where the kernel is in a configuration of a run and round robin makes the
\* choice, the CPU takes the run's step and reports its event.
LEMMA CpuStep ==
  ASSUME KernelInv, NEW p \in Workloads, NEW log, Good(Now(log), p), RunStep,
         ~(trace.active /\ trace.failed), shell \in {"record", "replay"},
         Yields(tasks, current_task) =>
           Next_task(trace, YieldTable(tasks, current_task))
             = find_next_ready(YieldTable(tasks, current_task), current_task)
  PROVE  /\ ~Done(Now(log)) /\ lost' = lost
         /\ tasks' = Step(Now(log), used).tasks /\ current_task' = Step(Now(log), used).cur
         /\ active_workloads' = Step(Now(log), used).active
         /\ trace' = trace_record(trace, StepEvent(Now(log), used))
<1> DEFINE m == Now(log)
           c == current_task
           s == Step(m, used)
           e == StepEvent(m, used)
<1>1. m.tasks = tasks /\ m.cur = c /\ m.active = active_workloads /\ m.log = log
  BY DEF Now
<1>2. TableSound /\ c \in Slot /\ tasks \in [Slot -> TaskRecord]
  BY KernelParts DEF TableSound, Shaped
<1> HIDE DEF m
<1>3. Good(m, p)
  BY DEF m
<1>4. ~Done(m)
  <2>1. CASE Drain
    BY <1>1, <2>1 DEF Drain, Busy, Done
  <2>2. CASE ~Drain
    BY <1>1, <2>2 DEF Done, RunStep, TaskWork, TaskYield, TaskExit, Running
  <2> QED
    BY <2>1, <2>2
<1>5. ASSUME NEW ts, NEW a, switch_to(trace, ts, find_next_ready(ts, c)),
             find_next_ready(ts, c) \in ReadySlots(ts) \ {c},
             s = Moved(m, ts, a), e = SwitchEvent(ts, c)
      PROVE  /\ tasks' = s.tasks /\ current_task' = s.cur /\ s.active = a
             /\ trace' = trace_record(trace, e) /\ lost' = lost
  <2> DEFINE n == find_next_ready(ts, c)
  <2>1. /\ tasks' = SwitchedTo(ts, c, n) /\ current_task' = n /\ lost' = lost
        /\ trace' = trace_record(trace, Event(ts[n].pid, "sched", c, n))
    BY <1>2, <1>5, SwitchReady
  <2>2. s.tasks = SwitchedTo(ts, c, n) /\ s.cur = n /\ s.active = a
    BY <1>1, <1>5 DEF Moved
  <2> QED
    BY <1>5, <2>1, <2>2 DEF SwitchEvent
<1>6. CASE Drain
  <2>1. /\ c = 0 /\ active_workloads' = active_workloads
        /\ switch_to(trace, tasks, find_next_ready(tasks, c))
    BY <1>6 DEF Drain, sched_yield, Yields, YieldTable
  <2>2. find_next_ready(tasks, c) \in ReadySlots(tasks) \ {c}
    BY <1>1, <1>3, <1>4, <2>1, SwitchOut DEF Yields, YieldTable
  <2>3. s = Moved(m, tasks, active_workloads) /\ e = SwitchEvent(tasks, c)
    BY <1>1, <1>4, <2>1 DEF Step, StepEvent
  <2> QED
    BY <1>4, <1>5, <2>1, <2>2, <2>3 DEF m
<1>7. CASE TaskYield
  <2> DEFINE us == Yielded(tasks, c)
  <2>1. /\ c # 0 /\ tasks[c].at = "yield" /\ active_workloads' = active_workloads
        /\ sched_yield(trace, us)
    BY <1>7 DEF TaskYield, Running, Yielded
  <2>2. switch_to(trace, us, find_next_ready(us, c))
    BY <2>1 DEF sched_yield, Yields, YieldTable
  <2>3. find_next_ready(us, c) \in ReadySlots(us) \ {c}
    BY <1>1, <1>3, <1>4, <2>1, SwitchOut DEF Yields, YieldTable
  <2>4. s = Moved(m, us, active_workloads) /\ e = SwitchEvent(us, c)
    BY <1>1, <1>4, <2>1 DEF Step, StepEvent
  <2> QED
    BY <1>4, <1>5, <2>1, <2>2, <2>3, <2>4 DEF m
<1>8. CASE TaskWork
  <2>1. c # 0 /\ tasks[c].at = "work" /\ tasks[c].done < Rounds[tasks[c].entry]
    BY <1>8 DEF TaskWork, Running
  <2>2. tasks[c].entry = p /\ p # "fork"
    BY <1>1, <1>3, <2>1, GoodRunning DEF Workloads
  <2>3. /\ trace' = trace_record(trace, WorkEvent(tasks[c], used))
        /\ tasks' = [tasks EXCEPT ![c].at = "yield"]
        /\ UNCHANGED <<current_task, active_workloads, lost>>
    BY <1>8, <2>2 DEF TaskWork
  <2>4. s = Worked(m, used) /\ e = WorkEvent(tasks[c], used)
    BY <1>1, <1>4, <2>1 DEF Step, StepEvent
  <2>5. s.tasks = [tasks EXCEPT ![c].at = "yield"] /\ s.cur = c /\ s.active = active_workloads
    BY <1>1, <2>4 DEF Worked
  <2> QED
    BY <1>4, <2>3, <2>4, <2>5 DEF m
<1>9. CASE TaskExit
  <2> DEFINE us == Gone(tasks, c)
  <2>1. c # 0 /\ tasks[c].at = "work" /\ tasks[c].done = Rounds[tasks[c].entry]
    BY <1>9 DEF TaskExit, Running
  <2>2. tasks[c].entry = p /\ p # "fork" /\ tasks[c].done \in Nat
    BY <1>1, <1>3, <2>1, GoodRunning DEF Workloads
  <2>3. active_workloads' = active_workloads - 1 /\ switch_to(trace, us, find_next_ready(us, c))
    BY <1>9, <2>2 DEF TaskExit, Gone
  <2>4. find_next_ready(us, c) \in ReadySlots(us) \ {c}
    BY <1>1, <1>3, <1>4, <2>1, SwitchOut
  <2>5. ~(tasks[c].done < Rounds[tasks[c].entry])
    BY <2>1, <2>2
  <2>6. s = Moved(m, us, active_workloads - 1) /\ e = SwitchEvent(us, c)
    BY <1>1, <1>4, <2>1, <2>5 DEF Step, StepEvent
  <2> QED
    BY <1>4, <1>5, <2>3, <2>4, <2>6 DEF m
<1> QED
  BY <1>6, <1>7, <1>8, <1>9 DEF RunStep

-----------------------------------------------------------------------------
(* Recordings.                                                              *)

LEMMA RunAdvances ==
  ASSUME NEW p, NEW u, NEW m, Ran(p, u, m)
  PROVE  Ran(p, u, Step(m, u))
  BY LeadsStep DEF Ran

LEMMA NowIs ==
  ASSUME NEW x \in Config
  PROVE  x = [tasks |-> x.tasks, cur |-> x.cur, active |-> x.active, log |-> x.log]
  BY DEF Config

LEMMA RecordStep ==
  ASSUME KernelInv, RecordInv, TaskStep, shell = "record"
  PROVE  RecordInv'
<1> SUFFICES ASSUME shell' = "record", mark'.clean, ~trace'.dropped
             PROVE  /\ trace'.recording /\ trace'.profile \in Workloads /\ Fits(trace'.profile)
                    /\ mark'.used = used'
                    /\ Ran(trace'.profile, used', Now(trace.buffer)')
  BY DEF RecordInv
<1>1. Kept(trace, trace') /\ UNCHANGED <<used, mark>>
  BY TaskStepSound
<1>2. ~trace.dropped /\ mark.clean
  BY <1>1 DEF Kept
<1> DEFINE p == trace.profile
           m == Now(trace.buffer)
           s == Step(m, used)
           e == StepEvent(m, used)
<1>3. trace.recording /\ p \in Workloads /\ Fits(p) /\ mark.used = used /\ Ran(p, used, m)
  BY <1>2 DEF RecordInv
<1>4. TraceSound(trace) /\ FlowSound /\ TableSound
  BY KernelParts
<1>5. used \in Nat /\ ~trace.active /\ current_task \in Slot
  BY <1>4, ReplayAssumption DEF FlowSound, TableSound, Shaped
<1>6. Good(m, p)
  BY <1>3, <1>5, RanGood
<1>7. RunStep
  BY DEF TaskStep, RunStep, ShellYield
<1>8. \A ts : Next_task(trace, ts) = find_next_ready(ts, current_task)
  BY <1>4, <1>5, ChoiceInt
<1>9. /\ ~Done(m) /\ tasks' = s.tasks /\ current_task' = s.cur /\ active_workloads' = s.active
      /\ trace' = trace_record(trace, e)
  BY <1>3, <1>5, <1>6, <1>7, <1>8, CpuStep
<1>10. Good(s, p) /\ s.log = Append(m.log, e) /\ e \in EventRecord /\ e.type # "irq"
  BY <1>3, <1>5, <1>6, <1>9, StepGood
<1>11. m.log = trace.buffer
  BY DEF Now
<1>12. Ran(p, used, s)
  BY <1>3, RunAdvances
<1> HIDE DEF m, s, e
<1>13. trace'.buffer = Append(trace.buffer, e)
  <2>1. trace \in TraceRecord
    BY <1>4 DEF TraceSound
  <2>2. \/ trace' = [trace EXCEPT !.buffer = Append(@, e)]
        \/ trace' = [trace EXCEPT !.dropped = TRUE]
    BY <1>3, <1>5, <1>9, <1>10, <2>1, RecordOn
  <2> QED
    BY <2>1, <2>2 DEF TraceRecord
<1>14. Now(trace.buffer)' = s
  <2>1. s \in Config
    BY <1>10 DEF Good
  <2>2. s = [tasks |-> s.tasks, cur |-> s.cur, active |-> s.active, log |-> s.log]
    BY <2>1, NowIs
  <2> QED
    BY <1>9, <1>10, <1>11, <1>13, <2>2 DEF Now
<1>15. trace'.recording /\ trace'.profile = p /\ used' = used
  BY <1>1, <1>3 DEF Kept
<1> QED
  BY <1>1, <1>3, <1>12, <1>14, <1>15

LEMMA RecordStarts ==
  ASSUME KernelInv, NEW p \in Profiles, DemoRecord(p)
  PROVE  RecordInv'
<1>1. /\ used' = used /\ mark'.used = used /\ trace'.recording /\ trace'.profile = p
      /\ mark'.clean => Fits(p) /\ Now(trace.buffer)' = Begin(p)
  BY DemoRecordKernel
<1>2. p \in Workloads
  BY ReplayAssumption
<1>3. Ran(p, used, Begin(p))
  BY LeadsStep DEF Ran
<1> QED
  BY <1>1, <1>2, <1>3 DEF RecordInv

LEMMA RecordInterrupted ==
  ASSUME KernelInv, RecordInv, NEW key \in BOOLEAN, NEW n \in 0 .. 2 * MaxPackets,
         Interrupt(key, n)
  PROVE  RecordInv'
<1> SUFFICES ASSUME shell' = "record", mark'.clean, ~trace'.dropped
             PROVE  /\ trace'.recording /\ trace'.profile \in Workloads /\ Fits(trace'.profile)
                    /\ mark'.used = used'
                    /\ Ran(trace'.profile, used', Now(trace.buffer)')
  BY DEF RecordInv
<1>1. /\ Kept(trace, trace') /\ mark.clean /\ mark'.used = mark.used
      /\ UNCHANGED <<tasks, current_task, active_workloads, used, shell>>
      /\ trace.recording /\ trace.profile # None => trace' = trace
  BY InterruptKernel
<1>2. ~trace.dropped
  BY <1>1 DEF Kept
<1>3. /\ trace.recording /\ trace.profile \in Workloads /\ Fits(trace.profile) /\ mark.used = used
      /\ Ran(trace.profile, used, Now(trace.buffer))
  BY <1>1, <1>2 DEF RecordInv
<1>4. trace' = trace
  BY <1>1, <1>3 DEF Workloads, None
<1>5. Now(trace.buffer)' = Now(trace.buffer)
  BY <1>1, <1>4 DEF Now
<1> QED
  BY <1>1, <1>3, <1>4, <1>5

\* The buffer of an ended recording stays as it is.
LEMMA BufferStays ==
  ASSUME BufferInv, shell # "record", mark'.clean => mark.clean, mark'.used = mark.used,
         trace'.profile = trace.profile, trace.dropped => trace'.dropped,
         ~trace.recording => ~trace'.recording /\ trace'.buffer = trace.buffer
  PROVE  BufferInv'
  BY DEF BufferInv

LEMMA BufferKept ==
  ASSUME BufferInv, shell # "record", mark' = mark, Kept(trace, trace')
  PROVE  BufferInv'
<1>1. /\ trace'.profile = trace.profile /\ (trace.dropped => trace'.dropped)
      /\ (~trace.recording => ~trace'.recording /\ trace'.buffer = trace.buffer)
  BY DEF Kept
<1> QED
  BY <1>1, BufferStays

\* What a stop saves of recorder state t.
WholeBuffer(t) ==
  mark.clean /\ ~t.dropped =>
    t.profile \in Workloads /\ Fits(t.profile) /\ RanTo(t.profile, mark.used, t.buffer)

\* It is whole at both calls of trace_stop.
LEMMA StopWhole ==
  ASSUME KernelInv, RecordInv, BufferInv
  PROVE  /\ TraceStop => TraceSound(Shelled) /\ WholeBuffer(Shelled) /\ BufferInv'
         /\ RecordDone => WholeBuffer(trace) /\ BufferInv'
<1>1. TraceSound(trace) /\ DiskSound /\ FlowSound /\ TableSound
  BY KernelParts
<1>2. ASSUME TraceStop
      PROVE  TraceSound(Shelled) /\ WholeBuffer(Shelled) /\ BufferInv'
  <2>1. Kept(trace, Shelled)
    BY <1>1, ShelledKept
  <2>2. TraceSound(Shelled) /\ trace_stop(Shelled) /\ mark' = mark /\ shell # "record"
    BY <1>2, <2>1, TraceStopKernel DEF Kept, TraceStop
  <2>3. /\ ~trace'.recording /\ trace'.profile = Shelled.profile /\ trace'.buffer = Shelled.buffer
        /\ trace'.dropped = Shelled.dropped
    BY <1>1, <2>2, StopSound
  <2>4. /\ Shelled.profile = trace.profile /\ (trace.dropped => Shelled.dropped)
        /\ ~trace.recording => Shelled.buffer = trace.buffer
    BY <2>1 DEF Kept
  <2>5. BufferInv'
    BY <2>2, <2>3, <2>4, BufferStays
  <2>6. WholeBuffer(Shelled)
    BY <2>2, <2>4 DEF WholeBuffer, BufferInv
  <2> QED
    BY <2>2, <2>5, <2>6
<1>3. ASSUME RecordDone
      PROVE  WholeBuffer(trace) /\ BufferInv'
  <2>1. /\ shell = "record" /\ trace_stop(trace) /\ mark' = mark /\ ~Busy /\ current_task = 0
    BY <1>3 DEF RecordDone, ShellAt
  <2>2. /\ ~trace'.recording /\ trace'.profile = trace.profile /\ trace'.buffer = trace.buffer
        /\ trace'.dropped = trace.dropped
    BY <1>1, <2>1, StopSound
  <2>3. ~trace.active /\ used \in Nat
    BY <1>1, <2>1, ReplayAssumption DEF FlowSound
  <2>4. WholeBuffer(trace)
    <3> SUFFICES ASSUME mark.clean, ~trace.dropped
                 PROVE  /\ trace.profile \in Workloads /\ Fits(trace.profile)
                        /\ RanTo(trace.profile, mark.used, trace.buffer)
      BY DEF WholeBuffer
    <3> DEFINE m == Now(trace.buffer)
    <3>1. /\ trace.profile \in Workloads /\ Fits(trace.profile) /\ mark.used = used
          /\ Ran(trace.profile, used, m)
      BY <2>1 DEF RecordInv
    <3>2. Done(m)
      BY <2>1, <2>3, NotBusyDone
    <3>3. m \in Config /\ m.log = trace.buffer
      BY <2>3, <3>1, RanGood DEF Good, Now
    <3> HIDE DEF m
    <3> QED
      BY <3>1, <3>2, <3>3 DEF RanTo
  <2> QED
    BY <2>1, <2>2, <2>4 DEF WholeBuffer, BufferInv
<1> QED
  BY <1>2, <1>3

LEMMA StoreGrows ==
  ASSUME DiskSound, StoreInv, NEW t, TraceSound(t), trace_stop(t), mark' = mark, WholeBuffer(t)
  PROVE  StoreInv'
<1>1. CASE store' = store
  BY <1>1 DEF StoreInv
<1>2. CASE store' = Append(store, Saved(t))
  <2>1. store \in Seq(Session) /\ Len(store) \in Nat /\ mark \in MarkRecord
    BY DEF DiskSound
  <2>2. /\ Saved(t) \in Session /\ Saved(t).profile = t.profile /\ Saved(t).events = t.buffer
        /\ Saved(t).mark.used = mark.used /\ (Saved(t).mark.clean <=> mark.clean /\ ~t.dropped)
    BY <2>1, SavedFields
  <2> DEFINE x == Saved(t)
  <2> HIDE DEF x
  <2>3. /\ DOMAIN store' = 1 .. Len(store) + 1 /\ DOMAIN store = 1 .. Len(store)
        /\ store'[Len(store) + 1] = x /\ \A i \in 1 .. Len(store) : store'[i] = store[i]
    BY <1>2, <2>1, <2>2 DEF x
  <2>4. ASSUME NEW id \in DOMAIN store', store'[id].mark.clean
        PROVE  /\ store'[id].profile \in Workloads /\ Fits(store'[id].profile)
               /\ RanTo(store'[id].profile, store'[id].mark.used, store'[id].events)
    <3>1. CASE id = Len(store) + 1
      <4>1. store'[id] = x /\ mark.clean /\ ~t.dropped
        BY <2>2, <2>3, <2>4, <3>1 DEF x
      <4> QED
        BY <2>2, <4>1 DEF WholeBuffer, x
    <3>2. CASE id # Len(store) + 1
      <4>1. id \in DOMAIN store /\ store'[id] = store[id]
        BY <2>1, <2>3, <2>4, <3>2
      <4> QED
        BY <2>4, <4>1 DEF StoreInv
    <3> QED
      BY <3>1, <3>2
  <2> QED
    BY <2>4 DEF StoreInv
<1> QED
  BY <1>1, <1>2, StopSound

\* The sessions saved after the i-th start.
SavedAfter(i) == {id \in DOMAIN store : store[id].nth = i}

LEMMA ListGrows ==
  ASSUME DiskSound, ListExact, NEW t, TraceSound(t), trace_stop(t), mark' = mark
  PROVE  ListExact'
<1>1. CASE store' = store /\ sessions' = sessions
  BY <1>1 DEF ListExact
<1>2. ASSUME store' = Append(store, Saved(t)),
             sessions' = IF t.started \in 1 .. SessionCap
                         THEN [sessions EXCEPT ![t.started] = Len(store) + 1] ELSE sessions
      PROVE  ListExact'
  <2> DEFINE n == Len(store)
             k == t.started
             x == Saved(t)
  <2>1. /\ store \in Seq(Session) /\ n \in Nat /\ mark \in MarkRecord
        /\ sessions \in [1 .. SessionCap -> 0 .. n]
    BY DEF DiskSound
  <2>2. x \in Session /\ x.nth = k
    BY <2>1, SavedFields
  <2> HIDE DEF x
  <2>3. /\ DOMAIN store' = 1 .. n + 1 /\ DOMAIN store = 1 .. n
        /\ store'[n + 1] = x /\ \A i \in 1 .. n : store'[i] = store[i]
    BY <1>2, <2>1, <2>2 DEF x
  <2> HIDE DEF n, k
  <2>4. ASSUME NEW i \in 1 .. SessionCap
        PROVE  /\ SavedAfter(i)' = IF i = k THEN SavedAfter(i) \cup {n + 1} ELSE SavedAfter(i)
               /\ SavedAfter(i) \in SUBSET (1 .. n)
               /\ sessions[i] = IF SavedAfter(i) = {} THEN 0 ELSE Max(SavedAfter(i))
    <3>1. SavedAfter(i) = {id \in 1 .. n : store[id].nth = i}
      BY <2>3 DEF SavedAfter
    <3>2. SavedAfter(i)' = {id \in 1 .. n + 1 : store'[id].nth = i}
      BY <2>3 DEF SavedAfter
    <3>3. \A id : id \in 1 .. n + 1 <=> id \in 1 .. n \/ id = n + 1
      BY <2>1
    <3>4. n + 1 \notin 1 .. n
      BY <2>1
    <3>5. SavedAfter(i)' = IF i = k THEN SavedAfter(i) \cup {n + 1} ELSE SavedAfter(i)
      BY <2>2, <2>3, <3>1, <3>2, <3>3, <3>4
    <3>6. sessions[i] = IF SavedAfter(i) = {} THEN 0 ELSE Max(SavedAfter(i))
      BY DEF ListExact, SavedAfter
    <3> QED
      BY <3>1, <3>5, <3>6
  <2>5. ASSUME NEW i \in 1 .. SessionCap
        PROVE  sessions'[i] = IF SavedAfter(i)' = {} THEN 0 ELSE Max(SavedAfter(i)')
    <3>1. CASE i = k
      <4>1. sessions'[i] = n + 1
        BY <1>2, <2>1, <3>1 DEF n, k
      <4>2. Max(SavedAfter(i) \cup {n + 1}) = n + 1
        BY <2>1, <2>4, MaxOfSlots
      <4> QED
        BY <2>4, <3>1, <4>1, <4>2
    <3>2. CASE i # k
      <4>1. sessions'[i] = sessions[i]
        BY <1>2, <2>1, <3>2 DEF n, k
      <4> QED
        BY <2>4, <3>2, <4>1
    <3> QED
      BY <3>1, <3>2
  <2> QED
    BY <2>5 DEF ListExact, SavedAfter
<1> QED
  BY <1>1, <1>2, StopSound

-----------------------------------------------------------------------------
(* Replays.                                                                 *)

\* A replay that follows a recorded run: where it is, and what comes next.
LEMMA FollowFacts ==
  ASSUME KernelInv, NEW p \in Workloads, NEW u \in Nat, Following(p, u)
  PROVE  LET m == Now(SubSeq(trace.events, 1, trace.index))
         IN /\ Good(m, p) /\ u \in Nat /\ used \in Nat
            /\ Step(m, u) = Step(m, used) /\ StepEvent(m, u) = StepEvent(m, used)
            /\ Done(m) => trace.index = Len(trace.events)
            /\ ~Done(m) =>
                 /\ trace.index < Len(trace.events)
                 /\ trace.events[trace.index + 1] = StepEvent(m, u)
                 /\ StepEvent(m, u).type # "irq"
                 /\ Ran(p, u, Step(m, u))
                 /\ Step(m, u).log = SubSeq(trace.events, 1, trace.index + 1)
<1> DEFINE n == trace.index
           ev == trace.events
           m == Now(SubSeq(ev, 1, n))
<1>1. TraceSound(trace) /\ FlowSound
  BY KernelParts
<1>2. n \in Nat /\ ev \in Seq(EventRecord) /\ n <= Len(ev)
  BY <1>1 DEF TraceSound, TraceRecord
<1>3. u \in Nat /\ used \in Nat
  BY <1>1, ReplayAssumption DEF FlowSound
<1>4. Fits(p) /\ (p = "sysload" => u = used) /\ RanTo(p, u, ev) /\ Ran(p, u, m)
  BY DEF Following
<1>5. m.log = SubSeq(ev, 1, n)
  BY DEF Now
<1> HIDE DEF m, n, ev
<1>6. /\ Good(m, p)
      /\ Done(m) => n = Len(ev)
      /\ ~Done(m) =>
           /\ n < Len(ev) /\ ev[n + 1] = StepEvent(m, u) /\ StepEvent(m, u).type # "irq"
           /\ Ran(p, u, Step(m, u)) /\ Step(m, u).log = SubSeq(ev, 1, n + 1)
  BY <1>2, <1>3, <1>4, <1>5, Lockstep
<1>7. Step(m, u) = Step(m, used) /\ StepEvent(m, u) = StepEvent(m, used)
  BY <1>3, <1>4, <1>6, StepSame
<1> QED
  BY <1>3, <1>6, <1>7 DEF m, n, ev

\* The recorded choice is round robin's.
LEMMA FollowChoice ==
  ASSUME KernelInv, NEW p \in Workloads, NEW u \in Nat, Following(p, u),
         Yields(tasks, current_task)
  PROVE  Next_task(trace, YieldTable(tasks, current_task))
           = find_next_ready(YieldTable(tasks, current_task), current_task)
<1> DEFINE m == Now(SubSeq(trace.events, 1, trace.index))
           c == current_task
           ts == YieldTable(tasks, c)
           e == StepEvent(m, u)
<1>1. m.tasks = tasks /\ m.cur = c
  BY DEF Now
<1>2. /\ Done(m) => trace.index = Len(trace.events)
      /\ ~Done(m) => trace.index < Len(trace.events) /\ trace.events[trace.index + 1] = e
  BY FollowFacts
<1> HIDE DEF m, c
<1>3. CASE Done(m)
  <2>1. trace.index \in Nat
    BY KernelParts DEF TraceSound, TraceRecord
  <2>2. ~Forced(trace)
    BY <1>2, <1>3, <2>1 DEF Forced
  <2> QED
    BY <2>2 DEF Next_task, c
<1>4. CASE ~Done(m)
  <2>1. e = SwitchEvent(ts, c)
    BY <1>1 DEF StepEvent, YieldTable, Yields, c
  <2> HIDE DEF e, ts
  <2>2. e.d1 = find_next_ready(ts, c)
    BY <2>1 DEF SwitchEvent, Event
  <2> QED
    BY <1>2, <1>4, <2>2 DEF Next_task, c, ts
<1> QED
  BY <1>3, <1>4

LEMMA FollowStep ==
  ASSUME KernelInv, MatchInv, TaskStep, promise = "match", shell = "replay"
  PROVE  MatchInv'
<1>1. /\ UNCHANGED <<used, promise>> /\ shell' = "replay"
  BY TaskStepSound
<1>2. PICK p \in Workloads, u \in Nat : Following(p, u)
  BY DEF MatchInv
<1>3. ~trace.failed /\ ~lost
  BY DEF MatchInv
<1> DEFINE n == trace.index
           ev == trace.events
           m == Now(SubSeq(ev, 1, n))
           s == Step(m, used)
           e == StepEvent(m, used)
<1>4. /\ Good(m, p) /\ u \in Nat /\ used \in Nat
      /\ Step(m, u) = s /\ StepEvent(m, u) = e
      /\ ~Done(m) =>
           /\ n < Len(ev) /\ ev[n + 1] = e /\ e.type # "irq"
           /\ Ran(p, u, s) /\ s.log = SubSeq(ev, 1, n + 1)
  BY <1>2, FollowFacts
<1>5. RunStep
  BY DEF TaskStep, RunStep, ShellYield
<1>6. Yields(tasks, current_task) =>
        Next_task(trace, YieldTable(tasks, current_task))
          = find_next_ready(YieldTable(tasks, current_task), current_task)
  BY <1>2, FollowChoice
<1>7. /\ ~Done(m) /\ lost' = lost /\ tasks' = s.tasks /\ current_task' = s.cur
      /\ active_workloads' = s.active /\ trace' = trace_record(trace, e)
  BY <1>3, <1>4, <1>5, <1>6, CpuStep
<1>8. Good(s, p)
  BY <1>4, StepGood
<1>9. TraceSound(trace) /\ FlowSound
  BY KernelParts
<1> HIDE DEF m, s, e
<1>10. trace' = [trace EXCEPT !.index = @ + 1]
  BY <1>4, <1>7, <1>9, RecordMatch DEF TraceSound, FlowSound
<1>11. trace'.index = n + 1 /\ trace'.events = ev /\ ~trace'.failed
  BY <1>3, <1>9, <1>10 DEF TraceSound, TraceRecord
<1>12. Now(SubSeq(trace.events, 1, trace.index))' = s
  <2>1. s \in Config
    BY <1>8 DEF Good
  <2>2. s = [tasks |-> s.tasks, cur |-> s.cur, active |-> s.active, log |-> s.log]
    BY <2>1, NowIs
  <2> QED
    BY <1>4, <1>7, <1>11, <2>2 DEF Now
<1>13. Following(p, u)'
  <2>1. Fits(p) /\ (p = "sysload" => u = used) /\ RanTo(p, u, ev)
    BY <1>2 DEF Following
  <2> QED
    BY <1>1, <1>4, <1>7, <1>11, <1>12, <2>1 DEF Following
<1> QED
  BY <1>1, <1>3, <1>7, <1>11, <1>13 DEF MatchInv

\* Outside of a replay the CPU does not go astray.
LEMMA CalmStep ==
  ASSUME KernelInv, TaskStep, ~trace.active
  PROVE  lost' = lost
<1>1. TraceSound(trace) /\ current_task \in Slot
  BY KernelParts DEF TableSound, Shaped
<1>2. ASSUME NEW ts, sched_yield(trace, ts)
      PROVE  lost' = lost
  <2>1. Next_task(trace, ts) = find_next_ready(ts, current_task)
    BY <1>1, ChoiceInt
  <2> QED
    BY <1>1, <1>2, <2>1, FairNotLost DEF sched_yield
<1>3. CASE Drain \/ ShellYield \/ TaskYield
  BY <1>2, <1>3 DEF Drain, ShellYield, TaskYield
<1>4. CASE TaskWork
  BY <1>4 DEF TaskWork
<1>5. CASE TaskExit
  BY <1>1, <1>5, FairNotLost DEF TaskExit
<1> QED
  BY <1>3, <1>4, <1>5 DEF TaskStep

\* With no replay at work what the last one showed stays.
LEMMA MatchStays ==
  ASSUME MatchInv, trace'.failed = trace.failed, lost' = lost, promise' = promise, shell' # "replay"
  PROVE  MatchInv'
  BY DEF MatchInv

LEMMA MatchTaskStep ==
  ASSUME KernelInv, MatchInv, TaskStep
  PROVE  MatchInv'
<1>1. /\ Kept(trace, trace') /\ promise' = promise
      /\ \/ shell' = shell
         \/ shell \in {"prompt", "post"} /\ shell' = "prompt"
  BY TaskStepSound
<1>2. FlowSound
  BY KernelParts
<1>3. CASE shell = "replay" /\ promise = "match"
  BY <1>3, FollowStep
<1>4. CASE promise # "match"
  BY <1>1, <1>4 DEF MatchInv
<1>5. CASE shell # "replay"
  <2>1. ~trace.active
    BY <1>2, <1>5 DEF FlowSound
  <2>2. lost' = lost /\ trace'.failed = trace.failed /\ shell' # "replay"
    BY <1>1, <1>5, <2>1, CalmStep DEF Kept
  <2> QED
    BY <1>1, <2>2, MatchStays
<1> QED
  BY <1>3, <1>4, <1>5

\* A replay that should match begins where the recorded run began.
LEMMA MatchStarts ==
  ASSUME KernelInv, StoreInv, NEW id, DemoReplay(id)
  PROVE  MatchInv'
<1> SUFFICES ASSUME promise' = "match"
             PROVE  /\ ~trace'.failed /\ ~lost'
                    /\ \E p \in Workloads, u \in Nat : Following(p, u)'
  BY DEF MatchInv
<1>1. /\ ~trace'.failed /\ ~lost /\ UNCHANGED <<lost, used>> /\ id \in DOMAIN store
      /\ store[id] \in Session /\ store[id].profile \in Workloads
      /\ trace'.events = store[id].events /\ store[id].mark.clean
      /\ (store[id].profile = "sysload" => store[id].mark.used = used)
      /\ Now(SubSeq(trace.events, 1, trace.index))' = Begin(store[id].profile)
  BY DemoReplayKernel
<1>2. store[id].mark.used \in Nat
  BY <1>1 DEF Session, MarkRecord
<1>3. PICK p \in Workloads, u \in Nat : p = store[id].profile /\ u = store[id].mark.used
  BY <1>1, <1>2
<1>4. Fits(p) /\ RanTo(p, u, trace'.events) /\ (p = "sysload" => u = used')
  BY <1>1, <1>3 DEF StoreInv
<1>5. Ran(p, u, Begin(p))
  BY LeadsStep DEF Ran
<1>6. Following(p, u)'
  BY <1>1, <1>3, <1>4, <1>5 DEF Following
<1> QED
  BY <1>1, <1>6

\* It is over when the run is, and then every event has been met.
LEMMA MatchEnds ==
  ASSUME KernelInv, MatchInv, ReplayDone
  PROVE  MatchInv'
<1> SUFFICES ASSUME promise' = "match"
             PROVE  ~trace'.failed /\ ~lost' /\ shell' # "replay"
  BY DEF MatchInv
<1>1. /\ UNCHANGED <<lost, promise>> /\ shell = "replay" /\ shell' = "post"
      /\ trace'.failed <=> trace.failed \/ trace.index # Len(trace.events)
  BY ReplayDoneKernel
<1>2. PICK p \in Workloads, u \in Nat : Following(p, u)
  BY <1>1 DEF MatchInv
<1>3. ~trace.failed /\ ~lost
  BY <1>1 DEF MatchInv
<1>4. Done(Now(SubSeq(trace.events, 1, trace.index)))
  BY <1>3, NotBusyDone DEF ReplayDone, ShellAt
<1>5. trace.index = Len(trace.events)
  BY <1>2, <1>4, FollowFacts
<1> QED
  BY <1>1, <1>3, <1>5

LEMMA MatchInterrupted ==
  ASSUME KernelInv, MatchInv, NEW key \in BOOLEAN, NEW n \in 0 .. 2 * MaxPackets,
         Interrupt(key, n)
  PROVE  MatchInv'
<1>1. /\ Kept(trace, trace') /\ (trace.active => trace' = trace)
      /\ UNCHANGED <<tasks, current_task, active_workloads, used, lost, promise, shell>>
  BY InterruptKernel
<1>2. FlowSound
  BY KernelParts
<1>3. CASE shell = "replay"
  <2>1. trace' = trace
    BY <1>1, <1>2, <1>3 DEF FlowSound
  <2>2. \A p, u : Following(p, u)' <=> Following(p, u)
    BY <1>1, <2>1 DEF Following, Now
  <2> QED
    BY <1>1, <2>1, <2>2 DEF MatchInv
<1>4. CASE shell # "replay"
  <2>1. trace'.failed = trace.failed
    BY <1>1, <1>2, <1>4 DEF FlowSound, Kept
  <2> QED
    BY <1>1, <1>4, <2>1, MatchStays
<1> QED
  BY <1>3, <1>4

-----------------------------------------------------------------------------
(* The invariant holds.                                                     *)

LEMMA ReplayInit == Init => ReplayInv
<1> SUFFICES ASSUME Init PROVE ReplayInv
  OBVIOUS
<1>1. tasks = Alone /\ current_task = 0 /\ active_workloads = 0 /\ LiveWorkers(tasks) = {}
  BY AloneShaped DEF Init, Alone, ShellSlot
<1>2. TableSound
  <2>1. Cardinality({}) = 0
    BY FS_EmptySet
  <2> QED
    BY <1>1, <2>1, AloneShaped DEF TableSound
<1>3. TraceSound(trace)
  <2>1. <<>> \in Seq(EventRecord) /\ Len(<<>>) = 0 /\ MaxEvents \in Nat
    BY ReplayAssumption
  <2>2. trace \in TraceRecord /\ trace.buffer = <<>> /\ trace.events = <<>> /\ trace.index = 0
    BY <2>1 DEF Init, TraceRecord
  <2> QED
    BY <2>1, <2>2 DEF TraceSound
<1>4. store = <<>> /\ store \in Seq(Session) /\ Len(store) = 0 /\ DOMAIN store = {}
  BY DEF Init
<1>5. DiskSound
  <2>1. mark \in MarkRecord /\ MaxSessions \in Nat
    BY ReplayAssumption DEF Init, MarkRecord
  <2>2. sessions \in [1 .. SessionCap -> 0 .. 0]
    BY DEF Init
  <2> QED
    BY <1>4, <2>1, <2>2 DEF DiskSound
<1>6. FlowSound
  <2>1. MaxCommands \in Nat /\ MaxIrqs \in Nat /\ MaxPackets \in Nat
    BY ReplayAssumption
  <2>2. ~trace.active /\ lost = FALSE
    BY DEF Init
  <2>3. /\ next_pid = 2 /\ used = 0 /\ commands = 0 /\ irqs = 0 /\ shell = "prompt"
        /\ promise = "nothing" /\ packets = 0
    BY DEF Init
  <2>4. lost \in BOOLEAN
    BY <2>2, Zenon
  <2>5. used \in 0 .. MaxCommands /\ used <= commands /\ commands \in 0 .. MaxCommands
        /\ irqs \in 0 .. MaxIrqs /\ next_pid \in Nat \ {0} /\ packets \in 0 .. MaxPackets
    BY <2>1, <2>3
  <2>6. (trace.active <=> shell = "replay") /\ shell \in {"prompt", "post", "record", "replay"}
        /\ promise \in {"match", "return", "nothing"}
    BY <2>2, <2>3
  <2> QED
    BY <2>4, <2>5, <2>6 DEF FlowSound
<1>7. KernelInv
  BY <1>2, <1>3, <1>5, <1>6, KernelParts
<1>8. RecordInv /\ BufferInv /\ MatchInv
  BY DEF Init, RecordInv, BufferInv, MatchInv
<1>9. StoreInv /\ ListExact
  BY <1>4 DEF StoreInv, ListExact, Init
<1> QED
  BY <1>7, <1>8, <1>9 DEF ReplayInv

\* A step that leaves the disk alone leaves what is said of it.
LEMMA DiskStays ==
  ASSUME StoreInv, ListExact, store' = store, sessions' = sessions
  PROVE  StoreInv' /\ ListExact'
  BY DEF StoreInv, ListExact

LEMMA ReplayStep == ReplayInv /\ [Next]_vars => ReplayInv'
<1> SUFFICES ASSUME ReplayInv, [Next]_vars PROVE ReplayInv'
  OBVIOUS
<1>1. KernelInv /\ RecordInv /\ BufferInv /\ StoreInv /\ MatchInv /\ ListExact
  BY DEF ReplayInv
<1>2. TraceSound(trace) /\ DiskSound
  BY <1>1, KernelParts
<1>3. CASE Plain
  <2>1. /\ KernelInv' /\ shell = "prompt" /\ shell' = "post" /\ Kept(trace, trace') /\ ~trace.active
        /\ UNCHANGED <<lost, store, sessions, mark, promise>>
    BY <1>1, <1>3, PlainKernel
  <2>2. RecordInv'
    BY <2>1 DEF RecordInv
  <2>3. BufferInv'
    BY <1>1, <2>1, BufferKept
  <2>4. MatchInv'
    BY <1>1, <2>1, MatchStays DEF Kept
  <2> QED
    BY <1>1, <2>1, <2>2, <2>3, <2>4, DiskStays DEF ReplayInv
<1>4. CASE TraceStart
  <2>1. /\ KernelInv' /\ shell' = "post" /\ ~mark'.clean /\ trace'.failed = trace.failed
        /\ UNCHANGED <<lost, store, sessions, promise>>
    BY <1>1, <1>4, TraceStartKernel
  <2>2. RecordInv' /\ BufferInv'
    BY <2>1 DEF RecordInv, BufferInv
  <2>3. MatchInv'
    BY <1>1, <2>1, MatchStays
  <2> QED
    BY <1>1, <2>1, <2>2, <2>3, DiskStays DEF ReplayInv
<1>5. CASE TraceStop
  <2>1. KernelInv' /\ shell = "prompt" /\ shell' = "post" /\ UNCHANGED <<lost, mark, promise>>
    BY <1>1, <1>5, TraceStopKernel
  <2>2. TraceSound(Shelled) /\ WholeBuffer(Shelled) /\ BufferInv' /\ trace_stop(Shelled)
    BY <1>1, <1>5, StopWhole DEF TraceStop
  <2>3. StoreInv' /\ ListExact'
    BY <1>1, <1>2, <2>1, <2>2, StoreGrows, ListGrows
  <2>4. RecordInv'
    BY <2>1 DEF RecordInv
  <2>5. trace'.failed = trace.failed
    <3>1. ~trace.active /\ Kept(trace, Shelled)
      BY <1>1, <1>2, <1>5, TypedSound, ShelledKept DEF TraceStop
    <3>2. trace'.failed = Shelled.failed
      BY <1>2, <2>1, <2>2, StopSound
    <3> QED
      BY <3>1, <3>2 DEF Kept
  <2>6. MatchInv'
    BY <1>1, <2>1, <2>5, MatchStays
  <2> QED
    BY <2>1, <2>2, <2>3, <2>4, <2>6 DEF ReplayInv
<1>6. ASSUME NEW p \in Profiles, DemoRecord(p)
      PROVE  ReplayInv'
  <2>1. /\ KernelInv' /\ shell' = "record" /\ trace'.failed = trace.failed
        /\ UNCHANGED <<lost, store, sessions, promise>>
    BY <1>1, <1>6, DemoRecordKernel
  <2>2. RecordInv'
    BY <1>1, <1>6, RecordStarts
  <2>3. BufferInv'
    BY <2>1 DEF BufferInv
  <2>4. MatchInv'
    BY <1>1, <2>1, MatchStays
  <2> QED
    BY <1>1, <2>1, <2>2, <2>3, <2>4, DiskStays DEF ReplayInv
<1>7. ASSUME NEW id, DemoReplay(id)
      PROVE  ReplayInv'
  <2>1. /\ KernelInv' /\ shell = "prompt" /\ shell' = "replay"
        /\ UNCHANGED <<store, sessions, mark>>
        /\ trace'.recording = trace.recording /\ trace'.profile = trace.profile
        /\ trace'.buffer = trace.buffer /\ trace'.dropped = trace.dropped
    BY <1>1, <1>7, DemoReplayKernel
  <2>2. RecordInv'
    BY <2>1 DEF RecordInv
  <2>3. BufferInv'
    BY <1>1, <2>1, BufferStays
  <2>4. MatchInv'
    BY <1>1, <1>7, MatchStarts
  <2> QED
    BY <1>1, <2>1, <2>2, <2>3, <2>4, DiskStays DEF ReplayInv
<1>8. ASSUME NEW id, DemoRefused(id)
      PROVE  ReplayInv'
  <2>1. /\ KernelInv' /\ shell = "prompt" /\ shell' = "post" /\ promise' = "nothing"
        /\ UNCHANGED <<store, sessions, mark>>
        /\ trace'.recording = trace.recording /\ trace'.profile = trace.profile
        /\ trace'.buffer = trace.buffer /\ trace'.dropped = trace.dropped
    BY <1>1, <1>8, DemoRefusedKernel
  <2>2. RecordInv' /\ MatchInv'
    BY <2>1 DEF RecordInv, MatchInv
  <2>3. BufferInv'
    BY <1>1, <2>1, BufferStays
  <2> QED
    BY <1>1, <2>1, <2>2, <2>3, DiskStays DEF ReplayInv
<1>9. CASE TaskStep
  <2>1. KernelInv' /\ MatchInv'
    BY <1>1, <1>9, TaskStepKernel, MatchTaskStep
  <2>2. /\ Kept(trace, trace') /\ UNCHANGED <<sessions, store, mark>>
        /\ \/ shell' = shell
           \/ shell \in {"prompt", "post"} /\ shell' = "prompt"
    BY <1>1, <1>9, TaskStepSound
  <2>3. RecordInv' /\ BufferInv'
    <3>1. CASE shell = "record"
      <4>1. RecordInv'
        BY <1>1, <1>9, <3>1, RecordStep
      <4>2. BufferInv'
        BY <2>2, <3>1 DEF BufferInv
      <4> QED
        BY <4>1, <4>2
    <3>2. CASE shell # "record"
      <4>1. RecordInv'
        BY <2>2, <3>2 DEF RecordInv
      <4>2. BufferInv'
        BY <1>1, <2>2, <3>2, BufferKept
      <4> QED
        BY <4>1, <4>2
    <3> QED
      BY <3>1, <3>2
  <2> QED
    BY <1>1, <2>1, <2>2, <2>3, DiskStays DEF ReplayInv
<1>10. CASE RecordDone
  <2>1. KernelInv' /\ UNCHANGED <<lost, mark, promise>> /\ shell' = "post"
    BY <1>1, <1>10, RecordDoneKernel
  <2>2. WholeBuffer(trace) /\ BufferInv' /\ trace_stop(trace)
    BY <1>1, <1>10, StopWhole DEF RecordDone
  <2>3. StoreInv' /\ ListExact'
    BY <1>1, <1>2, <2>1, <2>2, StoreGrows, ListGrows
  <2>4. RecordInv'
    BY <2>1 DEF RecordInv
  <2>5. trace'.failed = trace.failed
    BY <1>2, <2>1, <2>2, StopSound
  <2>6. MatchInv'
    BY <1>1, <2>1, <2>5, MatchStays
  <2> QED
    BY <2>1, <2>2, <2>3, <2>4, <2>6 DEF ReplayInv
<1>11. CASE ReplayDone
  <2>1. /\ KernelInv' /\ UNCHANGED <<mark, store, sessions>> /\ shell = "replay" /\ shell' = "post"
        /\ trace'.recording = trace.recording /\ trace'.profile = trace.profile
        /\ trace'.buffer = trace.buffer /\ trace'.dropped = trace.dropped
    BY <1>1, <1>11, ReplayDoneKernel
  <2>2. RecordInv'
    BY <2>1 DEF RecordInv
  <2>3. BufferInv'
    BY <1>1, <2>1, BufferStays
  <2>4. MatchInv'
    BY <1>1, <1>11, MatchEnds
  <2> QED
    BY <1>1, <2>1, <2>2, <2>3, <2>4, DiskStays DEF ReplayInv
<1>12. ASSUME NEW key \in BOOLEAN, NEW n \in 0 .. 2 * MaxPackets, Interrupt(key, n)
       PROVE  ReplayInv'
  <2>1. /\ KernelInv' /\ Kept(trace, trace') /\ UNCHANGED <<shell, store, sessions>>
        /\ (mark'.clean => mark.clean) /\ mark'.used = mark.used
    BY <1>1, <1>12, InterruptKernel
  <2>2. RecordInv'
    BY <1>1, <1>12, RecordInterrupted
  <2>3. BufferInv'
    <3>1. CASE shell = "record"
      BY <2>1, <3>1 DEF BufferInv
    <3>2. CASE shell # "record"
      BY <1>1, <2>1, <3>2, BufferStays DEF Kept
    <3> QED
      BY <3>1, <3>2
  <2>4. MatchInv'
    BY <1>1, <1>12, MatchInterrupted
  <2> QED
    BY <1>1, <2>1, <2>2, <2>3, <2>4, DiskStays DEF ReplayInv
<1>13. CASE UNCHANGED vars
  BY <1>1, <1>13 DEF vars, ReplayInv, KernelInv, TypeOK, RecordInv, BufferInv, StoreInv,
                     MatchInv, ListExact, Following, Now
<1> QED
  BY <1>3, <1>4, <1>5, <1>6, <1>7, <1>8, <1>9, <1>10, <1>11, <1>12, <1>13
     DEF Next, Command, Cpu, Plain, TaskStep

-----------------------------------------------------------------------------

\* The state is well formed, the saved session of a profile recorded alone,
\* with no key pressed and no packet sent by the timer meanwhile, starts and
\* ends in the shell, and the session list names for each start the
\* newest session saved after it: trace_record, trace_stop, sched_yield.
THEOREM StoreIsExact == Spec => []StoreExact
<1>1. ReplayInv => StoreExact
  <2> SUFFICES ASSUME ReplayInv PROVE StoreExact
    OBVIOUS
  <2>1. KernelInv /\ StoreInv /\ ListExact
    BY DEF ReplayInv
  <2>2. TypeOK /\ DiskSound
    BY <2>1, KernelParts DEF KernelInv
  <2>3. ASSUME NEW id \in DOMAIN store, store[id].mark.clean
        PROVE  LET s == store[id]
               IN /\ Len(s.events) >= 2
                  /\ s.events[1].d0 = 0 /\ s.events[1].type = "sched"
                  /\ s.events[Len(s.events)].d1 = 0 /\ s.events[Len(s.events)].type = "sched"
    <3> DEFINE p == store[id].profile
               u == store[id].mark.used
    <3>1. p \in Workloads /\ Fits(p) /\ RanTo(p, u, store[id].events)
      BY <2>1, <2>3 DEF StoreInv
    <3>2. u \in Nat
      <4>1. store[id] \in Session
        BY <2>2 DEF DiskSound
      <4> QED
        BY <4>1 DEF Session, MarkRecord
    <3>3. PICK f \in Config : Ran(p, u, f) /\ Done(f) /\ f.log = store[id].events
      BY <3>1 DEF RanTo
    <3>4. Good(f, p) /\ f.cur = 0 /\ f.active = 0
      BY <3>1, <3>2, <3>3, RanGood DEF Done
    <3> HIDE DEF p, u
    <3> QED
      BY <3>3, <3>4 DEF Good
  <2>4. SessionsWhole
    BY <2>3 DEF SessionsWhole
  <2> QED
    BY <2>1, <2>2, <2>4 DEF StoreExact
<1> QED
  BY <1>1, ReplayInit, ReplayStep, PTL DEF Spec

\* A recording made alone, with no key pressed and no packet sent by the timer
\* meanwhile, and replayed alone meets the same events in the same order to the
\* end, whatever other timer interrupts come: the comparisons of trace_record
\* and trace_replay_end, and the choices of sched_yield.
THEOREM ReplayMatches == Spec => []ReplayFaithful
<1>1. ReplayInv => ReplayFaithful
  BY DEF ReplayInv, MatchInv, ReplayFaithful
<1> QED
  BY <1>1, ReplayInit, ReplayStep, PTL DEF Spec

\* The choice trace_replay_expected_next_task forces on sched_yield in such a
\* replay is the one find_next_ready would make.
THEOREM ForcedChoiceIsFair == Spec => []ForcedIsRoundRobin
<1>1. ReplayInv => ForcedIsRoundRobin
  <2> SUFFICES ASSUME ReplayInv, promise = "match", AtYield, Forced(trace)
               PROVE  Next_task(trace, tasks) = find_next_ready(tasks, current_task)
    BY DEF ForcedIsRoundRobin
  <2> DEFINE c == current_task
             ts == YieldTable(tasks, c)
  <2>1. KernelInv /\ MatchInv
    BY DEF ReplayInv
  <2>2. shell = "replay"
    BY <2>1, KernelParts DEF Forced, FlowSound
  <2>3. PICK p \in Workloads, u \in Nat : Following(p, u)
    BY <2>1, <2>2 DEF MatchInv
  <2>4. Yields(tasks, c)
    BY DEF Yields, AtYield
  <2>5. Next_task(trace, ts) = find_next_ready(ts, c)
    BY <2>1, <2>3, <2>4, FollowChoice
  <2>6. Next_task(trace, tasks) = Next_task(trace, ts)
    BY DEF Next_task
  <2>7. ReadySlots(ts) = ReadySlots(tasks)
    <3>1. CASE c = 0
      BY <3>1 DEF YieldTable
    <3>2. CASE c # 0
      <4>1. tasks \in [Slot -> TaskRecord] /\ c \in Slot
        BY <2>1, KernelParts DEF TableSound, Shaped
      <4>2. ts = [tasks EXCEPT ![c] = Counted(tasks[c])]
        BY <3>2, <4>1, TableForms DEF YieldTable
      <4>3. Counted(tasks[c]).state = tasks[c].state /\ Counted(tasks[c]).pid = tasks[c].pid
        BY <4>1, TaskForms
      <4> HIDE DEF ts
      <4>4. \A i \in Slot : ts[i].state = tasks[i].state /\ ts[i].pid = tasks[i].pid
        BY <4>1, <4>2, <4>3
      <4> QED
        BY <4>4 DEF ReadySlots, task_visible
    <3> QED
      BY <3>1, <3>2
  <2>8. find_next_ready(ts, c) = find_next_ready(tasks, c)
    BY <2>7, SameChoice
  <2> QED
    BY <2>5, <2>6, <2>8
<1> QED
  BY <1>1, ReplayInit, ReplayStep, PTL DEF Spec
=============================================================================

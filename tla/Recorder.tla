------------------------------ MODULE Recorder ------------------------------
(***************************************************************************)
(* trace_record and trace_start_profile of kernel/trace.c as the processor *)
(* runs them: the kernel is built without optimisation, so every static    *)
(* variable is loaded and stored where the text names it, and an interrupt *)
(* may come between a load and the store that follows it.  Handlers run    *)
(* with interrupts off, so a trace_record inside one is a single step; and *)
(* tasks only change at sched_yield, so one task at a time is inside.      *)
(*                                                                         *)
(* An event in the buffer is its two parts: [id, body], stored one after   *)
(* the other, with the number of the call as its body.  The comparison     *)
(* with a recording, the other half of trace_record, is in Replay.         *)
(***************************************************************************)
EXTENDS Integers, Sequences, FiniteSets

CONSTANTS Cap,         \* TRACE_BUFFER_CAP
          MaxCalls,    \* bound: events made before a task, timer or key event
          MaxStarts    \* bound: recordings started

ASSUME RecorderAssumption == Cap \in Nat \ {0} /\ {MaxCalls, MaxStarts} \subseteq Nat

VARIABLES
  trace,   \* [recording, profile, next_event_id, count, buffer, events, dropped, peak]
  task,    \* the code a task is in: [pc, reg, id, n], reg the value just loaded
  hist     \* history of this recording, and the calls and starts so far

recorderVars == <<trace, task, hist>>

Nothing == [id |-> 0, body |-> 0]
Slots == 0 .. Cap        \* buffer[Cap] is the first event of replay_buffer

RecorderInit ==
  /\ trace = [recording |-> FALSE, profile |-> FALSE, next_event_id |-> 1, count |-> 0,
              buffer |-> [i \in Slots |-> Nothing], events |-> 0, dropped |-> 0, peak |-> 0]
  /\ task = [pc |-> "idle", reg |-> 0, id |-> 0, n |-> 0]
  /\ hist = [log |-> <<>>, irqs |-> {}, raced |-> 0, early |-> 0, dropped |-> 0,
             events |-> 0, calls |-> 0, starts |-> 0]

-----------------------------------------------------------------------------
Full(t) == t.count >= Cap

\* Mutant: interrupts are kept whatever is being recorded.
Filtered_never(t, type) == FALSE

\* A profile's recording leaves interrupts out.
Filtered(t, type) == t.recording /\ t.profile /\ type = "irq"

\* Mutant: an event that finds the buffer full is not counted.
Dropped_silently(n) == n

Dropped(n) == n + 1

Peak(t) == IF t.count > t.peak THEN t.count ELSE t.peak

\* trace_record from start to end, as an interrupt runs it.
Recorded(t, type, n) ==
  IF Filtered(t, type) THEN t
  ELSE LET u == [t EXCEPT !.next_event_id = @ + 1]
       IN IF ~t.recording THEN u
          ELSE IF Full(t) THEN [u EXCEPT !.dropped = Dropped(@)]
          ELSE LET v == [u EXCEPT !.buffer[t.count] = [id |-> t.next_event_id, body |-> n],
                                  !.count = @ + 1, !.events = @ + 1]
               IN [v EXCEPT !.peak = Peak(v)]

\* A task is between the load of next_event_id and its last store.
Inside == task.pc \notin {"idle", "start2", "start3", "start4"}
Starting == task.pc \in {"start2", "start3", "start4"}

\* The history of an event that the recorder accepts.
Logged(h, n, id, type) ==
  [h EXCEPT !.log = Append(@, [id |-> id, body |-> n]),
            !.irqs = IF type = "irq" THEN @ \cup {n} ELSE @]

\* One trace_record call inside an interrupt, with its history.
Noted(r, type) ==
  LET n == r.h.calls + 1
      kept == r.t.recording /\ ~Filtered(r.t, type)
      h == [r.h EXCEPT !.calls = n]
  IN [t |-> Recorded(r.t, type, n),
      h |-> IF ~kept THEN h
            ELSE LET k == Logged(h, n, r.t.next_event_id, type)
                 IN IF Inside THEN [k EXCEPT !.raced = @ + 1]
                    ELSE IF Starting THEN [k EXCEPT !.early = @ + 1] ELSE k]

\* An interrupt that records events of these types: isr_dispatch the interrupt
\* itself, then its handler.
Interrupt(types) ==
  LET after[i \in 0 .. Len(types)] ==
        IF i = 0 THEN [t |-> trace, h |-> hist] ELSE Noted(after[i - 1], types[i])
      last == after[Len(types)]
  IN trace' = last.t /\ hist' = last.h /\ UNCHANGED task

-----------------------------------------------------------------------------
(* trace_record in a task, one load or store at a time.                     *)

Goto(pc) == task' = [task EXCEPT !.pc = pc]
Load(pc, value) == task' = [task EXCEPT !.pc = pc, !.reg = value]

Call ==
  /\ task.pc = "idle"
  /\ task' = [pc |-> "id", reg |-> trace.next_event_id, id |-> 0, n |-> hist.calls + 1]
  /\ hist' = [hist EXCEPT !.calls = @ + 1]
  /\ UNCHANGED trace

TakeId ==
  /\ task.pc = "id"
  /\ trace' = [trace EXCEPT !.next_event_id = task.reg + 1]
  /\ task' = [task EXCEPT !.pc = "check", !.id = task.reg]
  /\ UNCHANGED hist

Check ==
  /\ task.pc = "check"
  /\ IF ~trace.recording THEN Goto("idle") /\ UNCHANGED hist
     ELSE /\ IF Full(trace) THEN Load("drop", trace.dropped) ELSE Goto("slot")
          /\ hist' = Logged(hist, task.n, task.id, "task")
  /\ UNCHANGED trace

Drop ==
  /\ task.pc = "drop"
  /\ trace' = [trace EXCEPT !.dropped = Dropped(task.reg)]
  /\ Goto("idle")
  /\ UNCHANGED hist

Slot == task.pc = "slot" /\ Load("store", trace.count) /\ UNCHANGED <<trace, hist>>

StoreId ==
  /\ task.pc = "store"
  /\ trace' = [trace EXCEPT !.buffer[task.reg].id = task.id]
  /\ Goto("body")
  /\ UNCHANGED hist

StoreBody ==
  /\ task.pc = "body"
  /\ trace' = [trace EXCEPT !.buffer[task.reg].body = task.n]
  /\ Goto("count")
  /\ UNCHANGED hist

Count == task.pc = "count" /\ Load("counted", trace.count) /\ UNCHANGED <<trace, hist>>

StoreCount ==
  /\ task.pc = "counted"
  /\ trace' = LET t == [trace EXCEPT !.count = task.reg + 1] IN [t EXCEPT !.peak = Peak(t)]
  /\ Goto("stats")
  /\ UNCHANGED hist

Stats == task.pc = "stats" /\ Load("events", trace.events) /\ UNCHANGED <<trace, hist>>

StoreStats ==
  /\ task.pc = "events"
  /\ trace' = [trace EXCEPT !.events = task.reg + 1]
  /\ Goto("idle")
  /\ UNCHANGED hist

-----------------------------------------------------------------------------
(* trace_start_profile: the profile is the last thing it stores.            *)

Start(profile) ==
  /\ task.pc = "idle"
  /\ trace' = [trace EXCEPT !.recording = TRUE]
  /\ task' = [task EXCEPT !.pc = "start2", !.n = IF profile THEN 1 ELSE 0]
  /\ hist' = [hist EXCEPT !.starts = @ + 1]

\* Mutant: the count of the last recording is kept.
Emptied_not(n) == n

Emptied(n) == 0

StartEmpty ==
  /\ task.pc = "start2"
  /\ trace' = [trace EXCEPT !.count = Emptied(@)]
  /\ Goto("start3")
  /\ hist' = [hist EXCEPT !.log = <<>>, !.irqs = {}, !.raced = 0, !.early = 0,
                          !.dropped = trace.dropped, !.events = trace.events]

StartPeak ==
  /\ task.pc = "start3"
  /\ trace' = [trace EXCEPT !.peak = 0]
  /\ Goto("start4")
  /\ UNCHANGED hist

StartProfile ==
  /\ task.pc = "start4"
  /\ trace' = [trace EXCEPT !.profile = (task.n = 1)]
  /\ Goto("idle")
  /\ UNCHANGED hist

\* trace_stop: recording is cleared first, so nothing moves under the rest.
Stop ==
  /\ task.pc = "idle" /\ trace.recording
  /\ trace' = [trace EXCEPT !.recording = FALSE]
  /\ UNCHANGED <<task, hist>>

\* What a task goes on with, and trace stop.
TaskStep ==
  \/ TakeId \/ Check \/ Drop \/ Slot \/ StoreId \/ StoreBody
  \/ Count \/ StoreCount \/ Stats \/ StoreStats
  \/ StartEmpty \/ StartPeak \/ StartProfile \/ Stop

-----------------------------------------------------------------------------
\* Types; even a recording that was disturbed overruns the buffer by at most
\* one event, which is then replay_buffer[0].
RecorderTypeOK ==
  /\ {trace.next_event_id, trace.events, trace.dropped, trace.peak} \subseteq Nat
  /\ trace.count \in 0 .. Cap + 1
  /\ DOMAIN trace.buffer = Slots

Made == Len(hist.log)
Drops == trace.dropped - hist.dropped
Settled == task.pc = "idle" /\ hist.starts > 0

\* The state is well formed and, unless an interrupt records in the middle of
\* a task's trace_record, a recording is exact: the buffer holds the first
\* events in the order they were made, whole and with increasing ids, those
\* beyond the capacity are counted as dropped, and the statistics agree.
RecordingExact ==
  /\ RecorderTypeOK
  /\ Settled /\ hist.raced = 0 =>
       /\ trace.count <= Cap /\ trace.count <= Made
       /\ \A i \in 0 .. trace.count - 1 : trace.buffer[i] = hist.log[i + 1]
       /\ \A i, j \in 1 .. Made : i < j => hist.log[i].id < hist.log[j].id
       /\ Made = trace.count + Drops
       /\ trace.events - hist.events = trace.count

\* However many events interrupts do record inside trace_record, each costs at
\* most one event: none is counted twice, and no more are missing than that.
LossBounded ==
  Settled => LET missing == Made - trace.count - Drops
             IN missing >= 0 /\ missing <= hist.raced

\* A profile's recording, the kind that demo replay runs again, holds no event
\* of an interrupt's own type, unless one came while the recording was being
\* started: the profile that filters them is stored last.  The events of a key
\* and of the packets a timer interrupt sends are not filtered.
ProfileFiltered ==
  Settled /\ trace.profile /\ hist.early = 0 /\ hist.raced = 0 =>
    \A i \in 0 .. trace.count - 1 : trace.buffer[i].body \notin hist.irqs
=============================================================================

----------------------------- MODULE IsrProofs ------------------------------
(***************************************************************************)
(* Proofs about Isr: what a recording holds however the interrupts fall    *)
(* between the loads and stores of trace_record, and what mouse_init       *)
(* leaves behind, for every buffer size and number of events.              *)
(***************************************************************************)
EXTENDS Isr, Lemmas

-----------------------------------------------------------------------------
(* The recorder's inductive invariant.  Its parts speak of the recorder t,  *)
(* the task k inside trace_record and the history h of the recording.       *)

Event == [id : Nat, body : Nat]
TraceRecord == [recording : BOOLEAN, profile : BOOLEAN, next_event_id : Nat,
                count : 0 .. Cap + 1, buffer : [Slots -> Event], events : Nat,
                dropped : Nat, peak : Nat]
Opening == {"idle", "id", "check"}
Placing == {"slot", "store", "body", "count"}
Closing == {"stats", "events"}
TaskRecord == [pc : Opening \cup Placing \cup Closing
                      \cup {"drop", "counted", "start2", "start3", "start4"},
               reg : Nat, id : Nat, n : Nat]
HistRecord == [log : Seq(Event), irqs : SUBSET Nat, raced : Nat, early : Nat,
               dropped : Nat, events : Nat, calls : Nat, starts : Nat]

\* The indices in use are inside the buffer, its overrun by one included.
WellFormed(t, k, h) ==
  /\ t \in TraceRecord /\ k \in TaskRecord /\ h \in HistRecord
  /\ k.pc \in Placing \cup {"counted"} => t.count <= Cap
  /\ k.pc \in {"store", "body", "counted"} => k.reg <= Cap

\* Events that are neither in the buffer nor counted as dropped.
Missing(t, h) == Len(h.log) - t.count - (t.dropped - h.dropped)

\* How many may be missing: the one the task is placing, and one for each
\* interrupt that recorded between a load and its store.
Bounded(t, k, h) ==
  /\ k.pc \in Opening \cup Closing \cup {"start3", "start4"} =>
       Missing(t, h) >= 0 /\ Missing(t, h) <= h.raced
  /\ k.pc \in Placing => Missing(t, h) >= 1 /\ Missing(t, h) <= h.raced + 1
  /\ k.pc = "drop" => /\ Missing(t, h) >= 1 /\ k.reg <= t.dropped
                      /\ Missing(t, h) + (t.dropped - k.reg) <= h.raced + 1
  /\ k.pc = "counted" => /\ Missing(t, h) >= 1 /\ k.reg <= t.count
                         /\ Missing(t, h) + (t.count - k.reg) <= h.raced + 1

\* The buffer, the ids and the statistics of a recording that no interrupt
\* disturbed, and how far the task has got with its event.
Held(t, h) ==
  /\ t.count <= Cap /\ t.count <= Len(h.log)
  /\ \A i \in 0 .. t.count - 1 : t.buffer[i] = h.log[i + 1]
  /\ t.count < Cap => t.dropped = h.dropped
  /\ t.dropped >= h.dropped

Ordered(t, h) ==
  /\ \A i, j \in 1 .. Len(h.log) : i < j => h.log[i].id < h.log[j].id
  /\ t.recording => \A i \in 1 .. Len(h.log) : h.log[i].id < t.next_event_id

AtWork(t, k, h) ==
  /\ k.pc = "id" /\ t.recording => k.reg = t.next_event_id
  /\ k.pc = "check" /\ t.recording =>
       k.id < t.next_event_id /\ \A i \in 1 .. Len(h.log) : h.log[i].id < k.id
  /\ k.pc = "drop" => t.count = Cap
  /\ k.pc \in Placing \cup {"counted"} =>
       t.count < Cap /\ h.log[Len(h.log)] = [id |-> k.id, body |-> k.n]
  /\ k.pc \in {"store", "body"} => k.reg = t.count
  /\ k.pc = "body" => t.buffer[t.count].id = k.id
  /\ k.pc \in {"count", "counted"} => t.buffer[t.count] = h.log[Len(h.log)]
  /\ k.pc = "events" => k.reg = t.events

Counted(t, k, h) ==
  t.events - h.events = IF k.pc \in Closing THEN t.count - 1 ELSE t.count

Undisturbed(t, k, h) ==
  h.raced = 0 /\ k.pc # "start2" =>
    Held(t, h) /\ Ordered(t, h) /\ AtWork(t, k, h) /\ Counted(t, k, h)

\* No interrupt is in a profile's recording.
NoIrqs(t, k, h) ==
  h.early = 0 /\ k.pc # "start2" /\ (t.profile \/ k.pc \in {"start3", "start4"}) => h.irqs = {}

RecInv(t, k, h) ==
  WellFormed(t, k, h) /\ Bounded(t, k, h) /\ Undisturbed(t, k, h) /\ NoIrqs(t, k, h)

RecorderInv == RecInv(trace, task, hist)

-----------------------------------------------------------------------------
(* An event recorded by an interrupt.                                       *)

\* The history takes note of event e of the given type.
HistoryOf(h, e, type, g) ==
  /\ g.log = Append(h.log, e)
  /\ g.irqs = IF type = "irq" THEN h.irqs \cup {e.body} ELSE h.irqs
  /\ g.raced = h.raced + (IF Inside THEN 1 ELSE 0)
  /\ g.early = h.early + (IF Starting THEN 1 ELSE 0)

\* What stays the same whatever becomes of the event.
Untouched(t, h, u, g) ==
  /\ u \in TraceRecord /\ g \in HistRecord
  /\ u.recording = t.recording /\ u.profile = t.profile
  /\ g.dropped = h.dropped /\ g.events = h.events

\* An event that is not being recorded, or is filtered.
Ignored(t, h, u, g) ==
  /\ g.log = h.log /\ g.irqs = h.irqs /\ g.raced = h.raced /\ g.early = h.early
  /\ u.count = t.count /\ u.buffer = t.buffer /\ u.events = t.events /\ u.dropped = t.dropped
  /\ t.recording => u.next_event_id = t.next_event_id

\* Event e, dropped or stored.
Taken(t, h, e, type, u, g) ==
  /\ HistoryOf(h, e, type, g) /\ e.id = t.next_event_id
  /\ t.recording /\ ~(t.profile /\ type = "irq")
  /\ u.next_event_id = t.next_event_id + 1
  /\ \/ /\ t.count >= Cap /\ u.dropped = t.dropped + 1
        /\ u.count = t.count /\ u.buffer = t.buffer /\ u.events = t.events
     \/ /\ t.count < Cap /\ u.dropped = t.dropped
        /\ u.count = t.count + 1 /\ u.events = t.events + 1
        /\ u.buffer = [t.buffer EXCEPT ![t.count] = e]

LEMMA NotedFields ==
  ASSUME NEW t \in TraceRecord, NEW h \in HistRecord, NEW type,
         NEW u, NEW g, u = Noted([t |-> t, h |-> h], type).t, g = Noted([t |-> t, h |-> h], type).h
  PROVE  /\ Untouched(t, h, u, g)
         /\ Ignored(t, h, u, g) \/ \E e \in Event : Taken(t, h, e, type, u, g)
<1> DEFINE n == h.calls + 1
           e == [id |-> t.next_event_id, body |-> n]
           h1 == [h EXCEPT !.calls = n]
           w == t.next_event_id + 1
           f == Filtered(t, type)
           k == Logged(h1, n, t.next_event_id, type)
           h2 == IF Inside THEN [k EXCEPT !.raced = @ + 1]
                 ELSE IF Starting THEN [k EXCEPT !.early = @ + 1] ELSE k
<1>1. /\ u = Recorded(t, type, n)
      /\ g = IF ~(t.recording /\ ~f) THEN h1 ELSE h2
  BY DEF Noted
<1>2. /\ n \in Nat /\ w \in Nat /\ e \in Event /\ f \in BOOLEAN /\ Cap \in Nat \ {0}
      /\ e.id = t.next_event_id /\ e.body = n
  BY RecorderAssumption, SMTT(30) DEF HistRecord, TraceRecord, Event, Filtered
<1>3. f <=> (t.recording /\ t.profile /\ type = "irq")
  BY DEF Filtered
<1>4. h1 \in HistRecord /\ h1.log = h.log /\ h1.irqs = h.irqs /\ h1.raced = h.raced
      /\ h1.early = h.early /\ h1.dropped = h.dropped /\ h1.events = h.events
  <2> HIDE DEF n
  <2> QED
    BY <1>2 DEF HistRecord
<1>5. /\ h2 \in HistRecord /\ h2.dropped = h.dropped /\ h2.events = h.events
      /\ HistoryOf(h, e, type, h2)
  <2> DEFINE l == Append(h.log, e)
             q == IF type = "irq" THEN h.irqs \cup {n} ELSE h.irqs
             r1 == h.raced + 1
             e1 == h.early + 1
  <2>1. l \in Seq(Event) /\ q \in SUBSET Nat /\ r1 \in Nat /\ e1 \in Nat
        /\ h.raced \in Nat /\ h.early \in Nat
    BY <1>2, SMTT(30) DEF HistRecord
  <2>2. k = [h1 EXCEPT !.log = l, !.irqs = q]
    BY <1>4 DEF Logged, HistRecord
  <2>3. /\ Inside => h2 = [h1 EXCEPT !.log = l, !.irqs = q, !.raced = r1]
        /\ ~Inside /\ Starting => h2 = [h1 EXCEPT !.log = l, !.irqs = q, !.early = e1]
        /\ ~Inside /\ ~Starting => h2 = [h1 EXCEPT !.log = l, !.irqs = q]
    <3> HIDE DEF l, q, h1, k, n, e
    <3>1. k.raced = h.raced /\ k.early = h.early
      BY <1>4, <2>2 DEF HistRecord
    <3> QED
      BY <1>4, <2>2, <3>1 DEF HistRecord
  <2>4. ~(Inside /\ Starting)
    BY DEF Inside, Starting
  <2>5. h.raced + 0 = h.raced /\ h.early + 0 = h.early
    BY <2>1
  <2> HIDE DEF l, q, h1, k, n, e, h2, r1, e1
  <2>6. /\ h2 \in HistRecord /\ h2.dropped = h.dropped /\ h2.events = h.events
        /\ h2.log = l /\ h2.irqs = q
        /\ h2.raced = IF Inside THEN r1 ELSE h.raced
        /\ h2.early = IF Starting THEN e1 ELSE h.early
    <3>1. CASE Inside
      <4>1. h2 = [h1 EXCEPT !.log = l, !.irqs = q, !.raced = r1] /\ ~Starting
        BY <2>3, <2>4, <3>1
      <4> QED
        BY <1>4, <2>1, <3>1, <4>1 DEF HistRecord
    <3>2. CASE ~Inside /\ Starting
      <4>1. h2 = [h1 EXCEPT !.log = l, !.irqs = q, !.early = e1]
        BY <2>3, <3>2
      <4> QED
        BY <1>4, <2>1, <3>2, <4>1 DEF HistRecord
    <3>3. CASE ~Inside /\ ~Starting
      <4>1. h2 = [h1 EXCEPT !.log = l, !.irqs = q]
        BY <2>3, <3>3
      <4> QED
        BY <1>4, <2>1, <3>3, <4>1 DEF HistRecord
    <3> QED
      BY <3>1, <3>2, <3>3
  <2> QED
    BY <1>2, <2>5, <2>6 DEF HistoryOf, l, q, r1, e1
<1>6. CASE ~(t.recording /\ ~f)
  <2>1. u = t \/ (~t.recording /\ u = [t EXCEPT !.next_event_id = w])
    BY <1>1, <1>6 DEF Recorded
  <2>2. g = h1
    BY <1>1, <1>6
  <2> HIDE DEF h1, w, n, f
  <2>3. /\ u \in TraceRecord /\ u.recording = t.recording /\ u.profile = t.profile
        /\ u.count = t.count /\ u.buffer = t.buffer /\ u.events = t.events /\ u.dropped = t.dropped
        /\ t.recording => u.next_event_id = t.next_event_id
    BY <1>2, <2>1 DEF TraceRecord
  <2> QED
    BY <1>4, <2>2, <2>3 DEF Untouched, Ignored
<1>7. CASE t.recording /\ ~f
  <2>1. g = h2
    BY <1>1, <1>7
  <2>2. CASE t.count >= Cap
    <3> DEFINE d == t.dropped + 1
    <3>1. u = [t EXCEPT !.next_event_id = w, !.dropped = d]
      BY <1>1, <1>7, <2>2 DEF Recorded, Full, Dropped, TraceRecord
    <3>2. d \in Nat
      BY DEF TraceRecord
    <3> HIDE DEF w, d
    <3>3. /\ u \in TraceRecord /\ u.recording = t.recording /\ u.profile = t.profile
          /\ u.count = t.count /\ u.buffer = t.buffer /\ u.events = t.events /\ u.dropped = d
          /\ u.next_event_id = w
      BY <1>2, <3>1, <3>2 DEF TraceRecord
    <3>4. Untouched(t, h, u, g)
      BY <1>5, <2>1, <3>3 DEF Untouched
    <3> QED
      BY <1>2, <1>3, <1>5, <1>7, <2>1, <2>2, <3>3, <3>4 DEF Taken, w, d
  <2>3. CASE ~(t.count >= Cap)
    <3> DEFINE c == t.count + 1
               v == t.events + 1
               b == [t.buffer EXCEPT ![t.count] = e]
    <3>1. t.count < Cap /\ c \in 0 .. Cap + 1 /\ v \in Nat /\ t.count \in Slots
      BY <1>2, <2>3 DEF TraceRecord, Slots
    <3>2. b \in [Slots -> Event]
      BY <1>2, <3>1 DEF TraceRecord
    <3>3. \E p \in Nat : u = [t EXCEPT !.next_event_id = w, !.buffer = b, !.count = c,
                                       !.events = v, !.peak = p]
      <4> DEFINE v1 == [t EXCEPT !.next_event_id = w, !.buffer = b, !.count = c, !.events = v]
                 v2 == [[t EXCEPT !.next_event_id = @ + 1] EXCEPT
                         !.buffer[t.count] = [id |-> t.next_event_id, body |-> n],
                         !.count = @ + 1, !.events = @ + 1]
      <4>1. u = [v2 EXCEPT !.peak = Peak(v2)]
        BY <1>1, <1>7, <2>3 DEF Recorded, Full
      <4>2. v2 = v1
        BY DEF TraceRecord
      <4> HIDE DEF b, c, v, w, v2
      <4>3. Peak(v1) \in Nat
        BY <3>1 DEF Peak, TraceRecord
      <4>4. u = [t EXCEPT !.next_event_id = w, !.buffer = b, !.count = c,
                          !.events = v, !.peak = Peak(v1)]
        BY <4>1, <4>2 DEF TraceRecord
      <4> QED
        BY <4>3, <4>4
    <3> HIDE DEF w, c, v, b
    <3>4. /\ u \in TraceRecord /\ u.recording = t.recording /\ u.profile = t.profile
          /\ u.count = c /\ u.buffer = b /\ u.events = v /\ u.dropped = t.dropped
          /\ u.next_event_id = w
      BY <1>2, <3>1, <3>2, <3>3, ZenonT(30) DEF TraceRecord
    <3>5. Untouched(t, h, u, g)
      BY <1>5, <2>1, <3>4 DEF Untouched
    <3>6. /\ e \in Event /\ e.id = t.next_event_id /\ HistoryOf(h, e, type, g)
          /\ t.recording /\ ~(t.profile /\ type = "irq")
      BY <1>2, <1>3, <1>5, <1>7, <2>1
    <3>7. /\ u.next_event_id = t.next_event_id + 1 /\ u.dropped = t.dropped
          /\ u.count = t.count + 1 /\ u.events = t.events + 1
          /\ u.buffer = [t.buffer EXCEPT ![t.count] = e]
      BY <3>4 DEF w, c, v, b
    <3>8. Taken(t, h, e, type, u, g)
      <4> HIDE DEF e, f
      <4> QED
        BY <3>1, <3>6, <3>7, Zenon DEF Taken
    <3> QED
      BY <3>5, <3>6, <3>8, Zenon
  <2> QED
    BY <2>2, <2>3
<1> QED
  BY <1>2, <1>6, <1>7

\* The numbers of a well-formed recorder and its history.
LEMMA RecNumbers ==
  ASSUME NEW t \in TraceRecord, NEW h \in HistRecord
  PROVE  /\ t.count \in 0 .. Cap + 1 /\ t.count \in Nat /\ t.events \in Nat /\ t.dropped \in Nat
         /\ t.next_event_id \in Nat /\ t.recording \in BOOLEAN /\ t.profile \in BOOLEAN
         /\ t.buffer \in [Slots -> Event]
         /\ h.log \in Seq(Event) /\ Len(h.log) \in Nat
         /\ h.raced \in Nat /\ h.early \in Nat /\ h.dropped \in Nat /\ h.events \in Nat
         /\ h.calls \in Nat /\ h.irqs \in SUBSET Nat /\ Cap \in Nat \ {0}
  BY RecorderAssumption DEF TraceRecord, HistRecord

\* An event at the end of the log.
LEMMA LogGrows ==
  ASSUME NEW s \in Seq(Event), NEW e \in Event
  PROVE  /\ Append(s, e) \in Seq(Event) /\ Len(Append(s, e)) = Len(s) + 1
         /\ Append(s, e)[Len(s) + 1] = e
         /\ \A i \in 1 .. Len(s) : Append(s, e)[i] = s[i]
  OBVIOUS

\* One event more, with a higher id than those before it.
LEMMA OrderGrows ==
  ASSUME NEW s \in Seq(Event), NEW e \in Event,
         \A i, j \in 1 .. Len(s) : i < j => s[i].id < s[j].id,
         \A i \in 1 .. Len(s) : s[i].id < e.id
  PROVE  /\ \A i, j \in 1 .. Len(Append(s, e)) : i < j => Append(s, e)[i].id < Append(s, e)[j].id
         /\ \A m \in Nat : e.id < m => \A i \in 1 .. Len(Append(s, e)) : Append(s, e)[i].id < m
<1> DEFINE a == Append(s, e)
           l == Len(s)
<1>1. /\ Len(a) = l + 1 /\ a[l + 1] = e /\ \A i \in 1 .. l : a[i] = s[i]
      /\ l \in Nat /\ e.id \in Nat /\ \A i \in 1 .. l : s[i].id \in Nat
  <2>1. \A i \in 1 .. l : s[i] \in Event
    OBVIOUS
  <2> QED
    BY <2>1, LogGrows DEF Event
<1>2. \A i, j \in 1 .. l : i < j => s[i].id < s[j].id
  OBVIOUS
<1>3. \A i \in 1 .. l : s[i].id < e.id
  OBVIOUS
<1> HIDE DEF a, l
<1>4. \A i \in 1 .. l + 1 : i \in 1 .. l \/ i = l + 1
  BY <1>1
<1>5. ASSUME NEW i \in 1 .. l + 1, NEW j \in 1 .. l + 1, i < j
      PROVE  a[i].id < a[j].id
  <2>1. i \in 1 .. l
    BY <1>1, <1>5
  <2> QED
    BY <1>1, <1>2, <1>3, <1>4, <1>5, <2>1
<1>6. ASSUME NEW m \in Nat, e.id < m, NEW i \in 1 .. l + 1
      PROVE  a[i].id < m
  <2>1. CASE i = l + 1
    BY <1>1, <1>6, <2>1
  <2>2. CASE i \in 1 .. l
    BY <1>1, <1>3, <1>6, <2>2
  <2> QED
    BY <1>4, <2>1, <2>2
<1> QED
  BY <1>1, <1>5, <1>6 DEF a

\* An interrupt keeps the invariant wherever the task stands.
LEMMA NotedKeeps ==
  ASSUME NEW t, NEW h, RecInv(t, task, h), NEW type,
         NEW u, NEW g, u = Noted([t |-> t, h |-> h], type).t, g = Noted([t |-> t, h |-> h], type).h
  PROVE  RecInv(u, task, g)
<1>1. t \in TraceRecord /\ h \in HistRecord /\ task \in TaskRecord
  BY DEF RecInv, WellFormed
<1>2. u \in TraceRecord /\ g \in HistRecord /\ u.recording = t.recording /\ u.profile = t.profile
      /\ g.dropped = h.dropped /\ g.events = h.events
  BY <1>1, NotedFields DEF Untouched
<1>3. /\ t.count \in Nat /\ t.events \in Nat /\ t.dropped \in Nat /\ h.raced \in Nat
      /\ h.early \in Nat /\ h.dropped \in Nat /\ h.events \in Nat /\ Cap \in Nat \ {0}
      /\ Len(h.log) \in Nat /\ task.reg \in Nat /\ t.next_event_id \in Nat
      /\ h.log \in Seq(Event) /\ t.buffer \in [Slots -> Event] /\ h.irqs \in SUBSET Nat
  BY <1>1, RecNumbers DEF TaskRecord
<1>4. CASE Ignored(t, h, u, g)
  <2>1. WellFormed(u, task, g) /\ Bounded(u, task, g) /\ NoIrqs(u, task, g)
    BY <1>1, <1>2, <1>4 DEF Ignored, RecInv, WellFormed, Bounded, Missing, NoIrqs
  <2>2. Undisturbed(u, task, g)
    <3> SUFFICES ASSUME g.raced = 0, task.pc # "start2"
                 PROVE  Held(u, g) /\ Ordered(u, g) /\ AtWork(u, task, g) /\ Counted(u, task, g)
      BY DEF Undisturbed
    <3>1. Held(t, h) /\ Ordered(t, h) /\ AtWork(t, task, h) /\ Counted(t, task, h)
      BY <1>4 DEF Ignored, RecInv, Undisturbed
    <3>2. Held(u, g)
      BY <1>2, <1>4, <3>1 DEF Ignored, Held
    <3>3. Ordered(u, g)
      BY <1>2, <1>4, <3>1 DEF Ignored, Ordered
    <3>4. AtWork(u, task, g)
      BY <1>2, <1>4, <3>1 DEF Ignored, AtWork
    <3>5. Counted(u, task, g)
      BY <1>2, <1>4, <3>1 DEF Ignored, Counted
    <3> QED
      BY <3>2, <3>3, <3>4, <3>5
  <2> QED
    BY <2>1, <2>2 DEF RecInv
<1>5. ASSUME NEW e \in Event, Taken(t, h, e, type, u, g)
      PROVE  RecInv(u, task, g)
  <2>numbers. /\ t.count \in Nat /\ t.events \in Nat /\ t.dropped \in Nat /\ Len(h.log) \in Nat
              /\ h.raced \in Nat /\ h.early \in Nat /\ h.dropped \in Nat /\ h.events \in Nat
    BY <1>3
  <2>log. g.log = Append(h.log, e)
    BY <1>5 DEF Taken, HistoryOf
  <2>raced. /\ g.raced = h.raced + (IF Inside THEN 1 ELSE 0)
            /\ g.early = h.early + (IF Starting THEN 1 ELSE 0)
    BY <1>5 DEF Taken, HistoryOf
  <2>change. \/ t.count >= Cap /\ u.dropped = t.dropped + 1 /\ u.count = t.count /\ u.events = t.events
             \/ t.count < Cap /\ u.dropped = t.dropped /\ u.count = t.count + 1 /\ u.events = t.events + 1
    BY <1>5 DEF Taken
  <2>1. /\ Len(g.log) = Len(h.log) + 1 /\ g.log[Len(h.log) + 1] = e
        /\ \A i \in 1 .. Len(h.log) : g.log[i] = h.log[i]
    <3> DEFINE s == h.log
    <3>1. s \in Seq(Event) /\ g.log = Append(s, e)
      BY <1>3, <2>log
    <3> HIDE DEF s
    <3>2. /\ Len(Append(s, e)) = Len(s) + 1 /\ Append(s, e)[Len(s) + 1] = e
          /\ \A i \in 1 .. Len(s) : Append(s, e)[i] = s[i]
      BY <3>1, LogGrows
    <3> QED
      BY <3>1, <3>2 DEF s
  <2>2. Missing(u, g) = Missing(t, h) /\ Missing(t, h) \in Int
    <3> DEFINE l == Len(h.log)
               c == t.count
               d == t.dropped
               b == h.dropped
               l1 == Len(g.log)
               c1 == u.count
               d1 == u.dropped
               b1 == g.dropped
    <3>1. /\ l \in Nat /\ c \in Nat /\ d \in Nat /\ b \in Nat /\ l1 = l + 1 /\ b1 = b
          /\ (c1 = c /\ d1 = d + 1) \/ (c1 = c + 1 /\ d1 = d)
      BY <1>2, <2>numbers, <2>change, <2>1
    <3> HIDE DEF l, c, d, b, l1, c1, d1, b1
    <3>2. l1 - c1 - (d1 - b1) = l - c - (d - b) /\ l - c - (d - b) \in Int
      BY ONLY <3>1
    <3> QED
      BY <3>2 DEF Missing, l, c, d, b, l1, c1, d1, b1
  <2>3. WellFormed(u, task, g)
    <3>1. t.count <= Cap => u.count <= Cap
      <4>1. Cap \in Nat
        BY <1>3
      <4> QED
        BY ONLY <2>change, <2>numbers, <4>1
    <3> QED
      BY <1>1, <1>2, <3>1 DEF RecInv, WellFormed
  <2>4. Bounded(u, task, g)
    <3>1. CASE task.pc \in Opening \cup Closing \cup {"start3", "start4"}
      <4>1. h.raced <= g.raced /\ g.raced \in Nat
        BY ONLY <2>numbers, <2>raced
      <4>2. Missing(t, h) >= 0 /\ Missing(t, h) <= h.raced
        BY <3>1 DEF RecInv, Bounded
      <4>3. Missing(u, g) >= 0 /\ Missing(u, g) <= g.raced
        BY <1>3, <2>2, <4>1, <4>2
      <4> QED
        BY <3>1, <4>3 DEF Bounded, Opening, Closing, Placing
    <3>2. CASE task.pc \in Placing \cup {"drop", "counted"}
      <4>1. g.raced = h.raced + 1
        BY <2>raced, <3>2 DEF Inside, Placing
      <4>2. CASE task.pc \in Placing
        <5>1. Missing(t, h) >= 1 /\ Missing(t, h) <= h.raced + 1
          BY <4>2 DEF RecInv, Bounded
        <5>2. Missing(u, g) >= 1 /\ Missing(u, g) <= g.raced + 1
          BY <1>3, <2>2, <4>1, <5>1
        <5> QED
          BY <4>2, <5>2 DEF Bounded, Opening, Closing, Placing
      <4>3. CASE task.pc = "drop"
        <5>1. /\ Missing(t, h) >= 1 /\ task.reg <= t.dropped
              /\ Missing(t, h) + (t.dropped - task.reg) <= h.raced + 1
          BY <4>3 DEF RecInv, Bounded
        <5>2. u.dropped \in {t.dropped, t.dropped + 1}
          BY <2>change
        <5>3. task.reg \in Nat
          BY <1>3
        <5>4. /\ Missing(u, g) >= 1 /\ task.reg <= u.dropped
              /\ Missing(u, g) + (u.dropped - task.reg) <= g.raced + 1
          <6> DEFINE m == Missing(t, h)
                     m1 == Missing(u, g)
                     x == t.dropped
                     x1 == u.dropped
                     r == h.raced
                     r1 == g.raced
                     k == task.reg
          <6>1. /\ m \in Int /\ m1 = m /\ x \in Nat /\ x1 \in {x, x + 1} /\ r \in Nat
                /\ r1 = r + 1 /\ k \in Nat /\ m >= 1 /\ k <= x /\ m + (x - k) <= r + 1
            BY <2>numbers, <2>2, <4>1, <5>1, <5>2, <5>3
          <6> HIDE DEF m, m1, x, x1, r, r1, k
          <6>2. m1 >= 1 /\ k <= x1 /\ m1 + (x1 - k) <= r1 + 1
            BY ONLY <6>1
          <6> QED
            BY <6>2 DEF m, m1, x, x1, r, r1, k
        <5> QED
          BY <4>3, <5>4 DEF Bounded, Opening, Closing, Placing
      <4>4. CASE task.pc = "counted"
        <5>1. /\ Missing(t, h) >= 1 /\ task.reg <= t.count
              /\ Missing(t, h) + (t.count - task.reg) <= h.raced + 1
          BY <4>4 DEF RecInv, Bounded
        <5>2. u.count \in {t.count, t.count + 1}
          BY <2>change
        <5>3. task.reg \in Nat
          BY <1>3
        <5>4. /\ Missing(u, g) >= 1 /\ task.reg <= u.count
              /\ Missing(u, g) + (u.count - task.reg) <= g.raced + 1
          <6> DEFINE m == Missing(t, h)
                     m1 == Missing(u, g)
                     x == t.count
                     x1 == u.count
                     r == h.raced
                     r1 == g.raced
                     k == task.reg
          <6>1. /\ m \in Int /\ m1 = m /\ x \in Nat /\ x1 \in {x, x + 1} /\ r \in Nat
                /\ r1 = r + 1 /\ k \in Nat /\ m >= 1 /\ k <= x /\ m + (x - k) <= r + 1
            BY <2>numbers, <2>2, <4>1, <5>1, <5>2, <5>3
          <6> HIDE DEF m, m1, x, x1, r, r1, k
          <6>2. m1 >= 1 /\ k <= x1 /\ m1 + (x1 - k) <= r1 + 1
            BY ONLY <6>1
          <6> QED
            BY <6>2 DEF m, m1, x, x1, r, r1, k
        <5> QED
          BY <4>4, <5>4 DEF Bounded, Opening, Closing, Placing
      <4> QED
        BY <3>2, <4>2, <4>3, <4>4
    <3>3. CASE task.pc = "start2"
      BY <3>3 DEF Bounded, Opening, Closing, Placing
    <3> QED
      BY <1>1, <3>1, <3>2, <3>3 DEF TaskRecord
  <2>5. Undisturbed(u, task, g)
    <3> SUFFICES ASSUME g.raced = 0, task.pc # "start2"
                 PROVE  Held(u, g) /\ Ordered(u, g) /\ AtWork(u, task, g) /\ Counted(u, task, g)
      BY DEF Undisturbed
    <3>1. ~Inside /\ h.raced = 0
      BY <2>numbers, <2>raced
    <3>2. Held(t, h) /\ Ordered(t, h) /\ Counted(t, task, h)
      BY <3>1 DEF RecInv, Undisturbed
    <3>3. task.pc \in {"idle", "start3", "start4"}
      BY <3>1 DEF Inside
    <3>4. AtWork(u, task, g)
      BY <3>3 DEF AtWork, Placing
    <3>5. Missing(t, h) = 0
      <4>1. Missing(t, h) >= 0 /\ Missing(t, h) <= h.raced
        BY <3>3 DEF RecInv, Bounded, Opening
      <4> QED
        BY <2>2, <3>1, <4>1
    <3>6. Ordered(u, g)
      <4>1. \A i, j \in 1 .. Len(h.log) : i < j => h.log[i].id < h.log[j].id
        BY <3>2 DEF Ordered
      <4>2. \A i \in 1 .. Len(h.log) : h.log[i].id < e.id
        BY <1>5, <3>2 DEF Taken, Ordered
      <4>3. e.id < u.next_event_id /\ u.next_event_id \in Nat
        <5>1. e.id = t.next_event_id /\ u.next_event_id = t.next_event_id + 1 /\ t.next_event_id \in Nat
          BY <1>3, <1>5 DEF Taken
        <5> QED
          BY ONLY <5>1
      <4> QED
        BY <1>3, <2>log, <4>1, <4>2, <4>3, OrderGrows, ZenonT(30) DEF Ordered
    <3>7. Counted(u, task, g)
      <4>1. t.events - h.events = t.count
        BY <3>2, <3>3 DEF Counted, Closing
      <4>2. u.events - h.events = u.count
        BY ONLY <2>numbers, <2>change, <4>1
      <4> QED
        BY <1>2, <3>3, <4>2 DEF Counted, Closing
    <3>8. Held(u, g)
      <4>1. /\ t.count <= Cap /\ t.count <= Len(h.log) /\ t.dropped >= h.dropped
            /\ \A i \in 0 .. t.count - 1 : t.buffer[i] = h.log[i + 1]
            /\ t.count < Cap => t.dropped = h.dropped
        BY <3>2 DEF Held
      <4>2. CASE t.count < Cap
        <5>1. /\ u.dropped = t.dropped /\ u.count = t.count + 1 /\ t.dropped = h.dropped
              /\ u.buffer = [t.buffer EXCEPT ![t.count] = e]
          BY <1>3, <1>5, <4>1, <4>2 DEF Taken
        <5>2. Len(h.log) = t.count
          BY <1>3, <3>5, <5>1 DEF Missing
        <5>3. t.count \in Slots /\ DOMAIN t.buffer = Slots
          BY <1>3, <4>2 DEF Slots
        <5>4. ASSUME NEW i \in 0 .. u.count - 1
              PROVE  u.buffer[i] = g.log[i + 1]
          <6>1. CASE i = t.count
            BY <2>1, <5>1, <5>2, <5>3, <6>1
          <6>2. CASE i # t.count
            <7>1. i \in 0 .. t.count - 1 /\ i \in Slots /\ i + 1 \in 1 .. Len(h.log)
              BY <1>3, <4>2, <5>1, <5>2, <6>2, SMTT(30) DEF Slots
            <7>2. u.buffer[i] = t.buffer[i]
              BY <5>1, <5>3, <6>2, <7>1
            <7> QED
              BY <2>1, <4>1, <7>1, <7>2
          <6> QED
            BY <6>1, <6>2
        <5>5. u.count <= Cap /\ u.count <= Len(g.log) /\ u.dropped >= g.dropped /\ u.dropped = g.dropped
          BY <1>2, <1>3, <2>1, <4>2, <5>1, <5>2, SMTT(30)
        <5> QED
          BY <5>4, <5>5 DEF Held
      <4>3. CASE ~(t.count < Cap)
        <5>1. u.dropped = t.dropped + 1 /\ u.count = t.count /\ u.buffer = t.buffer
          BY <1>5, <4>3 DEF Taken
        <5>2. u.count <= Cap /\ u.count <= Len(g.log) /\ u.dropped >= g.dropped /\ ~(u.count < Cap)
          BY <1>2, <1>3, <2>1, <4>1, <4>3, <5>1, SMTT(30)
        <5>3. \A i \in 0 .. u.count - 1 : u.buffer[i] = g.log[i + 1]
          <6> TAKE i \in 0 .. u.count - 1
          <6>1. i \in 0 .. t.count - 1 /\ i + 1 \in 1 .. Len(h.log)
            BY <1>3, <4>1, <5>1, SMTT(30)
          <6> QED
            BY <2>1, <4>1, <5>1, <6>1
        <5> QED
          BY <5>2, <5>3 DEF Held
      <4> QED
        BY <4>2, <4>3
    <3> QED
      BY <3>4, <3>6, <3>7, <3>8
  <2>6. NoIrqs(u, task, g)
    <3> SUFFICES ASSUME g.early = 0, task.pc # "start2", u.profile \/ task.pc \in {"start3", "start4"}
                 PROVE  g.irqs = {}
      BY DEF NoIrqs
    <3>1. h.early = 0 /\ ~Starting
      BY <2>numbers, <2>raced
    <3>2. t.profile /\ type # "irq"
      BY <1>2, <1>5, <3>1 DEF Starting, Taken
    <3> QED
      BY <1>5, <3>1, <3>2 DEF Taken, HistoryOf, RecInv, NoIrqs
  <2> QED
    BY <2>3, <2>4, <2>5, <2>6 DEF RecInv
<1> QED
  BY <1>1, <1>4, <1>5, NotedFields

-----------------------------------------------------------------------------
(* The steps of the task.                                                   *)

\* The parts of the history the invariant speaks of.
SameHist ==
  /\ hist'.log = hist.log /\ hist'.irqs = hist.irqs /\ hist'.raced = hist.raced
  /\ hist'.early = hist.early /\ hist'.dropped = hist.dropped /\ hist'.events = hist.events

\* The task goes on to a place pc with a value in its register.
GoesTo(pc, reg) ==
  /\ task' \in TaskRecord /\ task'.pc = pc /\ task'.reg = reg
  /\ task'.id = task.id /\ task'.n = task.n

Pcs == Opening \cup Placing \cup Closing \cup {"drop", "counted", "start2", "start3", "start4"}

LEMMA GotoFields ==
  ASSUME task \in TaskRecord, NEW pc \in Pcs
  PROVE  /\ Goto(pc) => GoesTo(pc, task.reg)
         /\ \A value \in Nat : Load(pc, value) => GoesTo(pc, value)
  BY DEF Goto, Load, GoesTo, TaskRecord, Pcs

\* A task begins trace_record.
LEMMA StepCall ==
  ASSUME RecorderInv, Call
  PROVE  RecorderInv'
<1>1. trace \in TraceRecord /\ task \in TaskRecord /\ hist \in HistRecord
  BY DEF RecorderInv, RecInv, WellFormed
<1> DEFINE n == hist.calls + 1
<1>2. n \in Nat /\ trace.next_event_id \in Nat
  BY <1>1, RecNumbers
<1>3. /\ task.pc = "idle" /\ trace' = trace
      /\ task' = [pc |-> "id", reg |-> trace.next_event_id, id |-> 0, n |-> n]
      /\ hist' = [hist EXCEPT !.calls = n]
  BY DEF Call
<1> HIDE DEF n
<1>4. SameHist /\ hist' \in HistRecord
  BY <1>1, <1>2, <1>3 DEF SameHist, HistRecord
<1>5. task' \in TaskRecord /\ task'.pc = "id" /\ task'.reg = trace.next_event_id
  BY <1>2, <1>3 DEF TaskRecord, Opening
<1>6. WellFormed(trace', task', hist')
  BY <1>1, <1>3, <1>4, <1>5 DEF WellFormed, Placing
<1>7. Bounded(trace', task', hist')
  BY <1>3, <1>4, <1>5 DEF RecorderInv, RecInv, Bounded, Missing, SameHist, Opening, Placing, Closing
<1>8. Undisturbed(trace', task', hist')
  BY <1>3, <1>4, <1>5 DEF RecorderInv, RecInv, Undisturbed, Held, Ordered, AtWork, Counted,
     SameHist, Placing, Closing
<1>9. NoIrqs(trace', task', hist')
  BY <1>3, <1>4, <1>5 DEF RecorderInv, RecInv, NoIrqs, SameHist
<1> QED
  BY <1>6, <1>7, <1>8, <1>9 DEF RecorderInv, RecInv

LEMMA StepTakeId ==
  ASSUME RecorderInv, TakeId
  PROVE  RecorderInv'
<1>1. trace \in TraceRecord /\ task \in TaskRecord /\ hist \in HistRecord
  BY DEF RecorderInv, RecInv, WellFormed
<1> DEFINE w == task.reg + 1
<1>2. w \in Nat /\ task.reg \in Nat /\ task.reg < w
  BY <1>1 DEF TaskRecord
<1>3. /\ task.pc = "id" /\ trace' = [trace EXCEPT !.next_event_id = w]
      /\ task' = [task EXCEPT !.pc = "check", !.id = task.reg] /\ hist' = hist
  BY DEF TakeId
<1> HIDE DEF w
<1>4. /\ trace' \in TraceRecord /\ trace'.next_event_id = w
      /\ trace'.recording = trace.recording /\ trace'.profile = trace.profile
      /\ trace'.count = trace.count /\ trace'.buffer = trace.buffer
      /\ trace'.events = trace.events /\ trace'.dropped = trace.dropped
  BY <1>1, <1>2, <1>3 DEF TraceRecord
<1>5. task' \in TaskRecord /\ task'.pc = "check" /\ task'.id = task.reg
  BY <1>1, <1>2, <1>3 DEF TaskRecord, Opening
<1>6. WellFormed(trace', task', hist')
  BY <1>1, <1>3, <1>4, <1>5 DEF WellFormed, Placing
<1>7. Bounded(trace', task', hist')
  BY <1>3, <1>4, <1>5 DEF RecorderInv, RecInv, Bounded, Missing, Opening, Placing, Closing
<1>8. Undisturbed(trace', task', hist')
  <2> SUFFICES ASSUME hist.raced = 0
               PROVE  /\ Held(trace', hist') /\ Ordered(trace', hist')
                      /\ AtWork(trace', task', hist') /\ Counted(trace', task', hist')
    BY <1>3 DEF Undisturbed
  <2>1. /\ Held(trace, hist) /\ Ordered(trace, hist) /\ AtWork(trace, task, hist)
        /\ Counted(trace, task, hist)
    BY <1>3 DEF RecorderInv, RecInv, Undisturbed
  <2>2. Held(trace', hist') /\ Counted(trace', task', hist')
    BY <1>3, <1>4, <1>5, <2>1 DEF Held, Counted, Closing
  <2>3. trace.recording => task.reg = trace.next_event_id
    BY <1>3, <2>1 DEF AtWork
  <2>4. trace.recording => \A i \in 1 .. Len(hist.log) : hist.log[i].id < task.reg
    BY <2>1, <2>3 DEF Ordered
  <2>5. trace.recording => \A i \in 1 .. Len(hist.log) : hist.log[i].id < w
    <3>1. \A i \in 1 .. Len(hist.log) : hist.log[i].id \in Nat
      <4>1. \A s \in Seq(Event) : \A i \in 1 .. Len(s) : s[i] \in Event
        OBVIOUS
      <4> QED
        BY <1>1, <4>1, RecNumbers DEF Event
    <3> QED
      BY <1>2, <2>4, <3>1
  <2>6. Ordered(trace', hist')
    BY <1>3, <1>4, <2>1, <2>5 DEF Ordered
  <2>7. AtWork(trace', task', hist')
    BY <1>2, <1>3, <1>4, <1>5, <2>4 DEF AtWork, Placing
  <2> QED
    BY <2>2, <2>6, <2>7
<1>9. NoIrqs(trace', task', hist')
  BY <1>3, <1>4, <1>5 DEF RecorderInv, RecInv, NoIrqs
<1> QED
  BY <1>6, <1>7, <1>8, <1>9 DEF RecorderInv, RecInv

\* The task's event enters the log.
LEMMA StepCheck ==
  ASSUME RecorderInv, Check
  PROVE  RecorderInv'
<1>1. trace \in TraceRecord /\ task \in TaskRecord /\ hist \in HistRecord
  BY DEF RecorderInv, RecInv, WellFormed
<1>2. trace' = trace /\ task.pc = "check"
  BY DEF Check
<1>3. /\ trace.count \in Nat /\ Cap \in Nat /\ trace.dropped \in Nat /\ hist.dropped \in Nat
      /\ hist.raced \in Nat /\ hist.log \in Seq(Event) /\ Len(hist.log) \in Nat
  BY <1>1, RecNumbers
<1>4. Missing(trace, hist) >= 0 /\ Missing(trace, hist) <= hist.raced
  BY <1>2 DEF RecorderInv, RecInv, Bounded, Opening
<1>5. CASE ~trace.recording
  <2>1. GoesTo("idle", task.reg) /\ hist' = hist
    BY <1>1, <1>5, GotoFields DEF Check, Pcs, Opening
  <2>2. WellFormed(trace', task', hist')
    BY <1>1, <1>2, <2>1 DEF WellFormed, Placing, GoesTo
  <2>3. Bounded(trace', task', hist')
    BY <1>2, <1>4, <2>1 DEF Bounded, GoesTo, Opening, Placing, Closing
  <2>4. Undisturbed(trace', task', hist')
    BY <1>2, <2>1 DEF RecorderInv, RecInv, Undisturbed, AtWork, Counted, Placing, Closing, GoesTo
  <2>5. NoIrqs(trace', task', hist')
    BY <1>2, <2>1 DEF RecorderInv, RecInv, NoIrqs, GoesTo
  <2> QED
    BY <2>2, <2>3, <2>4, <2>5 DEF RecorderInv, RecInv
<1>6. CASE trace.recording
  <2> DEFINE e == [id |-> task.id, body |-> task.n]
             l == hist.log
             a == Append(l, e)
  <2>1. e \in Event /\ e.id = task.id /\ l \in Seq(Event)
    BY <1>1 DEF Event, TaskRecord, HistRecord
  <2>2. hist' = [hist EXCEPT !.log = a]
    BY <1>1, <1>6 DEF Check, Logged, HistRecord
  <2> HIDE DEF e, l
  <2>3. /\ a \in Seq(Event) /\ Len(a) = Len(l) + 1 /\ a[Len(l) + 1] = e
        /\ \A i \in 1 .. Len(l) : a[i] = l[i]
    BY <2>1, LogGrows
  <2> HIDE DEF a
  <2>4. /\ hist' \in HistRecord /\ hist'.log = a /\ hist'.irqs = hist.irqs /\ hist'.raced = hist.raced
        /\ hist'.early = hist.early /\ hist'.dropped = hist.dropped /\ hist'.events = hist.events
    BY <1>1, <2>2, <2>3 DEF HistRecord
  <2>5. /\ Full(trace) => GoesTo("drop", trace.dropped)
        /\ ~Full(trace) => GoesTo("slot", task.reg)
    <3>1. "drop" \in Pcs /\ "slot" \in Pcs
      BY DEF Pcs, Placing
    <3> QED
      BY <1>1, <1>3, <1>6, <3>1, GotoFields DEF Check
  <2>6. /\ task' \in TaskRecord /\ task'.id = task.id /\ task'.n = task.n
        /\ \/ task'.pc = "drop" /\ task'.reg = trace.dropped /\ trace.count >= Cap
           \/ task'.pc = "slot" /\ trace.count < Cap
    BY <1>3, <2>5 DEF GoesTo, Full
  <2>7. WellFormed(trace', task', hist')
    <3>1. task'.pc = "slot" => trace.count <= Cap
      BY <1>3, <2>6
    <3> QED
      BY <1>1, <1>2, <2>4, <2>6, <3>1 DEF WellFormed, Placing
  <2>8. Bounded(trace', task', hist')
    <3>1. Missing(trace', hist') = Missing(trace, hist) + 1 /\ Missing(trace, hist) \in Int
      <4> DEFINE p == Len(l)
                 c == trace.count
                 d == trace.dropped
                 b == hist.dropped
      <4>1. p \in Nat /\ c \in Nat /\ d \in Nat /\ b \in Nat
        BY <1>3 DEF l
      <4>2. Missing(trace', hist') = (p + 1) - c - (d - b) /\ Missing(trace, hist) = p - c - (d - b)
        BY <1>2, <2>3, <2>4 DEF Missing, l
      <4> HIDE DEF p, c, d, b
      <4> QED
        BY <4>1, <4>2
    <3> DEFINE m == Missing(trace, hist)
               m1 == Missing(trace', hist')
               r == hist.raced
               d == trace.dropped
    <3>2. m \in Int /\ m1 = m + 1 /\ m >= 0 /\ m <= r /\ r \in Nat /\ d \in Nat
      BY <1>3, <1>4, <3>1
    <3> HIDE DEF m, m1, r, d
    <3>3. m1 >= 1 /\ m1 <= r + 1 /\ m1 + (d - d) <= r + 1 /\ d <= d
      BY <3>2
    <3> QED
      BY <1>2, <2>4, <2>6, <3>3 DEF Bounded, Opening, Placing, Closing, m1, r, d
  <2>9. Undisturbed(trace', task', hist')
    <3> SUFFICES ASSUME hist.raced = 0
                 PROVE  /\ Held(trace', hist') /\ Ordered(trace', hist')
                        /\ AtWork(trace', task', hist') /\ Counted(trace', task', hist')
      BY <2>4 DEF Undisturbed
    <3>1. /\ Held(trace, hist) /\ Ordered(trace, hist) /\ AtWork(trace, task, hist)
          /\ Counted(trace, task, hist)
      BY <1>2 DEF RecorderInv, RecInv, Undisturbed
    <3>2. Ordered(trace', hist')
      <4>1. /\ \A i, j \in 1 .. Len(l) : i < j => l[i].id < l[j].id
            /\ \A i \in 1 .. Len(l) : l[i].id < e.id
            /\ e.id < trace.next_event_id /\ trace.next_event_id \in Nat
        BY <1>1, <1>2, <1>6, <2>1, <3>1, RecNumbers DEF Ordered, AtWork, l
      <4>2. /\ \A i, j \in 1 .. Len(a) : i < j => a[i].id < a[j].id
            /\ \A i \in 1 .. Len(a) : a[i].id < trace.next_event_id
        BY <2>1, <4>1, OrderGrows DEF a
      <4> QED
        BY <1>2, <2>4, <4>2 DEF Ordered
    <3>3. Counted(trace', task', hist')
      BY <1>2, <2>4, <2>6, <3>1 DEF Counted, Closing
    <3>4. Held(trace', hist')
      <4>1. /\ trace.count <= Cap /\ trace.count <= Len(l)
            /\ \A i \in 0 .. trace.count - 1 : trace.buffer[i] = l[i + 1]
        BY <3>1 DEF Held, l
      <4>2. trace.count <= Len(a)
        BY <1>3, <2>3, <4>1 DEF l
      <4>3. \A i \in 0 .. trace.count - 1 : trace.buffer[i] = a[i + 1]
        <5> TAKE i \in 0 .. trace.count - 1
        <5>1. i + 1 \in 1 .. Len(l)
          BY <1>3, <4>1 DEF l
        <5> QED
          BY <2>3, <4>1, <5>1
      <4> QED
        BY <1>2, <2>4, <3>1, <4>2, <4>3 DEF Held
    <3>5. AtWork(trace', task', hist')
      <4>1. trace.count <= Cap
        BY <3>1 DEF Held
      <4>2. task'.pc = "drop" => trace.count = Cap
        BY <1>3, <2>6, <4>1
      <4>3. a[Len(a)] = [id |-> task'.id, body |-> task'.n]
        BY <2>3, <2>6 DEF e
      <4> QED
        BY <1>2, <2>4, <2>6, <4>2, <4>3 DEF AtWork, Placing
    <3> QED
      BY <3>2, <3>3, <3>4, <3>5
  <2>10. NoIrqs(trace', task', hist')
    BY <1>2, <2>4, <2>6 DEF RecorderInv, RecInv, NoIrqs
  <2> QED
    BY <2>7, <2>8, <2>9, <2>10 DEF RecorderInv, RecInv
<1> QED
  BY <1>5, <1>6

LEMMA StepDrop ==
  ASSUME RecorderInv, Drop
  PROVE  RecorderInv'
<1>1. trace \in TraceRecord /\ task \in TaskRecord /\ hist \in HistRecord
  BY DEF RecorderInv, RecInv, WellFormed
<1> DEFINE d1 == task.reg + 1
<1>2. d1 \in Nat
  BY <1>1 DEF TaskRecord
<1>3. /\ trace' = [trace EXCEPT !.dropped = d1] /\ hist' = hist /\ task.pc = "drop"
      /\ GoesTo("idle", task.reg)
  BY <1>1, GotoFields DEF Drop, Dropped, Pcs, Opening
<1> HIDE DEF d1
<1>4. /\ trace' \in TraceRecord /\ trace'.dropped = d1
      /\ trace'.recording = trace.recording /\ trace'.profile = trace.profile
      /\ trace'.count = trace.count /\ trace'.buffer = trace.buffer
      /\ trace'.events = trace.events /\ trace'.next_event_id = trace.next_event_id
  BY <1>1, <1>2, <1>3 DEF TraceRecord
<1>5. task' \in TaskRecord /\ task'.pc = "idle"
  BY <1>3 DEF GoesTo
<1>6. WellFormed(trace', task', hist')
  BY <1>1, <1>3, <1>4, <1>5 DEF WellFormed, Placing
<1> DEFINE l == Len(hist.log)
           c == trace.count
           d == trace.dropped
           b == hist.dropped
           r == hist.raced
           k == task.reg
<1>7. /\ l \in Nat /\ c \in Nat /\ d \in Nat /\ b \in Nat /\ r \in Nat /\ k \in Nat
      /\ Missing(trace, hist) = l - c - (d - b) /\ Missing(trace', hist') = l - c - (d1 - b)
      /\ d1 = k + 1 /\ l - c - (d - b) >= 1 /\ k <= d /\ (l - c - (d - b)) + (d - k) <= r + 1
  <2>1. l \in Nat /\ c \in Nat /\ d \in Nat /\ b \in Nat /\ r \in Nat /\ k \in Nat
    BY <1>1, RecNumbers DEF TaskRecord
  <2>2. Missing(trace, hist) = l - c - (d - b) /\ Missing(trace', hist') = l - c - (d1 - b)
    BY <1>3, <1>4 DEF Missing
  <2>3. /\ Missing(trace, hist) >= 1 /\ k <= d /\ Missing(trace, hist) + (d - k) <= r + 1
    BY <1>3 DEF RecorderInv, RecInv, Bounded
  <2> QED
    BY <2>1, <2>2, <2>3 DEF d1
<1> HIDE DEF l, c, d, b, r, k
<1>8. Bounded(trace', task', hist')
  <2>1. l - c - (d1 - b) >= 0 /\ l - c - (d1 - b) <= r
    BY ONLY <1>7
  <2> QED
    BY <1>3, <1>5, <1>7, <2>1 DEF Bounded, Opening, Placing, Closing, r
<1>9. Undisturbed(trace', task', hist')
  <2> SUFFICES ASSUME hist.raced = 0
               PROVE  /\ Held(trace', hist') /\ Ordered(trace', hist')
                      /\ AtWork(trace', task', hist') /\ Counted(trace', task', hist')
    BY <1>3 DEF Undisturbed
  <2>1. /\ Held(trace, hist) /\ Ordered(trace, hist) /\ AtWork(trace, task, hist)
        /\ Counted(trace, task, hist)
    BY <1>3 DEF RecorderInv, RecInv, Undisturbed
  <2>2. Ordered(trace', hist') /\ Counted(trace', task', hist')
    BY <1>3, <1>4, <1>5, <2>1 DEF Ordered, Counted, Closing
  <2>3. AtWork(trace', task', hist')
    BY <1>5 DEF AtWork, Placing
  <2>4. d1 >= b
    <3>1. r = 0 /\ d >= b
      BY <2>1 DEF r, Held, d, b
    <3> QED
      BY ONLY <1>7, <3>1
  <2>5. trace.count = Cap /\ ~(Cap < Cap)
    BY <1>1, <1>3, <2>1, RecNumbers DEF AtWork
  <2>6. Held(trace', hist')
    BY <1>3, <1>4, <2>1, <2>4, <2>5 DEF Held, b
  <2> QED
    BY <2>2, <2>3, <2>6
<1>10. NoIrqs(trace', task', hist')
  BY <1>3, <1>4, <1>5 DEF RecorderInv, RecInv, NoIrqs
<1> QED
  BY <1>6, <1>8, <1>9, <1>10 DEF RecorderInv, RecInv

\* The loads of the count and of the statistics.
LEMMA StepLoad ==
  ASSUME RecorderInv, Slot \/ Count \/ Stats
  PROVE  RecorderInv'
<1>1. trace \in TraceRecord /\ task \in TaskRecord /\ hist \in HistRecord
  BY DEF RecorderInv, RecInv, WellFormed
<1>2. trace.count \in Nat /\ trace.events \in Nat /\ Cap \in Nat
  BY <1>1, RecNumbers
<1>3. /\ trace' = trace /\ hist' = hist
      /\ \/ task.pc = "slot" /\ GoesTo("store", trace.count)
         \/ task.pc = "count" /\ GoesTo("counted", trace.count)
         \/ task.pc = "stats" /\ GoesTo("events", trace.events)
  <2>1. {"store", "counted", "events"} \subseteq Pcs
    BY DEF Pcs, Placing, Closing
  <2> QED
    BY <1>1, <1>2, <2>1, GotoFields DEF Slot, Count, Stats
<1>4. task.pc \in {"slot", "count"} => trace.count <= Cap
  BY DEF RecorderInv, RecInv, WellFormed, Placing
<1>5. WellFormed(trace', task', hist')
  BY <1>1, <1>3, <1>4 DEF WellFormed, Placing, GoesTo
<1>6. Bounded(trace', task', hist')
  <2>1. CASE task.pc = "slot" \/ task.pc = "stats"
    BY <1>3, <2>1 DEF RecorderInv, RecInv, Bounded, Opening, Placing, Closing, GoesTo
  <2>2. CASE task.pc = "count"
    <3>1. Missing(trace, hist) >= 1 /\ Missing(trace, hist) <= hist.raced + 1
      BY <2>2 DEF RecorderInv, RecInv, Bounded, Placing
    <3>2. Missing(trace, hist) \in Int
      BY <1>1, RecNumbers DEF Missing
    <3> DEFINE m == Missing(trace, hist)
               c == trace.count
               r == hist.raced
    <3>3. m \in Int /\ c \in Nat /\ r \in Nat /\ m >= 1 /\ m <= r + 1
      BY <1>1, <1>2, <3>1, <3>2, RecNumbers
    <3> HIDE DEF m, c, r
    <3>4. m >= 1 /\ c <= c /\ m + (c - c) <= r + 1
      BY ONLY <3>3
    <3> QED
      BY <1>3, <2>2, <3>4 DEF Bounded, Opening, Placing, Closing, GoesTo, m, c, r
  <2> QED
    BY <1>3, <2>1, <2>2
<1>7. Undisturbed(trace', task', hist')
  <2> SUFFICES ASSUME hist.raced = 0
               PROVE  /\ Held(trace', hist') /\ Ordered(trace', hist')
                      /\ AtWork(trace', task', hist') /\ Counted(trace', task', hist')
    BY <1>3 DEF Undisturbed
  <2>1. /\ Held(trace, hist) /\ Ordered(trace, hist) /\ AtWork(trace, task, hist)
        /\ Counted(trace, task, hist)
    BY <1>3 DEF RecorderInv, RecInv, Undisturbed
  <2>2. Held(trace', hist') /\ Ordered(trace', hist')
    BY <1>3, <2>1
  <2>3. AtWork(trace', task', hist')
    BY <1>3, <2>1 DEF AtWork, Placing, GoesTo
  <2>4. Counted(trace', task', hist')
    BY <1>3, <2>1 DEF Counted, Closing, GoesTo
  <2> QED
    BY <2>2, <2>3, <2>4
<1>8. NoIrqs(trace', task', hist')
  BY <1>3 DEF RecorderInv, RecInv, NoIrqs, GoesTo
<1> QED
  BY <1>5, <1>6, <1>7, <1>8 DEF RecorderInv, RecInv

\* The two stores into the buffer.
LEMMA StepStore ==
  ASSUME RecorderInv, StoreId \/ StoreBody
  PROVE  RecorderInv'
<1>1. trace \in TraceRecord /\ task \in TaskRecord /\ hist \in HistRecord
  BY DEF RecorderInv, RecInv, WellFormed
<1> DEFINE s == task.reg
           old == trace.buffer[s]
           new == IF task.pc = "store" THEN [old EXCEPT !.id = task.id]
                  ELSE [old EXCEPT !.body = task.n]
           b == [trace.buffer EXCEPT ![s] = new]
<1>2. /\ task.pc \in {"store", "body"} /\ hist' = hist
      /\ task.pc = "store" => GoesTo("body", s)
      /\ task.pc = "body" => GoesTo("count", s)
  <2>1. {"body", "count"} \subseteq Pcs
    BY DEF Pcs, Placing
  <2> QED
    BY <1>1, <2>1, GotoFields DEF StoreId, StoreBody
<1>3. s \in Slots /\ trace.buffer \in [Slots -> Event]
  <2>1. s \in Nat /\ s <= Cap /\ Cap \in Nat
    BY <1>1, <1>2, RecNumbers DEF RecorderInv, RecInv, WellFormed, TaskRecord
  <2> QED
    BY <1>1, <2>1 DEF Slots, TraceRecord
<1>4. /\ old \in Event /\ new \in Event
      /\ task.pc = "store" => new.id = task.id
      /\ task.pc = "body" => new.id = old.id /\ new = [id |-> old.id, body |-> task.n]
  <2>1. old \in Event /\ task.id \in Nat /\ task.n \in Nat
    BY <1>1, <1>3 DEF TaskRecord
  <2> QED
    BY <1>2, <2>1 DEF Event
<1>5. trace' = [trace EXCEPT !.buffer = b]
  BY <1>1, <1>2 DEF StoreId, StoreBody, TraceRecord
<1>6. b \in [Slots -> Event] /\ b[s] = new /\ \A i \in Slots : i # s => b[i] = trace.buffer[i]
  BY <1>3, <1>4
<1> HIDE DEF s, b, new
<1>7. /\ trace' \in TraceRecord /\ trace'.buffer = b
      /\ trace'.recording = trace.recording /\ trace'.profile = trace.profile
      /\ trace'.count = trace.count /\ trace'.dropped = trace.dropped
      /\ trace'.events = trace.events /\ trace'.next_event_id = trace.next_event_id
  BY <1>1, <1>5, <1>6 DEF TraceRecord
<1>8. WellFormed(trace', task', hist')
  BY <1>1, <1>2, <1>7 DEF RecorderInv, RecInv, WellFormed, Placing, GoesTo, s
<1>9. Bounded(trace', task', hist')
  BY <1>2, <1>7 DEF RecorderInv, RecInv, Bounded, Missing, Opening, Placing, Closing, GoesTo
<1>10. Undisturbed(trace', task', hist')
  <2> SUFFICES ASSUME hist.raced = 0
               PROVE  /\ Held(trace', hist') /\ Ordered(trace', hist')
                      /\ AtWork(trace', task', hist') /\ Counted(trace', task', hist')
    BY <1>2 DEF Undisturbed
  <2>1. /\ Held(trace, hist) /\ Ordered(trace, hist) /\ AtWork(trace, task, hist)
        /\ Counted(trace, task, hist)
    BY <1>2 DEF RecorderInv, RecInv, Undisturbed
  <2>2. Ordered(trace', hist') /\ Counted(trace', task', hist')
    BY <1>2, <1>7, <2>1 DEF Ordered, Counted, Closing, GoesTo
  <2>3. s = trace.count /\ trace.count < Cap
        /\ hist.log[Len(hist.log)] = [id |-> task.id, body |-> task.n]
    BY <1>2, <2>1 DEF AtWork, Placing, s
  <2>4. Held(trace', hist')
    <3>1. \A i \in 0 .. trace.count - 1 : b[i] = trace.buffer[i]
      <4> TAKE i \in 0 .. trace.count - 1
      <4>1. i \in Slots /\ i # s
        BY <1>1, <2>3, RecNumbers DEF Slots
      <4> QED
        BY <1>6, <4>1
    <3> QED
      BY <1>2, <1>7, <2>1, <3>1 DEF Held
  <2>5. AtWork(trace', task', hist')
    <3>1. CASE task.pc = "store"
      <4>1. b[trace.count].id = task.id
        BY <1>4, <1>6, <2>3, <3>1
      <4> QED
        BY <1>2, <1>7, <2>3, <3>1, <4>1 DEF AtWork, Placing, GoesTo
    <3>2. CASE task.pc = "body"
      <4>1. old.id = task.id
        BY <2>1, <2>3, <3>2 DEF AtWork
      <4>2. b[trace.count] = [id |-> task.id, body |-> task.n]
        BY <1>4, <1>6, <2>3, <3>2, <4>1
      <4> QED
        BY <1>2, <1>7, <2>3, <3>2, <4>2 DEF AtWork, Placing, GoesTo
    <3> QED
      BY <1>2, <3>1, <3>2
  <2> QED
    BY <2>2, <2>4, <2>5
<1>11. NoIrqs(trace', task', hist')
  BY <1>2, <1>7 DEF RecorderInv, RecInv, NoIrqs, GoesTo
<1> QED
  BY <1>8, <1>9, <1>10, <1>11 DEF RecorderInv, RecInv

LEMMA StepStoreCount ==
  ASSUME RecorderInv, StoreCount
  PROVE  RecorderInv'
<1>1. trace \in TraceRecord /\ task \in TaskRecord /\ hist \in HistRecord
  BY DEF RecorderInv, RecInv, WellFormed
<1> DEFINE c1 == task.reg + 1
<1>2. c1 \in 0 .. Cap + 1 /\ c1 \in Nat /\ task.pc = "counted"
  <2>1. task.reg \in Nat /\ task.reg <= Cap /\ Cap \in Nat /\ task.pc = "counted"
    BY <1>1, RecNumbers DEF StoreCount, RecorderInv, RecInv, WellFormed, TaskRecord
  <2> QED
    BY <2>1
<1>3. /\ hist' = hist /\ GoesTo("stats", task.reg)
      /\ \E p \in Nat : trace' = [trace EXCEPT !.count = c1, !.peak = p]
  <2> DEFINE t == [trace EXCEPT !.count = c1]
  <2>1. trace' = [t EXCEPT !.peak = Peak(t)] /\ hist' = hist /\ Goto("stats")
    BY DEF StoreCount
  <2>2. "stats" \in Pcs
    BY DEF Pcs, Closing
  <2> HIDE DEF c1
  <2>3. Peak(t) \in Nat
    BY <1>1, <1>2 DEF Peak, TraceRecord
  <2>4. trace' = [trace EXCEPT !.count = c1, !.peak = Peak(t)]
    BY <1>1, <2>1 DEF TraceRecord
  <2> QED
    BY <1>1, <2>1, <2>2, <2>3, <2>4, GotoFields
<1> HIDE DEF c1
<1>4. /\ trace' \in TraceRecord /\ trace'.count = c1
      /\ trace'.recording = trace.recording /\ trace'.profile = trace.profile
      /\ trace'.buffer = trace.buffer /\ trace'.dropped = trace.dropped
      /\ trace'.events = trace.events /\ trace'.next_event_id = trace.next_event_id
  BY <1>1, <1>2, <1>3 DEF TraceRecord
<1>5. task' \in TaskRecord /\ task'.pc = "stats"
  BY <1>3 DEF GoesTo
<1>6. WellFormed(trace', task', hist')
  BY <1>1, <1>3, <1>4, <1>5 DEF WellFormed, Placing
<1> DEFINE l == Len(hist.log)
           c == trace.count
           d == trace.dropped
           b == hist.dropped
           r == hist.raced
           k == task.reg
<1>7. /\ l \in Nat /\ c \in Nat /\ d \in Nat /\ b \in Nat /\ r \in Nat /\ k \in Nat
      /\ Missing(trace, hist) = l - c - (d - b) /\ Missing(trace', hist') = l - c1 - (d - b)
      /\ c1 = k + 1 /\ l - c - (d - b) >= 1 /\ k <= c /\ (l - c - (d - b)) + (c - k) <= r + 1
  <2>1. l \in Nat /\ c \in Nat /\ d \in Nat /\ b \in Nat /\ r \in Nat /\ k \in Nat
    BY <1>1, RecNumbers DEF TaskRecord
  <2>2. Missing(trace, hist) = l - c - (d - b) /\ Missing(trace', hist') = l - c1 - (d - b)
    BY <1>3, <1>4 DEF Missing
  <2>3. /\ Missing(trace, hist) >= 1 /\ k <= c /\ Missing(trace, hist) + (c - k) <= r + 1
    BY <1>2 DEF RecorderInv, RecInv, Bounded
  <2> QED
    BY <2>1, <2>2, <2>3 DEF c1
<1> HIDE DEF l, c, d, b, r, k
<1>8. Bounded(trace', task', hist')
  <2>1. l - c1 - (d - b) >= 0 /\ l - c1 - (d - b) <= r
    BY ONLY <1>7
  <2> QED
    BY <1>3, <1>5, <1>7, <2>1 DEF Bounded, Opening, Placing, Closing, r
<1>9. Undisturbed(trace', task', hist')
  <2> SUFFICES ASSUME hist.raced = 0
               PROVE  /\ Held(trace', hist') /\ Ordered(trace', hist')
                      /\ AtWork(trace', task', hist') /\ Counted(trace', task', hist')
    BY <1>3 DEF Undisturbed
  <2>1. /\ Held(trace, hist) /\ Ordered(trace, hist) /\ AtWork(trace, task, hist)
        /\ Counted(trace, task, hist)
    BY <1>2 DEF RecorderInv, RecInv, Undisturbed
  <2>2. Ordered(trace', hist')
    BY <1>3, <1>4, <2>1 DEF Ordered
  <2>3. AtWork(trace', task', hist')
    BY <1>5 DEF AtWork, Placing
  <2>4. c < Cap /\ d = b /\ trace.buffer[c] = hist.log[l] /\ r = 0
    BY <1>2, <2>1 DEF AtWork, Held, c, d, b, l, r, Placing
  <2>5. c1 = c + 1 /\ l = c + 1
    BY ONLY <1>7, <2>4
  <2>6. Held(trace', hist')
    <3>1. c1 <= Cap /\ c1 <= l /\ d >= b
      <4>1. Cap \in Nat
        BY <1>1, RecNumbers
      <4> QED
        BY <1>7, <2>4, <2>5, <4>1
    <3>2. \A i \in 0 .. c1 - 1 : trace.buffer[i] = hist.log[i + 1]
      <4> TAKE i \in 0 .. c1 - 1
      <4>1. i = c \/ i \in 0 .. c - 1
        BY <1>7, <2>5
      <4> QED
        BY <2>1, <2>4, <2>5, <4>1 DEF Held, c
    <3> QED
      BY <1>3, <1>4, <2>4, <3>1, <3>2 DEF Held, d, b, l
  <2>7. Counted(trace', task', hist')
    <3>1. trace.events - hist.events = c /\ c = c1 - 1
      <4>1. c = c1 - 1
        BY <1>7, <2>5
      <4> QED
        BY <1>2, <2>1, <4>1 DEF Counted, Closing, c
    <3> QED
      BY <1>3, <1>4, <1>5, <3>1 DEF Counted, Closing
  <2> QED
    BY <2>2, <2>3, <2>6, <2>7
<1>10. NoIrqs(trace', task', hist')
  BY <1>2, <1>3, <1>4, <1>5 DEF RecorderInv, RecInv, NoIrqs
<1> QED
  BY <1>6, <1>8, <1>9, <1>10 DEF RecorderInv, RecInv

LEMMA StepStoreStats ==
  ASSUME RecorderInv, StoreStats
  PROVE  RecorderInv'
<1>1. trace \in TraceRecord /\ task \in TaskRecord /\ hist \in HistRecord
  BY DEF RecorderInv, RecInv, WellFormed
<1> DEFINE v == task.reg + 1
<1>2. v \in Nat
  BY <1>1 DEF TaskRecord
<1>3. /\ trace' = [trace EXCEPT !.events = v] /\ hist' = hist /\ task.pc = "events"
      /\ GoesTo("idle", task.reg)
  BY <1>1, GotoFields DEF StoreStats, Pcs, Opening
<1> HIDE DEF v
<1>4. /\ trace' \in TraceRecord /\ trace'.events = v
      /\ trace'.recording = trace.recording /\ trace'.profile = trace.profile
      /\ trace'.count = trace.count /\ trace'.buffer = trace.buffer
      /\ trace'.dropped = trace.dropped /\ trace'.next_event_id = trace.next_event_id
  BY <1>1, <1>2, <1>3 DEF TraceRecord
<1>5. task' \in TaskRecord /\ task'.pc = "idle"
  BY <1>3 DEF GoesTo
<1>6. WellFormed(trace', task', hist')
  BY <1>1, <1>3, <1>4, <1>5 DEF WellFormed, Placing
<1>7. Bounded(trace', task', hist')
  BY <1>3, <1>4, <1>5 DEF RecorderInv, RecInv, Bounded, Missing, Opening, Placing, Closing
<1>8. Undisturbed(trace', task', hist')
  <2> SUFFICES ASSUME hist.raced = 0
               PROVE  /\ Held(trace', hist') /\ Ordered(trace', hist')
                      /\ AtWork(trace', task', hist') /\ Counted(trace', task', hist')
    BY <1>3 DEF Undisturbed
  <2>1. /\ Held(trace, hist) /\ Ordered(trace, hist) /\ AtWork(trace, task, hist)
        /\ Counted(trace, task, hist)
    BY <1>3 DEF RecorderInv, RecInv, Undisturbed
  <2>2. Held(trace', hist') /\ Ordered(trace', hist') /\ AtWork(trace', task', hist')
    BY <1>3, <1>4, <1>5, <2>1 DEF Held, Ordered, AtWork, Placing
  <2>3. Counted(trace', task', hist')
    <3> DEFINE e == trace.events
               h == hist.events
               c == trace.count
    <3>1. e \in Nat /\ h \in Nat /\ c \in Nat
      BY <1>1, RecNumbers
    <3>2. v = e + 1 /\ e - h = c - 1
      BY <1>3, <2>1 DEF v, AtWork, Counted, Closing
    <3> HIDE DEF e, h, c
    <3>3. v - h = c
      BY <3>1, <3>2
    <3> QED
      BY <1>3, <1>4, <1>5, <3>3 DEF Counted, Closing, h, c
  <2> QED
    BY <2>2, <2>3
<1>9. NoIrqs(trace', task', hist')
  BY <1>3, <1>4, <1>5 DEF RecorderInv, RecInv, NoIrqs
<1> QED
  BY <1>6, <1>7, <1>8, <1>9 DEF RecorderInv, RecInv

LEMMA StepStart ==
  ASSUME RecorderInv, NEW p \in BOOLEAN, Start(p)
  PROVE  RecorderInv'
<1>1. trace \in TraceRecord /\ task \in TaskRecord /\ hist \in HistRecord
  BY DEF RecorderInv, RecInv, WellFormed
<1> DEFINE n == IF p THEN 1 ELSE 0
           q == hist.starts + 1
<1>2. n \in Nat /\ q \in Nat
  BY <1>1 DEF HistRecord
<1>3. /\ trace' = [trace EXCEPT !.recording = TRUE]
      /\ task' = [task EXCEPT !.pc = "start2", !.n = n] /\ hist' = [hist EXCEPT !.starts = q]
  BY DEF Start
<1> HIDE DEF n, q
<1>4. trace' \in TraceRecord /\ task' \in TaskRecord /\ hist' \in HistRecord /\ task'.pc = "start2"
  BY <1>1, <1>2, <1>3 DEF TraceRecord, TaskRecord, HistRecord
<1> QED
  BY <1>4 DEF RecorderInv, RecInv, WellFormed, Bounded, Undisturbed, NoIrqs, Opening, Placing, Closing

LEMMA StepStartEmpty ==
  ASSUME RecorderInv, StartEmpty
  PROVE  RecorderInv'
<1>1. trace \in TraceRecord /\ task \in TaskRecord /\ hist \in HistRecord
  BY DEF RecorderInv, RecInv, WellFormed
<1>2. trace.dropped \in Nat /\ trace.events \in Nat /\ Cap \in Nat \ {0}
  BY <1>1, RecNumbers
<1>3. /\ trace' = [trace EXCEPT !.count = 0] /\ GoesTo("start3", task.reg)
      /\ hist' = [hist EXCEPT !.log = <<>>, !.irqs = {}, !.raced = 0, !.early = 0,
                              !.dropped = trace.dropped, !.events = trace.events]
  BY <1>1, GotoFields DEF StartEmpty, Emptied, Pcs
<1>4. /\ trace' \in TraceRecord /\ trace'.count = 0
      /\ trace'.dropped = trace.dropped /\ trace'.events = trace.events
  BY <1>1, <1>2, <1>3 DEF TraceRecord
<1>5. task' \in TaskRecord /\ task'.pc = "start3"
  BY <1>3 DEF GoesTo
<1>6. /\ hist' \in HistRecord /\ hist'.log = <<>> /\ hist'.irqs = {} /\ hist'.raced = 0
      /\ hist'.dropped = trace.dropped /\ hist'.events = trace.events
  <2> DEFINE l == <<>>
             q == {}
             d == trace.dropped
             v == trace.events
  <2>1. l \in Seq(Event) /\ q \in SUBSET Nat /\ d \in Nat /\ v \in Nat
    BY <1>2
  <2>2. hist' = [hist EXCEPT !.log = l, !.irqs = q, !.raced = 0, !.early = 0,
                             !.dropped = d, !.events = v]
    BY <1>3
  <2> HIDE DEF l, q, d, v
  <2>3. /\ hist' \in HistRecord /\ hist'.log = l /\ hist'.irqs = q /\ hist'.raced = 0
        /\ hist'.dropped = d /\ hist'.events = v
    BY <1>1, <2>1, <2>2 DEF HistRecord
  <2> QED
    BY <2>3 DEF l, q, d, v
<1>7. WellFormed(trace', task', hist')
  BY <1>4, <1>5, <1>6 DEF WellFormed, Placing
<1>8. Bounded(trace', task', hist')
  <2>1. Missing(trace', hist') = 0
    <3> DEFINE d == trace.dropped
    <3>1. d \in Nat /\ Missing(trace', hist') = 0 - 0 - (d - d)
      BY <1>2, <1>4, <1>6 DEF Missing
    <3> HIDE DEF d
    <3> QED
      BY <3>1
  <2> QED
    BY <1>5, <1>6, <2>1 DEF Bounded, Opening, Placing, Closing
<1>9. Undisturbed(trace', task', hist')
  <2>1. Held(trace', hist')
    BY <1>2, <1>4, <1>6 DEF Held
  <2>2. Ordered(trace', hist')
    BY <1>6 DEF Ordered
  <2>3. AtWork(trace', task', hist')
    BY <1>5 DEF AtWork, Placing
  <2>4. Counted(trace', task', hist')
    BY <1>2, <1>4, <1>5, <1>6 DEF Counted, Closing
  <2> QED
    BY <2>1, <2>2, <2>3, <2>4 DEF Undisturbed
<1>10. NoIrqs(trace', task', hist')
  BY <1>6 DEF NoIrqs
<1> QED
  BY <1>7, <1>8, <1>9, <1>10 DEF RecorderInv, RecInv

\* The rest of trace_start_profile, and trace_stop.
LEMMA StepQuiet ==
  ASSUME RecorderInv, StartPeak \/ StartProfile \/ Stop
  PROVE  RecorderInv'
<1>1. trace \in TraceRecord /\ task \in TaskRecord /\ hist \in HistRecord
  BY DEF RecorderInv, RecInv, WellFormed
<1>2. /\ hist' = hist /\ task' \in TaskRecord
      /\ \/ task.pc = "start3" /\ task'.pc = "start4" /\ trace' = [trace EXCEPT !.peak = 0]
         \/ task.pc = "start4" /\ task'.pc = "idle" /\ trace' = [trace EXCEPT !.profile = (task.n = 1)]
         \/ task.pc = "idle" /\ task'.pc = "idle" /\ trace' = [trace EXCEPT !.recording = FALSE]
  <2>1. {"start4", "idle"} \subseteq Pcs
    BY DEF Pcs, Opening
  <2> QED
    BY <1>1, <2>1, GotoFields DEF StartPeak, StartProfile, Stop, GoesTo
<1>3. /\ trace' \in TraceRecord /\ trace'.count = trace.count /\ trace'.buffer = trace.buffer
      /\ trace'.dropped = trace.dropped /\ trace'.events = trace.events
      /\ trace'.next_event_id = trace.next_event_id
      /\ trace'.recording => trace.recording
      /\ trace'.profile = trace.profile \/ task.pc = "start4"
  <2> DEFINE q == (task.n = 1)
  <2>1. q \in BOOLEAN
    OBVIOUS
  <2>2. \/ trace' = [trace EXCEPT !.peak = 0]
        \/ trace' = [trace EXCEPT !.profile = q] /\ task.pc = "start4"
        \/ trace' = [trace EXCEPT !.recording = FALSE]
    BY <1>2
  <2> HIDE DEF q
  <2>3. CASE trace' = [trace EXCEPT !.peak = 0]
    BY <1>1, <2>3 DEF TraceRecord
  <2>4. CASE trace' = [trace EXCEPT !.profile = q] /\ task.pc = "start4"
    BY <1>1, <2>1, <2>4 DEF TraceRecord
  <2>5. CASE trace' = [trace EXCEPT !.recording = FALSE]
    BY <1>1, <2>5 DEF TraceRecord
  <2> QED
    BY <2>2, <2>3, <2>4, <2>5
<1>4. WellFormed(trace', task', hist')
  BY <1>1, <1>2, <1>3 DEF WellFormed, Placing
<1>5. Bounded(trace', task', hist')
  BY <1>2, <1>3 DEF RecorderInv, RecInv, Bounded, Missing, Opening, Placing, Closing
<1>6. Undisturbed(trace', task', hist')
  BY <1>2, <1>3 DEF RecorderInv, RecInv, Undisturbed, Held, Ordered, AtWork, Counted, Placing, Closing
<1>7. NoIrqs(trace', task', hist')
  BY <1>2, <1>3 DEF RecorderInv, RecInv, NoIrqs
<1> QED
  BY <1>4, <1>5, <1>6, <1>7 DEF RecorderInv, RecInv

\* The types of the events an interrupt records.
EventTypes == {"irq", "key", "net", "power"}

\* One step of the recursion of Interrupt.
LEMMA NotedSound ==
  ASSUME NEW r, NEW t, NEW h, r = [t |-> t, h |-> h], RecInv(t, task, h), NEW type \in EventTypes
  PROVE  RecInv(Noted(r, type).t, task, Noted(r, type).h)
         /\ Noted(r, type) = [t |-> Noted(r, type).t, h |-> Noted(r, type).h]
<1>1. RecInv(Noted(r, type).t, task, Noted(r, type).h)
  BY NotedKeeps
<1>2. Noted(r, type) = [t |-> Noted(r, type).t, h |-> Noted(r, type).h]
  BY DEF Noted
<1> QED
  BY <1>1, <1>2

LEMMA StepInterrupt ==
  ASSUME RecorderInv, NEW types \in Seq(EventTypes), Interrupt(types)
  PROVE  RecorderInv'
<1> DEFINE n == Len(types)
           a == [t |-> trace, h |-> hist]
           S == {r \in [t : TraceRecord, h : HistRecord] : RecInv(r.t, task, r.h)}
           h == [p \in S \X (1 .. n) |-> Noted(p[1], types[p[2]])]
           Body(f) == [i \in 0 .. n |-> IF i = 0 THEN a ELSE Noted(f[i - 1], types[i])]
           g == CHOOSE f : f = Body(f)
<1>1. n \in Nat /\ \A i \in 1 .. n : types[i] \in EventTypes
  OBVIOUS
<1>2. \A r \in S, type \in EventTypes : Noted(r, type) \in S
  <2> TAKE r \in S, type \in EventTypes
  <2>1. r = [t |-> r.t, h |-> r.h] /\ RecInv(r.t, task, r.h)
    OBVIOUS
  <2> DEFINE u == Noted(r, type)
  <2>2. RecInv(u.t, task, u.h) /\ u = [t |-> u.t, h |-> u.h]
    BY <2>1, NotedSound
  <2>3. u.t \in TraceRecord /\ u.h \in HistRecord
    BY <2>2 DEF RecInv, WellFormed
  <2> HIDE DEF u
  <2>4. [t |-> u.t, h |-> u.h] \in [t : TraceRecord, h : HistRecord]
    BY <2>3
  <2>5. u \in [t : TraceRecord, h : HistRecord]
    BY <2>2, <2>4, Zenon
  <2>6. u \in S
    BY <2>2, <2>5, Zenon
  <2> QED
    BY <2>6 DEF u
<1>3. a \in S
  BY DEF RecorderInv, RecInv, WellFormed
<1> HIDE DEF S, a
<1>4. h \in [S \X (1 .. n) -> S]
  <2>1. ASSUME NEW p \in S \X (1 .. n)
        PROVE  Noted(p[1], types[p[2]]) \in S
    <3>1. p[1] \in S /\ types[p[2]] \in EventTypes
      BY <1>1
    <3> QED
      BY <1>2, <3>1
  <2> QED
    BY <2>1
<1>5. PICK f \in [0 .. n -> S] : f[0] = a /\ \A i \in 1 .. n : f[i] = h[<<f[i - 1], i>>]
  <2> HIDE DEF h, n
  <2>1. \E f : IsRecursion(f, n, S, a, h)
    BY <1>1, <1>3, <1>4, RecursionExists DEF Steps
  <2> QED
    BY <2>1 DEF IsRecursion
<1>6. f = Body(f)
  <2>1. ASSUME NEW i \in 1 .. n
        PROVE  f[i] = Noted(f[i - 1], types[i])
    <3>1. f[i - 1] \in S
      BY <1>1, <1>5
    <3> QED
      BY <1>5, <3>1
  <2> HIDE DEF n
  <2>2. \A i \in 0 .. n : f[i] = IF i = 0 THEN a ELSE Noted(f[i - 1], types[i])
    BY <1>1, <1>5, <2>1
  <2> QED
    BY <1>5, <2>2
<1>7. g = Body(g)
  <2> HIDE DEF Body
  <2> QED
    BY <1>6
<1>8. trace' = g[n].t /\ hist' = g[n].h /\ task' = task
  BY DEF Interrupt, a
<1> HIDE DEF g, h, n
<1>9. g[0] = a /\ \A i \in 1 .. n : g[i] = Noted(g[i - 1], types[i])
  BY <1>1, <1>7
<1> DEFINE T == {i \in 0 .. n : g[i] \in S}
<1>10. 0 \in T
  BY <1>1, <1>3, <1>9
<1>11. ASSUME NEW m \in 0 .. n - 1, m \in T
       PROVE  m + 1 \in T
  <2>1. m + 1 \in 1 .. n /\ (m + 1) - 1 = m
    BY <1>1
  <2>2. g[m + 1] = Noted(g[m], types[m + 1])
    BY <1>9, <2>1
  <2> QED
    BY <1>1, <1>2, <1>11, <2>1, <2>2
<1> HIDE DEF T
<1>12. 0 .. n \subseteq T
  BY <1>1, <1>10, <1>11, SetInduction
<1>13. g[n] \in S
  BY <1>1, <1>12 DEF T
<1> QED
  BY <1>8, <1>13 DEF S, RecorderInv

LEMMA RecorderStarts == RecorderInit => RecorderInv
<1> SUFFICES ASSUME RecorderInit
             PROVE  RecorderInv
  OBVIOUS
<1>1. Cap \in Nat \ {0}
  BY RecorderAssumption
<1> DEFINE b == [i \in Slots |-> Nothing]
           l == <<>>
           q == {}
<1>2. b \in [Slots -> Event] /\ l \in Seq(Event) /\ q \in SUBSET Nat
  BY DEF Nothing, Event
<1>3. /\ trace = [recording |-> FALSE, profile |-> FALSE, next_event_id |-> 1, count |-> 0,
                  buffer |-> b, events |-> 0, dropped |-> 0, peak |-> 0]
      /\ task = [pc |-> "idle", reg |-> 0, id |-> 0, n |-> 0]
      /\ hist = [log |-> l, irqs |-> q, raced |-> 0, early |-> 0, dropped |-> 0,
                 events |-> 0, calls |-> 0, starts |-> 0]
  BY DEF RecorderInit
<1> HIDE DEF b, l, q
<1>4. trace \in TraceRecord /\ trace.count = 0 /\ trace.events = 0 /\ trace.dropped = 0
  BY <1>1, <1>2, <1>3 DEF TraceRecord
<1>5. task \in TaskRecord /\ task.pc = "idle"
  BY <1>3 DEF TaskRecord, Opening
<1>6. hist \in HistRecord /\ hist.log = l /\ hist.irqs = q /\ hist.raced = 0 /\ hist.dropped = 0
      /\ hist.events = 0
  BY <1>2, <1>3 DEF HistRecord
<1>7. Len(hist.log) = 0 /\ hist.irqs = {}
  BY <1>6 DEF l, q
<1>8. WellFormed(trace, task, hist)
  BY <1>4, <1>5, <1>6 DEF WellFormed, Placing
<1>9. Bounded(trace, task, hist)
  BY <1>4, <1>5, <1>6, <1>7 DEF Bounded, Missing, Opening, Placing, Closing
<1>10. Undisturbed(trace, task, hist)
  BY <1>1, <1>4, <1>5, <1>6, <1>7 DEF Undisturbed, Held, Ordered, AtWork, Counted, Placing, Closing
<1>11. NoIrqs(trace, task, hist)
  BY <1>7 DEF NoIrqs
<1> QED
  BY <1>8, <1>9, <1>10, <1>11 DEF RecorderInv, RecInv

LEMMA RecorderKeeps ==
  ASSUME RecorderInv, [Next]_vars
  PROVE  RecorderInv'
<1>1. CASE UNCHANGED recorderVars
  BY <1>1 DEF RecorderInv, recorderVars
<1>2. CASE TimerIrq \/ KeyIrq \/ MouseIrq
  <2>1. CASE TimerIrq
    <3>1. PICK flush \in Flushes : Interrupt(<<"irq">> \o flush)
      BY <2>1 DEF TimerIrq
    <3>2. flush \in Seq(EventTypes)
      <4>1. flush \in Seq({"net", "power"})
        BY IsrAssumption
      <4> QED
        BY <4>1 DEF EventTypes
    <3>3. <<"irq">> \in Seq(EventTypes)
      BY DEF EventTypes
    <3>4. <<"irq">> \o flush \in Seq(EventTypes)
      BY <3>2, <3>3
    <3> QED
      BY <3>1, <3>4, StepInterrupt
  <2>2. CASE KeyIrq
    <3>1. <<"irq", "key">> \in Seq(EventTypes)
      BY DEF EventTypes
    <3> QED
      BY <2>2, <3>1, StepInterrupt DEF KeyIrq
  <2>3. CASE MouseIrq
    <3>1. <<"irq">> \in Seq(EventTypes)
      BY DEF EventTypes
    <3> QED
      BY <2>3, <3>1, StepInterrupt DEF MouseIrq
  <2> QED
    BY <1>2, <2>1, <2>2, <2>3
<1>3. CASE TaskStep
  BY <1>3, StepTakeId, StepCheck, StepDrop, StepLoad, StepStore, StepStoreCount, StepStoreStats,
     StepStartEmpty, StepQuiet DEF TaskStep
<1>4. CASE Call
  BY <1>4, StepCall
<1>5. CASE \E p \in BOOLEAN : Start(p)
  BY <1>5, StepStart
<1> QED
  BY <1>1, <1>2, <1>3, <1>4, <1>5 DEF Next, vars

LEMMA RecorderInvariant == Spec => []RecorderInv
<1>1. Init => RecorderInv
  BY RecorderStarts DEF Init
<1> QED
  BY <1>1, RecorderKeeps, PTL DEF Spec

\* Wherever interrupts fall, the buffer is overrun by one event at most; and a
\* recording that no interrupt disturbed inside trace_record is exact, for
\* every buffer size: its first events in order and whole, ids increasing, the
\* others counted as dropped, the statistics right.
THEOREM RecordingCorrect == Spec => []RecordingExact
<1>1. RecorderInv => RecordingExact
  <2> SUFFICES ASSUME RecorderInv
               PROVE  RecordingExact
    OBVIOUS
  <2>1. trace \in TraceRecord /\ task \in TaskRecord /\ hist \in HistRecord
    BY DEF RecorderInv, RecInv, WellFormed
  <2>2. RecorderTypeOK
    BY <2>1 DEF RecorderTypeOK, TraceRecord
  <2>3. ASSUME Settled, hist.raced = 0
        PROVE  /\ trace.count <= Cap /\ trace.count <= Made
               /\ \A i \in 0 .. trace.count - 1 : trace.buffer[i] = hist.log[i + 1]
               /\ \A i, j \in 1 .. Made : i < j => hist.log[i].id < hist.log[j].id
               /\ Made = trace.count + Drops
               /\ trace.events - hist.events = trace.count
    <3>1. task.pc = "idle"
      BY <2>3 DEF Settled
    <3>2. Held(trace, hist) /\ Ordered(trace, hist) /\ Counted(trace, task, hist)
      BY <2>3, <3>1 DEF RecorderInv, RecInv, Undisturbed
    <3>3. Missing(trace, hist) >= 0 /\ Missing(trace, hist) <= hist.raced
      BY <3>1 DEF RecorderInv, RecInv, Bounded, Opening
    <3>4. Made = trace.count + Drops
      <4> DEFINE l == Len(hist.log)
                 c == trace.count
                 d == trace.dropped
                 b == hist.dropped
      <4>1. l \in Nat /\ c \in Nat /\ d \in Nat /\ b \in Nat
        BY <2>1, RecNumbers
      <4>2. l - c - (d - b) >= 0 /\ l - c - (d - b) <= 0
        BY <2>3, <3>3 DEF Missing
      <4> HIDE DEF l, c, d, b
      <4>3. l = c + (d - b)
        BY <4>1, <4>2
      <4> QED
        BY <4>3 DEF Made, Drops, l, c, d, b
    <3> QED
      BY <3>1, <3>2, <3>4 DEF Held, Ordered, Counted, Closing, Made
  <2> QED
    BY <2>2, <2>3 DEF RecordingExact
<1> QED
  BY <1>1, RecorderInvariant, PTL

\* However many events interrupts record inside trace_record, each costs at
\* most one event, and none is counted twice.
THEOREM LossIsBounded == Spec => []LossBounded
<1>1. RecorderInv => LossBounded
  <2> SUFFICES ASSUME RecorderInv, task.pc = "idle"
               PROVE  Made - trace.count - Drops >= 0 /\ Made - trace.count - Drops <= hist.raced
    BY DEF LossBounded, Settled
  <2>1. Missing(trace, hist) >= 0 /\ Missing(trace, hist) <= hist.raced
    BY DEF RecorderInv, RecInv, Bounded, Opening
  <2> QED
    BY <2>1 DEF Missing, Made, Drops
<1> QED
  BY <1>1, RecorderInvariant, PTL

\* No event of an interrupt's own type is in a profile's recording unless one
\* came while the recording was being started; those of a key and of packets
\* sent by the timer are not filtered.
THEOREM ProfileIsFiltered == Spec => []ProfileFiltered
<1>1. RecorderInv => ProfileFiltered
  BY DEF RecorderInv, RecInv, NoIrqs, ProfileFiltered, Settled
<1> QED
  BY <1>1, RecorderInvariant, PTL

-----------------------------------------------------------------------------
(* The mouse.  The shared port: a byte is the mouse's exactly if it is an   *)
(* acknowledgement, there is at most one, and until one has been taken the  *)
(* mouse is absent.                                                         *)

Byte == 0 .. 255
PortByte == [data : Byte, aux : BOOLEAN]
Phase == {"query", "status", "defaults", "enable", "up"}
Pointers == [x : 0 .. Width - 1, y : 0 .. Height - 1]
MouseRecord == [present : BOOLEAN, x : 0 .. Width - 1, y : 0 .. Height - 1,
                buttons : 0 .. 7, packets : Nat]

NoAck(q) == \A i \in 1 .. Len(q) : ~q[i].aux
OneAck(q) == \A i, j \in 1 .. Len(q) : q[i].aux /\ q[j].aux => i = j

Port(q) == q \in Seq(PortByte) /\ \A i \in 1 .. Len(q) : q[i].aux <=> q[i].data = Ack

\* The exchange of mouse_init, with b its phase, q the port, c the
\* configuration and p whether the mouse is present.
Exchange(b, q, c, p) ==
  /\ b \in Phase /\ Port(q) /\ c \in Byte
  /\ b \in {"query", "status"} => c = Config /\ NoAck(q)
  /\ b = "status" => Len(q) >= 2 \/ (Len(q) = 1 /\ q[1].data = Config)
  /\ b = "defaults" => OneAck(q) /\ (c = Enabled(Config) \/ (Len(q) >= 1 /\ ~q[1].aux))
  /\ b = "enable" => OneAck(q) /\ c = Enabled(Config)
  /\ p => b = "up" /\ NoAck(q) /\ c = Enabled(Config)

\* f is the way of the pointer along the first n movements of ms.
Way(f, ms, n) ==
  /\ f \in [0 .. n -> Pointers] /\ f[0] = [x |-> 40, y |-> 12]
  /\ \A i \in 1 .. n : f[i] = Step(f[i - 1], ms[i])

\* Mouse m has done the first n movements of ms.
Done(m, ms, n) ==
  /\ n \in 0 .. Len(ms) /\ m.packets = n
  /\ n # 0 => m.buttons = ms[n][1]
  /\ \E f \in [0 .. n -> Pointers] : Way(f, ms, n) /\ [x |-> m.x, y |-> m.y] = f[n]

\* The packet p and the bytes w on their way are those of movement b.
Split(p, w, b) ==
  \/ p = <<>> /\ w = b
  \/ p = <<b[1]>> /\ w = <<b[2], b[3]>>
  \/ p = <<b[1], b[2]>> /\ w = <<b[3]>>

Tracked(m, p, ms, w) ==
  IF w = <<>> THEN p = <<>> /\ Done(m, ms, Len(ms))
  ELSE /\ Len(ms) # 0 /\ Done(m, ms, Len(ms) - 1)
       /\ Split(p, w, Bytes(ms[Len(ms)]))

Decoding(m, p, ms, w, l) ==
  /\ m \in MouseRecord /\ p \in Seq(Byte) /\ Len(p) < 3 /\ w \in Seq(Byte)
  /\ ms \in Seq(Moves) /\ l \in Nat
  /\ ~m.present => ms = <<>> /\ w = <<>> /\ p = <<>>
  /\ l = 0 /\ (\A i \in 1 .. Len(ms) : Narrow(ms[i])) => Tracked(m, p, ms, w)

MouseInv ==
  Exchange(boot, port, config, mouse.present) /\ Decoding(mouse, packet, sent, wire, lost)

LEMMA EnabledByte == \A b \in Byte : Enabled(b) \in Byte
  BY DEF Byte, Enabled, Bit

LEMMA TakeByte ==
  ASSUME NEW q, Port(q), q # <<>>
  PROVE  /\ Port(Tail(q)) /\ Head(q) = q[1] /\ q[1] \in PortByte
         /\ q[1].aux <=> q[1].data = Ack
         /\ Len(q) \in Nat \ {0} /\ Len(Tail(q)) = Len(q) - 1
         /\ \A i \in 1 .. Len(q) - 1 : Tail(q)[i] = q[i + 1]
<1> USE DEF Port
<1>1. Len(q) \in Nat \ {0} /\ Len(Tail(q)) = Len(q) - 1 /\ Tail(q) \in Seq(PortByte)
      /\ Head(q) = q[1] /\ q[1] \in PortByte
      /\ \A i \in 1 .. Len(q) - 1 : Tail(q)[i] = q[i + 1]
  OBVIOUS
<1>2. 1 \in 1 .. Len(q)
  BY <1>1
<1>3. ASSUME NEW i \in 1 .. Len(Tail(q))
      PROVE  Tail(q)[i].aux <=> Tail(q)[i].data = Ack
  <2>1. i + 1 \in 1 .. Len(q) /\ Tail(q)[i] = q[i + 1]
    BY <1>1
  <2> QED
    BY <2>1
<1> QED
  BY <1>1, <1>2, <1>3

LEMMA AddByte ==
  ASSUME NEW q, Port(q), NEW b \in PortByte, b.aux <=> b.data = Ack
  PROVE  /\ Port(Append(q, b)) /\ Len(q) \in Nat /\ Len(Append(q, b)) = Len(q) + 1
         /\ Append(q, b)[Len(q) + 1] = b
         /\ \A i \in 1 .. Len(q) : Append(q, b)[i] = q[i]
  BY DEF Port

\* The steps of mouse_init.  Bytes of the keyboard and of the controller are
\* never taken for acknowledgements.
Distinct == Ack \notin {Config, KeyCode}

LEMMA StepBootKey ==
  ASSUME Distinct, MouseInv, BootKey
  PROVE  MouseInv'
<1> DEFINE b == [data |-> KeyCode, aux |-> FALSE]
<1>1. b \in PortByte /\ (b.aux <=> b.data = Ack) /\ ~b.aux
  BY MouseAssumption DEF PortByte, Byte, Distinct
<1>2. port' = Append(port, b) /\ UNCHANGED <<boot, config, mouse, packet, sent, wire, lost>> /\ boot # "up"
  BY DEF BootKey, running
<1> HIDE DEF b
<1>3. Port(port) /\ Port(port') /\ Len(port) \in Nat /\ Len(port') = Len(port) + 1
      /\ port'[Len(port) + 1] = b /\ \A i \in 1 .. Len(port) : port'[i] = port[i]
  BY <1>1, <1>2, AddByte DEF MouseInv, Exchange
<1>4. NoAck(port) => NoAck(port')
  BY <1>1, <1>3 DEF NoAck
<1>5. OneAck(port) => OneAck(port')
  BY <1>1, <1>3 DEF OneAck
<1>6. Len(port) >= 1 => port'[1] = port[1]
  BY <1>3
<1>7. Exchange(boot, port', config, mouse.present)
  BY <1>2, <1>3, <1>4, <1>5, <1>6 DEF MouseInv, Exchange
<1> QED
  BY <1>2, <1>7 DEF MouseInv

LEMMA StepQuery ==
  ASSUME Distinct, MouseInv, Query
  PROVE  MouseInv'
<1> DEFINE b == [data |-> config, aux |-> FALSE]
<1>1. config = Config /\ NoAck(port) /\ Port(port) /\ ~mouse.present
  BY DEF Query, MouseInv, Exchange
<1>2. b \in PortByte /\ (b.aux <=> b.data = Ack) /\ ~b.aux /\ b.data = Config
  BY <1>1, MouseAssumption DEF PortByte, Byte, Distinct
<1>3. /\ port' = Append(port, b) /\ boot' = "status"
      /\ UNCHANGED <<config, mouse, packet, sent, wire, lost>>
  BY DEF Query, running
<1> HIDE DEF b
<1>4. Port(port') /\ Len(port) \in Nat /\ Len(port') = Len(port) + 1
      /\ port'[Len(port) + 1] = b /\ \A i \in 1 .. Len(port) : port'[i] = port[i]
  BY <1>1, <1>2, <1>3, AddByte
<1>5. NoAck(port')
  BY <1>1, <1>2, <1>4 DEF NoAck
<1>6. Len(port') >= 2 \/ (Len(port') = 1 /\ port'[1].data = Config)
  BY <1>2, <1>4
<1>7. Exchange("status", port', config, mouse.present)
  BY <1>1, <1>4, <1>5, <1>6 DEF MouseInv, Exchange, Phase
<1> QED
  BY <1>3, <1>7 DEF MouseInv

\* What an answer of the mouse adds to the port.
LEMMA AnswerAdds ==
  ASSUME NEW q, Port(q), NoAck(q), NEW reply \in BOOLEAN, Answer(q, reply)
  PROVE  Port(port') /\ OneAck(port') /\ Len(q) \in Nat /\ Len(port') >= Len(q)
         /\ \A i \in 1 .. Len(q) : port'[i] = q[i]
<1> DEFINE b == [data |-> Ack, aux |-> TRUE]
<1>1. b \in PortByte /\ (b.aux <=> b.data = Ack) /\ b.aux /\ Len(q) \in Nat
  BY DEF PortByte, Byte, Ack, Port
<1>2. CASE reply
  <2>1. port' = Append(q, b)
    BY <1>2 DEF Answer
  <2> HIDE DEF b
  <2>2. Port(port') /\ Len(q) \in Nat /\ Len(port') = Len(q) + 1
        /\ port'[Len(q) + 1] = b /\ \A i \in 1 .. Len(q) : port'[i] = q[i]
    BY <1>1, <2>1, AddByte
  <2>3. OneAck(port')
    BY <2>2 DEF OneAck, NoAck
  <2> QED
    BY <2>2, <2>3
<1>3. CASE ~reply
  BY <1>1, <1>3 DEF Answer, NoAck, OneAck
<1> QED
  BY <1>2, <1>3

LEMMA StepConfigure ==
  ASSUME Distinct, MouseInv, NEW reply \in BOOLEAN, Configure(reply)
  PROVE  MouseInv'
<1>1. /\ Port(port) /\ NoAck(port) /\ ~mouse.present /\ port # <<>>
      /\ Len(port) >= 2 \/ (Len(port) = 1 /\ port[1].data = Config)
  BY DEF Configure, MouseInv, Exchange
<1>2. /\ config' = Enabled(Head(port).data) /\ Answer(Tail(port), reply) /\ boot' = "defaults"
      /\ UNCHANGED <<mouse, packet, sent, wire, lost>>
  BY DEF Configure, running
<1>3. /\ Port(Tail(port)) /\ Head(port) = port[1] /\ port[1] \in PortByte
      /\ Len(port) \in Nat \ {0} /\ Len(Tail(port)) = Len(port) - 1
      /\ \A i \in 1 .. Len(port) - 1 : Tail(port)[i] = port[i + 1]
  BY <1>1, TakeByte
<1>4. NoAck(Tail(port))
  BY <1>1, <1>3 DEF NoAck
<1>5. /\ Port(port') /\ OneAck(port') /\ Len(port') >= Len(Tail(port))
      /\ \A i \in 1 .. Len(Tail(port)) : port'[i] = Tail(port)[i]
  BY <1>2, <1>3, <1>4, AnswerAdds
<1>6. config' \in Byte
  BY <1>2, <1>3, EnabledByte DEF PortByte
<1>7. config' = Enabled(Config) \/ (Len(port') >= 1 /\ ~port'[1].aux)
  <2>1. CASE Len(port) >= 2
    <3>1. 1 \in 1 .. Len(Tail(port)) /\ Len(port') \in Nat
      BY <1>3, <1>5, <2>1 DEF Port
    <3> QED
      BY <1>3, <1>4, <1>5, <3>1 DEF NoAck
  <2>2. CASE Len(port) = 1 /\ port[1].data = Config
    BY <1>2, <1>3, <2>2
  <2> QED
    BY <1>1, <2>1, <2>2
<1>8. Exchange("defaults", port', config', mouse.present)
  BY <1>1, <1>5, <1>6, <1>7 DEF Exchange, Phase
<1> QED
  BY <1>2, <1>8 DEF MouseInv

\* With its only acknowledgement at the front, the rest of the port has none.
LEMMA AckTaken ==
  ASSUME NEW q, Port(q), OneAck(q), q # <<>>, q[1].aux
  PROVE  NoAck(Tail(q))
<1>1. Len(q) \in Nat \ {0} /\ Len(Tail(q)) = Len(q) - 1
      /\ \A i \in 1 .. Len(q) - 1 : Tail(q)[i] = q[i + 1]
  BY TakeByte
<1> SUFFICES ASSUME NEW i \in 1 .. Len(Tail(q))
             PROVE  ~Tail(q)[i].aux
  BY DEF NoAck
<1>2. i + 1 \in 1 .. Len(q) /\ 1 \in 1 .. Len(q) /\ i + 1 # 1 /\ Tail(q)[i] = q[i + 1]
  BY <1>1
<1> QED
  BY <1>2 DEF OneAck

LEMMA StepDefaults ==
  ASSUME MouseInv, NEW reply \in BOOLEAN, Defaults(reply)
  PROVE  MouseInv'
<1>1. /\ Port(port) /\ OneAck(port) /\ ~mouse.present /\ port # <<>> /\ config \in Byte
      /\ config = Enabled(Config) \/ (Len(port) >= 1 /\ ~port[1].aux)
  BY DEF Defaults, MouseInv, Exchange
<1>2. UNCHANGED <<config, mouse, packet, sent, wire, lost>>
  BY DEF Defaults, running
<1>3. Port(Tail(port)) /\ Head(port) = port[1] /\ (port[1].aux <=> port[1].data = Ack)
  BY <1>1, TakeByte
<1>4. Exchange(boot', port', config, mouse.present)
  <2>1. CASE Acked
    <3>1. boot' = "enable" /\ Answer(Tail(port), reply) /\ port[1].aux
      BY <1>3, <2>1 DEF Defaults, Acked
    <3>2. NoAck(Tail(port)) /\ config = Enabled(Config)
      BY <1>1, <3>1, AckTaken
    <3>3. Port(port') /\ OneAck(port')
      BY <1>3, <3>1, <3>2, AnswerAdds
    <3> QED
      BY <1>1, <3>1, <3>2, <3>3 DEF Exchange, Phase
  <2>2. CASE ~Acked
    <3>1. boot' = "up" /\ port' = Tail(port)
      BY <2>2 DEF Defaults
    <3> QED
      BY <1>1, <1>3, <3>1 DEF Exchange, Phase
  <2> QED
    BY <2>1, <2>2
<1> QED
  BY <1>2, <1>4 DEF MouseInv

\* A mouse that has just answered has done nothing yet.
LEMMA NothingDone ==
  ASSUME NEW m \in MouseRecord, m.x = 40, m.y = 12, m.packets = 0
  PROVE  Done(m, <<>>, 0)
<1> DEFINE f == [i \in 0 .. 0 |-> [x |-> 40, y |-> 12]]
<1>1. f \in [0 .. 0 -> Pointers] /\ f[0] = [x |-> 40, y |-> 12] /\ Len(<<>>) = 0
  BY DEF Pointers, Width, Height
<1> HIDE DEF f
<1>2. Way(f, <<>>, 0)
  BY <1>1 DEF Way
<1> QED
  BY <1>1, <1>2 DEF Done

LEMMA StepEnable ==
  ASSUME MouseInv, Enable
  PROVE  MouseInv'
<1> DEFINE p == Acked
<1>1. /\ Port(port) /\ OneAck(port) /\ ~mouse.present /\ port # <<>> /\ config \in Byte
      /\ config = Enabled(Config) /\ mouse \in MouseRecord
  BY DEF Enable, MouseInv, Exchange, Decoding
<1>2. Port(Tail(port)) /\ Head(port) = port[1] /\ (port[1].aux <=> port[1].data = Ack)
  BY <1>1, TakeByte
<1>3. /\ boot' = "up" /\ port' = Tail(port) /\ mouse' = [mouse EXCEPT !.present = p]
      /\ UNCHANGED <<config, packet, sent, wire, lost>>
  BY DEF Enable, running
<1>4. p \in BOOLEAN /\ (p => NoAck(Tail(port)))
  BY <1>1, <1>2, AckTaken DEF Acked
<1> HIDE DEF p
<1>5. mouse' \in MouseRecord /\ mouse'.present = p
      /\ mouse'.x = mouse.x /\ mouse'.y = mouse.y /\ mouse'.packets = mouse.packets
      /\ mouse'.buttons = mouse.buttons
  BY <1>1, <1>3, <1>4 DEF MouseRecord
<1>6. Exchange("up", port', config, mouse'.present)
  BY <1>1, <1>2, <1>3, <1>4, <1>5 DEF Exchange, Phase
<1>7. sent = <<>> /\ wire = <<>> /\ packet = <<>>
  BY <1>1 DEF MouseInv, Decoding
<1>8. Tracked(mouse, packet, sent, wire) => Tracked(mouse', packet, sent, wire)
  BY <1>5, <1>7 DEF Tracked, Done
<1>9. Decoding(mouse', packet, sent, wire, lost)
  BY <1>5, <1>7, <1>8 DEF MouseInv, Decoding
<1> QED
  BY <1>3, <1>6, <1>9 DEF MouseInv

LEMMA StepGiveUp ==
  ASSUME MouseInv, GiveUp
  PROVE  MouseInv'
  BY DEF MouseInv, GiveUp, Exchange, Phase, running

LEMMA StepStrayKey ==
  ASSUME MouseInv, StrayKey, boot = "up"
  PROVE  MouseInv'
<1>1. UNCHANGED <<boot, config, mouse, packet, sent, wire, lost>> /\ port' = Tail(port) /\ port # <<>>
  BY DEF StrayKey, running
<1>2. /\ Port(Tail(port)) /\ Len(port) \in Nat \ {0} /\ Len(Tail(port)) = Len(port) - 1
      /\ \A i \in 1 .. Len(port) - 1 : Tail(port)[i] = port[i + 1]
  BY <1>1, TakeByte DEF MouseInv, Exchange
<1>3. NoAck(port) => NoAck(Tail(port))
  BY <1>2 DEF NoAck
<1>4. Exchange("up", Tail(port), config, mouse.present)
  BY <1>2, <1>3 DEF MouseInv, Exchange
<1> QED
  BY <1>1, <1>4 DEF MouseInv

\* A byte the mouse left at the port finds it absent.
LEMMA StepStrayByte ==
  ASSUME MouseInv, StrayByte, boot = "up"
  PROVE  MouseInv'
<1>1. /\ UNCHANGED <<boot, config, sent, wire, lost>> /\ port' = Tail(port)
      /\ port # <<>> /\ Head(port).aux
  BY DEF StrayByte
<1>2. /\ Port(Tail(port)) /\ Len(port) \in Nat \ {0} /\ Head(port) = port[1]
  BY <1>1, TakeByte DEF MouseInv, Exchange
<1>3. ~mouse.present
  BY <1>1, <1>2 DEF MouseInv, Exchange, NoAck
<1>4. UNCHANGED <<mouse, packet>>
  BY <1>3 DEF StrayByte, mouse_handle_data
<1>5. Exchange("up", Tail(port), config, mouse.present)
  BY <1>2, <1>3 DEF MouseInv, Exchange
<1> QED
  BY <1>1, <1>4, <1>5 DEF MouseInv

LEMMA StepLose ==
  ASSUME MouseInv, Lose
  PROVE  MouseInv'
<1>1. UNCHANGED <<boot, port, config, mouse, packet, sent>> /\ wire # <<>>
      /\ wire' = Tail(wire) /\ lost' = lost + 1
  BY DEF Lose
<1>2. wire' \in Seq(Byte) /\ lost' \in Nat /\ lost' # 0 /\ mouse.present
  BY <1>1 DEF MouseInv, Decoding
<1>3. Decoding(mouse, packet, sent, wire', lost')
  BY <1>2 DEF MouseInv, Decoding
<1> QED
  BY <1>1, <1>3 DEF MouseInv

LEMMA BytesType ==
  ASSUME NEW m \in Moves
  PROVE  /\ Bytes(m) \in Seq(Byte) /\ Len(Bytes(m)) = 3
         /\ m[1] \in 0 .. 7 /\ m[2] \in -256 .. 255 /\ m[3] \in -256 .. 255
         /\ \A k \in 1 .. 3 : Bytes(m)[k] \in Byte
<1>1. m[1] \in 0 .. 7 /\ m[2] \in -256 .. 255 /\ m[3] \in -256 .. 255
  BY MouseAssumption
<1>2. /\ 8 + m[1] + (IF m[2] < 0 THEN 16 ELSE 0) + (IF m[3] < 0 THEN 32 ELSE 0) \in Byte
      /\ m[2] % 256 \in Byte /\ m[3] % 256 \in Byte
  BY <1>1, SMTT(30) DEF Byte
<1> QED
  BY <1>1, <1>2 DEF Bytes

\* A longer list of movements begins with the same ones.
LEMMA DoneExtends ==
  ASSUME NEW m, NEW ms \in Seq(Moves), NEW c \in Moves, NEW n, Done(m, ms, n)
  PROVE  Done(m, Append(ms, c), n)
<1>1. n \in 0 .. Len(ms) /\ Len(ms) \in Nat /\ Len(Append(ms, c)) = Len(ms) + 1
      /\ \A i \in 1 .. n : Append(ms, c)[i] = ms[i]
  BY DEF Done
<1>2. PICK f \in [0 .. n -> Pointers] : Way(f, ms, n) /\ [x |-> m.x, y |-> m.y] = f[n]
  BY DEF Done
<1>3. Way(f, Append(ms, c), n)
  BY <1>1, <1>2 DEF Way
<1>4. n \in 0 .. Len(Append(ms, c)) /\ (n # 0 => Append(ms, c)[n] = ms[n])
  BY <1>1
<1> QED
  BY <1>2, <1>3, <1>4 DEF Done

LEMMA StepMove ==
  ASSUME MouseInv, NEW c \in Moves, Move(c)
  PROVE  MouseInv'
<1>1. /\ UNCHANGED <<boot, port, config, mouse, packet, lost>> /\ mouse.present
      /\ wire = <<>> /\ sent' = Append(sent, c) /\ wire' = Bytes(c)
  BY DEF Move
<1>2. sent \in Seq(Moves) /\ Decoding(mouse, packet, sent, <<>>, lost)
  BY <1>1 DEF MouseInv, Decoding
<1>3. /\ sent' \in Seq(Moves) /\ Len(sent) \in Nat /\ Len(sent') = Len(sent) + 1
      /\ sent'[Len(sent) + 1] = c /\ \A i \in 1 .. Len(sent) : sent'[i] = sent[i]
  BY <1>1, <1>2
<1>4. wire' \in Seq(Byte) /\ wire' # <<>>
  BY <1>1, BytesType
<1>5. ASSUME lost = 0, \A i \in 1 .. Len(sent') : Narrow(sent'[i])
      PROVE  Tracked(mouse, packet, sent', wire')
  <2>1. \A i \in 1 .. Len(sent) : Narrow(sent[i])
    BY <1>3, <1>5
  <2>2. packet = <<>> /\ Done(mouse, sent, Len(sent))
    BY <1>2, <1>5, <2>1 DEF Decoding, Tracked
  <2>3. Done(mouse, sent', Len(sent') - 1)
    BY <1>1, <1>2, <1>3, <2>2, DoneExtends
  <2>4. Split(packet, wire', Bytes(sent'[Len(sent')]))
    BY <1>1, <1>3, <2>2 DEF Split
  <2>5. Len(sent') # 0
    BY <1>3
  <2> QED
    BY <1>4, <2>3, <2>4, <2>5 DEF Tracked
<1>6. Decoding(mouse, packet, sent', wire', lost)
  BY <1>1, <1>2, <1>3, <1>4, <1>5 DEF Decoding
<1> QED
  BY <1>1, <1>6 DEF MouseInv

LEMMA ClampRange ==
  ASSUME NEW v \in Int, NEW limit \in Nat \ {0}
  PROVE  Clamp(v, limit) \in 0 .. limit - 1
  BY DEF Clamp

\* The fields of a mouse that has decoded packet p.
LEMMA MovedFields ==
  ASSUME NEW m \in MouseRecord, NEW p \in Seq(Byte), Len(p) = 3
  PROVE  /\ Moved(m, p) \in MouseRecord
         /\ Moved(m, p).present = m.present
         /\ Moved(m, p).buttons = p[1] % 8
         /\ Moved(m, p).packets = m.packets + 1
         /\ Moved(m, p).x = Clamp(m.x + s8(p[2]), Width)
         /\ Moved(m, p).y = Clamp(m.y - s8(p[3]), Height)
<1> DEFINE b == p[1] % 8
           x == Clamp(m.x + s8(p[2]), Width)
           y == Clamp(m.y - s8(p[3]), Height)
           k == m.packets + 1
<1>1. p[1] \in Byte /\ p[2] \in Byte /\ p[3] \in Byte
  <2>1. 1 \in 1 .. Len(p) /\ 2 \in 1 .. Len(p) /\ 3 \in 1 .. Len(p)
    OBVIOUS
  <2> QED
    BY <2>1, ElementOfSeq
<1>2. b \in 0 .. 7 /\ s8(p[2]) \in Int /\ s8(p[3]) \in Int
  <2>1. \A v \in Byte : v % 8 \in 0 .. 7 /\ s8(v) \in Int
    BY DEF s8, Byte
  <2> QED
    BY <1>1, <2>1
<1>3. m.x \in Int /\ m.y \in Int /\ k \in Nat
  BY DEF MouseRecord
<1>4. x \in 0 .. Width - 1 /\ y \in 0 .. Height - 1
  <2>1. m.x + s8(p[2]) \in Int /\ m.y - s8(p[3]) \in Int
    BY <1>2, <1>3
  <2>2. Width \in Nat \ {0} /\ Height \in Nat \ {0}
    BY DEF Width, Height
  <2> QED
    BY <2>1, <2>2, ClampRange
<1>5. Moved(m, p) = [m EXCEPT !.buttons = b, !.packets = k, !.x = x, !.y = y]
  BY DEF Moved
<1> HIDE DEF b, x, y, k
<1>6. /\ Moved(m, p) \in MouseRecord /\ Moved(m, p).present = m.present
      /\ Moved(m, p).buttons = b /\ Moved(m, p).packets = k
      /\ Moved(m, p).x = x /\ Moved(m, p).y = y
  BY <1>2, <1>3, <1>4, <1>5 DEF MouseRecord
<1> QED
  BY <1>6 DEF b, x, y, k

\* The decoder undoes the encoding of a movement that fits a signed byte.
LEMMA BytesDecode ==
  ASSUME NEW c \in Moves, Narrow(c)
  PROVE  /\ Synced(Bytes(c)) /\ Bytes(c)[1] % 8 = c[1]
         /\ s8(Bytes(c)[2]) = c[2] /\ s8(Bytes(c)[3]) = c[3]
<1> DEFINE b == c[1]
           x == c[2]
           y == c[3]
           k == 8 + b + (IF x < 0 THEN 16 ELSE 0) + (IF y < 0 THEN 32 ELSE 0)
<1>1. b \in 0 .. 7 /\ x \in -128 .. 127 /\ y \in -128 .. 127
  BY BytesType DEF Narrow
<1>2. Bytes(c)[1] = k /\ Bytes(c)[2] = x % 256 /\ Bytes(c)[3] = y % 256
  BY DEF Bytes
<1> HIDE DEF b, x, y
<1>3. (k \div 8) % 2 = 1 /\ k % 8 = b
  BY <1>1
<1>4. x % 256 = IF x < 0 THEN x + 256 ELSE x
  BY <1>1
<1>5. y % 256 = IF y < 0 THEN y + 256 ELSE y
  BY <1>1
<1>6. s8(x % 256) = x /\ s8(y % 256) = y
  BY <1>1, <1>4, <1>5 DEF s8
<1> QED
  BY <1>2, <1>3, <1>6 DEF Synced, Bit, b, x, y

\* One movement more.
LEMMA DoneNext ==
  ASSUME NEW m \in MouseRecord, NEW w \in MouseRecord, NEW ms \in Seq(Moves),
         Len(ms) # 0, Done(m, ms, Len(ms) - 1),
         w.packets = m.packets + 1, w.buttons = ms[Len(ms)][1],
         [x |-> w.x, y |-> w.y] = Step([x |-> m.x, y |-> m.y], ms[Len(ms)])
  PROVE  Done(w, ms, Len(ms))
<1> DEFINE n == Len(ms)
           a == [x |-> w.x, y |-> w.y]
<1>1. n \in Nat \ {0} /\ n \in 0 .. Len(ms)
  OBVIOUS
<1>2. PICK f \in [0 .. n - 1 -> Pointers] : Way(f, ms, n - 1) /\ [x |-> m.x, y |-> m.y] = f[n - 1]
  BY DEF Done
<1>3. a \in Pointers
  BY DEF MouseRecord, Pointers
<1>4. m.packets = n - 1 /\ w.packets = n /\ w.buttons = ms[n][1] /\ a = Step(f[n - 1], ms[n])
  BY <1>1, <1>2 DEF Done
<1> HIDE DEF a, n
<1> DEFINE g == [i \in 0 .. n |-> IF i < n THEN f[i] ELSE a]
<1>5. g \in [0 .. n -> Pointers] /\ g[n] = a /\ g[0] = f[0] /\ \A i \in 0 .. n - 1 : g[i] = f[i]
  BY <1>1, <1>2, <1>3
<1> HIDE DEF g
<1>6. \A i \in 1 .. n : g[i] = Step(g[i - 1], ms[i])
  <2> TAKE i \in 1 .. n
  <2>1. CASE i = n
    <3>1. g[i - 1] = f[n - 1]
      BY <1>1, <1>5, <2>1
    <3> QED
      BY <1>4, <1>5, <2>1, <3>1
  <2>2. CASE i # n
    <3>1. i \in 1 .. n - 1 /\ i - 1 \in 0 .. n - 1 /\ i \in 0 .. n - 1
      BY <1>1, <2>2
    <3> QED
      BY <1>2, <1>5, <3>1 DEF Way
  <2> QED
    BY <2>1, <2>2
<1>7. Way(g, ms, n)
  BY <1>2, <1>5, <1>6 DEF Way
<1>8. Done(w, ms, n)
  BY <1>1, <1>4, <1>5, <1>7 DEF Done, a
<1> QED
  BY <1>8 DEF n

LEMMA Shifts ==
  ASSUME NEW a \in Byte, NEW b \in Byte, NEW c \in Byte
  PROVE  /\ Head(<<a, b, c>>) = a /\ Tail(<<a, b, c>>) = <<b, c>> /\ Append(<<>>, a) = <<a>>
         /\ Head(<<b, c>>) = b /\ Tail(<<b, c>>) = <<c>> /\ Append(<<a>>, b) = <<a, b>>
         /\ Head(<<c>>) = c /\ Tail(<<c>>) = <<>> /\ Append(<<a, b>>, c) = <<a, b, c>>
<1>1. /\ Head(<<a, b, c>>) = a /\ Tail(<<a, b, c>>) = <<b, c>> /\ Append(<<>>, a) = <<a>>
      /\ Head(<<b, c>>) = b /\ Tail(<<b, c>>) = <<c>>
      /\ Head(<<c>>) = c /\ Tail(<<c>>) = <<>>
  OBVIOUS
<1>2. Append(<<a>>, b) = <<a, b>>
  <2> DEFINE s == Append(<<a>>, b)
             t == <<a, b>>
  <2>1. s \in Seq(Byte) /\ Len(s) = 2 /\ s[1] = a /\ s[2] = b
    OBVIOUS
  <2>2. t \in Seq(Byte) /\ Len(t) = 2 /\ t[1] = a /\ t[2] = b
    OBVIOUS
  <2> HIDE DEF s, t
  <2>3. s = t
    BY <2>1, <2>2, SeqEqual
  <2> QED
    BY <2>3 DEF s, t
<1>3. Append(<<a, b>>, c) = <<a, b, c>>
  <2> DEFINE s == Append(<<a, b>>, c)
             t == <<a, b, c>>
  <2>1. s \in Seq(Byte) /\ Len(s) = 3 /\ s[1] = a /\ s[2] = b /\ s[3] = c
    OBVIOUS
  <2>2. t \in Seq(Byte) /\ Len(t) = 3 /\ t[1] = a /\ t[2] = b /\ t[3] = c
    OBVIOUS
  <2> HIDE DEF s, t
  <2>3. s = t
    BY <2>1, <2>2, SeqEqual
  <2> QED
    BY <2>3 DEF s, t
<1> QED
  BY <1>1, <1>2, <1>3

LEMMA StepMouseByte ==
  ASSUME MouseInv, MouseByte
  PROVE  MouseInv'
<1> DEFINE d == Head(wire)
           p == Append(packet, d)
           c == sent[Len(sent)]
<1>1. /\ UNCHANGED <<boot, port, config, sent, lost>> /\ wire' = Tail(wire)
      /\ wire # <<>> /\ mouse_handle_data(d)
  BY DEF MouseByte
<1>2. Decoding(mouse, packet, sent, wire, lost)
  BY DEF MouseInv
<1>3. /\ mouse \in MouseRecord /\ mouse.present /\ d \in Byte /\ wire' \in Seq(Byte)
      /\ p \in Seq(Byte) /\ sent \in Seq(Moves)
      /\ Len(p) < 3 <=> Len(packet) < 2
      /\ Len(p) = 3 <=> Len(packet) = 2
      /\ Len(p) < 3 \/ Len(p) = 3
  <2>1. /\ mouse \in MouseRecord /\ mouse.present /\ sent \in Seq(Moves) /\ wire \in Seq(Byte)
        /\ packet \in Seq(Byte) /\ Len(packet) < 3
    BY <1>1, <1>2 DEF Decoding
  <2>2. d \in Byte /\ wire' \in Seq(Byte)
    BY <1>1, <2>1
  <2> HIDE DEF d
  <2>3. p \in Seq(Byte) /\ Len(p) = Len(packet) + 1 /\ Len(packet) \in Nat
    BY <2>1, <2>2
  <2> DEFINE n == Len(packet)
             k == Len(p)
  <2>4. k = n + 1 /\ n \in Nat /\ n < 3
    BY <2>1, <2>3
  <2> HIDE DEF n, k
  <2>5. (k < 3 <=> n < 2) /\ (k = 3 <=> n = 2) /\ (k < 3 \/ k = 3)
    BY <2>4
  <2> QED
    BY <2>1, <2>2, <2>3, <2>5 DEF n, k
<1>4. CASE Len(p) < 3
  <2>1. packet' = p /\ mouse' = mouse
    BY <1>1, <1>3, <1>4 DEF mouse_handle_data
  <2>2. ASSUME Tracked(mouse, packet, sent, wire)
        PROVE  Tracked(mouse, p, sent, wire')
    <3>1. Len(sent) # 0 /\ Done(mouse, sent, Len(sent) - 1) /\ Split(packet, wire, Bytes(c))
      BY <1>1, <2>2 DEF Tracked
    <3>2. c \in Moves
      BY <1>3, <3>1
    <3> DEFINE b == Bytes(c)
    <3>3. b \in Seq(Byte) /\ Len(b) = 3 /\ b = <<b[1], b[2], b[3]>>
          /\ b[1] \in Byte /\ b[2] \in Byte /\ b[3] \in Byte
      BY <3>2, BytesType DEF Bytes
    <3> HIDE DEF b, c
    <3>4. Split(p, wire', b) /\ wire' # <<>>
      <4>1. CASE packet = <<>> /\ wire = b
        <5>1. d = b[1] /\ wire' = <<b[2], b[3]>> /\ p = <<b[1]>>
          <6>1. Head(wire) = b[1] /\ Tail(wire) = <<b[2], b[3]>>
            <7>1. b[1] \in Byte /\ b[2] \in Byte /\ b[3] \in Byte /\ wire = <<b[1], b[2], b[3]>>
              BY <3>3, <4>1
            <7> QED
              BY ONLY <7>1, Shifts
          <6>2. Append(packet, b[1]) = <<b[1]>>
            BY <3>3, <4>1, Shifts
          <6> QED
            BY <1>1, <6>1, <6>2
        <5> QED
          BY <5>1 DEF Split
      <4>2. CASE packet = <<b[1]>> /\ wire = <<b[2], b[3]>>
        <5>1. d = b[2] /\ wire' = <<b[3]>> /\ p = <<b[1], b[2]>>
          <6>1. Head(wire) = b[2] /\ Tail(wire) = <<b[3]>>
            BY <3>3, <4>2, Shifts
          <6>2. Append(packet, b[2]) = <<b[1], b[2]>>
            BY <3>3, <4>2, Shifts
          <6> QED
            BY <1>1, <6>1, <6>2
        <5> QED
          BY <5>1 DEF Split
      <4>3. CASE packet = <<b[1], b[2]>> /\ wire = <<b[3]>>
        <5>1. Len(packet) = 2
          BY <4>3
        <5> QED
          BY <1>3, <1>4, <5>1
      <4> QED
        BY <3>1, <4>1, <4>2, <4>3 DEF Split, b
    <3> QED
      BY <3>1, <3>4 DEF Tracked, b, c
  <2>3. Decoding(mouse, p, sent, wire', lost)
    BY <1>2, <1>3, <1>4, <2>2 DEF Decoding
  <2> QED
    BY <1>1, <2>1, <2>3 DEF MouseInv
<1>5. CASE Len(p) = 3
  <2>1. packet' = <<>> /\ mouse' = IF Synced(p) THEN Moved(mouse, p) ELSE mouse
    BY <1>1, <1>3, <1>5 DEF mouse_handle_data
  <2>2. mouse' \in MouseRecord /\ mouse'.present = mouse.present
    BY <1>3, <1>5, <2>1, MovedFields
  <2>3. ASSUME Tracked(mouse, packet, sent, wire), \A i \in 1 .. Len(sent) : Narrow(sent[i])
        PROVE  Tracked(mouse', <<>>, sent, wire')
    <3>1. Len(sent) # 0 /\ Done(mouse, sent, Len(sent) - 1) /\ Split(packet, wire, Bytes(c))
      BY <1>1, <2>3 DEF Tracked
    <3>2. c \in Moves /\ Narrow(c)
      BY <1>3, <2>3, <3>1
    <3> DEFINE b == Bytes(c)
    <3>3. b \in Seq(Byte) /\ Len(b) = 3 /\ b = <<b[1], b[2], b[3]>>
          /\ b[1] \in Byte /\ b[2] \in Byte /\ b[3] \in Byte
      BY <3>2, BytesType DEF Bytes
    <3>4. Synced(b) /\ b[1] % 8 = c[1] /\ s8(b[2]) = c[2] /\ s8(b[3]) = c[3]
      BY <3>2, BytesDecode
    <3> HIDE DEF b, c
    <3>5. p = b /\ wire' = <<>>
      <4>1. packet = <<b[1], b[2]>> /\ wire = <<b[3]>>
        <5> HIDE DEF p, d
        <5>1. Len(packet) = 2
          BY <1>3, <1>5
        <5> QED
          BY <3>1, <5>1 DEF Split, b
      <4>2. d = b[3] /\ wire' = <<>>
        BY <1>1, <3>3, <4>1, Shifts
      <4> HIDE DEF d
      <4> QED
        BY <3>3, <4>1, <4>2, Shifts
    <3>6. mouse' = Moved(mouse, p)
      BY <2>1, <3>4, <3>5
    <3>7. /\ mouse'.buttons = c[1] /\ mouse'.packets = mouse.packets + 1
          /\ mouse'.x = Clamp(mouse.x + c[2], Width)
          /\ mouse'.y = Clamp(mouse.y - c[3], Height)
      <4> HIDE DEF p
      <4> QED
        BY <1>3, <1>5, <3>4, <3>5, <3>6, MovedFields
    <3>8. [x |-> mouse'.x, y |-> mouse'.y] = Step([x |-> mouse.x, y |-> mouse.y], c)
      BY <3>7 DEF Step
    <3>9. Done(mouse', sent, Len(sent))
      BY <1>3, <2>2, <3>1, <3>7, <3>8, DoneNext DEF c
    <3> QED
      BY <3>5, <3>9 DEF Tracked
  <2>4. Decoding(mouse', <<>>, sent, wire', lost)
    <3>1. <<>> \in Seq(Byte) /\ Len(<<>>) < 3
      OBVIOUS
    <3> QED
      BY <1>2, <1>3, <2>2, <2>3, <3>1 DEF Decoding
  <2> QED
    BY <1>1, <2>1, <2>2, <2>4 DEF MouseInv
<1> HIDE DEF p
<1> QED
  BY <1>3, <1>4, <1>5

LEMMA MouseBegins == MouseInit => MouseInv
<1> SUFFICES ASSUME MouseInit
             PROVE  MouseInv
  OBVIOUS
<1> USE DEF MouseInit
<1>1. mouse \in MouseRecord /\ mouse.x = 40 /\ mouse.y = 12 /\ mouse.packets = 0 /\ ~mouse.present
  BY DEF MouseRecord, Width, Height
<1>2. Len(<<>>) = 0 /\ <<>> \in Seq(Byte) /\ <<>> \in Seq(Moves) /\ <<>> \in Seq(PortByte)
  OBVIOUS
<1>3. Tracked(mouse, <<>>, <<>>, <<>>)
  BY <1>1, <1>2, NothingDone DEF Tracked
<1>4. Decoding(mouse, packet, sent, wire, lost)
  BY <1>1, <1>2, <1>3 DEF Decoding
<1>5. Exchange(boot, port, config, mouse.present)
  BY <1>1, <1>2, MouseAssumption DEF Exchange, Port, NoAck, Phase, Byte
<1> QED
  BY <1>4, <1>5 DEF MouseInv

LEMMA MouseKeeps ==
  ASSUME Distinct, MouseInv, [Next]_vars
  PROVE  MouseInv'
<1>1. ASSUME UNCHANGED mouseVars
      PROVE  MouseInv'
  BY <1>1 DEF MouseInv, mouseVars
<1>2. ASSUME BootStep
      PROVE  MouseInv'
  BY <1>2, StepBootKey, StepQuery, StepConfigure, StepDefaults, StepEnable, StepGiveUp DEF BootStep
<1>3. ASSUME boot = "up", TimerIrq \/ KeyIrq \/ MouseIrq
      PROVE  MouseInv'
  BY <1>1, <1>3, StepStrayKey, StepStrayByte, StepMouseByte DEF TimerIrq, KeyIrq, MouseIrq
<1>4. ASSUME (\E m \in Moves : Move(m)) \/ Lose
      PROVE  MouseInv'
  BY <1>4, StepMove, StepLose
<1> QED
  BY <1>1, <1>2, <1>3, <1>4 DEF Next, vars

LEMMA MouseInvariant == Distinct /\ Spec => []MouseInv
<1>1. SUFFICES ASSUME Distinct
               PROVE  Spec => []MouseInv
  OBVIOUS
<1>2. Init => MouseInv
  BY MouseBegins DEF Init
<1>3. MouseInv /\ [Next]_vars => MouseInv'
  BY <1>1, MouseKeeps
<1> QED
  BY <1>2, <1>3, PTL DEF Spec

\* A mouse that mouse_init reports present has answered both commands, and
\* the configuration byte is the controller's own but for the two bits: a key
\* pressed at any moment of the exchange, and taken for an answer, can only
\* make the mouse absent.  For every configuration byte and scan code that is
\* no acknowledgement.
THEOREM PresentIsConfigured == Distinct /\ Spec => []PresentMeansConfigured
<1>1. MouseInv => PresentMeansConfigured
  BY DEF MouseInv, Exchange, PresentMeansConfigured
<1> QED
  BY <1>1, MouseInvariant, PTL

\* The recursion of Pointer has one solution only.
LEMMA PointerIs ==
  ASSUME NEW ms \in Seq(Moves), NEW f \in [0 .. Len(ms) -> Pointers], Way(f, ms, Len(ms))
  PROVE  Pointer(ms) = f[Len(ms)]
<1> DEFINE k == Len(ms)
           a == [x |-> 40, y |-> 12]
           Body(h) == [i \in 0 .. k |-> IF i = 0 THEN a ELSE Step(h[i - 1], ms[i])]
           g == CHOOSE h : h = Body(h)
<1>1. k \in Nat
  OBVIOUS
<1>2. f[0] = a /\ \A i \in 1 .. k : f[i] = Step(f[i - 1], ms[i])
  BY DEF Way
<1>3. f = Body(f)
  <2> HIDE DEF k
  <2>1. f \in [0 .. k -> Pointers]
    BY DEF k
  <2>2. \A i \in 0 .. k : f[i] = IF i = 0 THEN a ELSE Step(f[i - 1], ms[i])
    BY <1>1, <1>2
  <2> QED
    BY <2>1, <2>2
<1>4. g = Body(g)
  <2> HIDE DEF Body
  <2> QED
    BY <1>3
<1>5. Pointer(ms) = g[k]
  BY DEF Pointer
<1> HIDE DEF g, k, a
<1>6. g[0] = a /\ \A i \in 1 .. k : g[i] = Step(g[i - 1], ms[i])
  BY <1>1, <1>4
<1> DEFINE T == {i \in 0 .. k : g[i] = f[i]}
<1>7. 0 \in T
  BY <1>1, <1>2, <1>6
<1>8. ASSUME NEW n \in 0 .. k - 1, n \in T
      PROVE  n + 1 \in T
  <2>1. n + 1 \in 1 .. k /\ (n + 1) - 1 = n /\ n + 1 \in 0 .. k
    BY <1>1
  <2>2. g[n + 1] = Step(g[n], ms[n + 1]) /\ f[n + 1] = Step(f[n], ms[n + 1])
    BY <1>2, <1>6, <2>1
  <2> QED
    BY <1>8, <2>1, <2>2
<1> HIDE DEF T
<1>9. 0 .. k \subseteq T
  BY <1>1, <1>7, <1>8, SetInduction
<1>10. g[k] = f[k]
  BY <1>1, <1>9 DEF T
<1> QED
  BY <1>5, <1>10 DEF k

\* The decoder keeps the pointer on the screen whatever bytes come and, while
\* none is lost and every movement fits a signed byte, takes it exactly where
\* the movements did, however many there were.
THEOREM MouseFollows == Distinct /\ Spec => []MouseTracks
<1>1. MouseInv => MouseTracks
  <2> SUFFICES ASSUME MouseInv
               PROVE  MouseTracks
    OBVIOUS
  <2>1. MouseTypeOK
    BY DEF MouseInv, Exchange, Decoding, MouseRecord, Byte, MouseTypeOK
  <2>2. ASSUME lost = 0, wire = <<>>, sent # <<>>, \A i \in DOMAIN sent : Narrow(sent[i])
        PROVE  /\ [x |-> mouse.x, y |-> mouse.y] = Pointer(sent)
               /\ mouse.buttons = sent[Len(sent)][1] /\ mouse.packets = Len(sent)
    <3>1. sent \in Seq(Moves) /\ DOMAIN sent = 1 .. Len(sent) /\ Len(sent) # 0
      BY <2>2 DEF MouseInv, Decoding
    <3>2. Done(mouse, sent, Len(sent))
      BY <2>2, <3>1 DEF MouseInv, Decoding, Tracked
    <3> QED
      BY <3>1, <3>2, PointerIs DEF Done
  <2> QED
    BY <2>1, <2>2 DEF MouseTracks
<1> QED
  BY <1>1, MouseInvariant, PTL
=============================================================================

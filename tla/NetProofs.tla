----------------------------- MODULE NetProofs ------------------------------
(***************************************************************************)
(* Proofs about Net, for every capacity, batch limit, flush interval and   *)
(* number of payloads.  The types hold wherever the timer interrupt comes. *)
(* The exactness of the queues and of the statistics, and the refinement   *)
(* of Fifo, hold when it comes at the places of Harmless only.             *)
(***************************************************************************)
EXTENDS Net, Lemmas, SequenceTheorems

-----------------------------------------------------------------------------
(* The inductive invariant.                                                 *)

InTransmit == {"transmit", "rxslot", "rxfill", "rxstore"}
InPop == {"pophead", "popload", "popstore"}
InEnqueue == {"test", "slot", "slotcount", "fill", "load", "store"}

\* A call that has added nothing to the queue, or no call at all.
Outer == pc \in {"idle"} \cup InEnqueue \/ (pc \in InTransmit /\ ~loc.inflush)

\* The transmit queue and the locals that speak of it: the ring never
\* overflows, a loaded value is still current where it is used, and the slot
\* an enqueue chose stays the first free one when a flush comes in between.
TxInv ==
  /\ loc.retried = FALSE
  /\ tx_count <= Cap /\ (Outer => tx_count < Cap)
  /\ pc \in InPop => loc.inflush
  /\ loc.inflush => pc \in InTransmit \cup InPop /\ tx_count > 0
  /\ pc = "slotcount" => loc.slot = tx_head
  /\ pc = "fill" => loc.slot = (tx_head + tx_count) % Cap
  /\ pc \in {"load", "store"} => tx_queue[(tx_head + tx_count) % Cap] = loc.payload
  /\ pc \in {"store", "note", "popstore"} => loc.c = tx_count
  /\ pc = "fetch" => tx_count > 0
  /\ loc.inflush /\ pc \notin {"popload", "popstore"} => loc.slot = tx_head
  /\ pc = "flushend" => tx_count = 0
  /\ pc \in InEnqueue => loc.payload > 0

\* The statistics: a packet is counted as flushed when its flush ends.
StatInv ==
  /\ Outer \/ pc = "batch" => pending = tx_count
  /\ Outer \/ pc \in {"report", "note", "batch"} => loc.n = 0
  /\ enqueued + (IF pc \in {"popload", "popstore"} THEN 1 ELSE 0) = flushed + tx_count + loc.n

\* Queue q holds the newest of the packets h.
RxHolds(q, h) ==
  /\ q.count <= Cap
  /\ q.packets = Len(h) /\ q.packets = q.dropped + q.count
  /\ \A i \in 0 .. q.count - 1 : q.ring[(q.head + i) % Cap] = h[Len(h) - q.count + 1 + i]

\* The queue with its newest packet counted in.
RxCounted(q) == [q EXCEPT !.count = @ + 1, !.packets = @ + 1]

RxInv ==
  /\ pc # "rxstore" => RxHolds(rx, heard)
  /\ pc = "rxfill" => rx.count < Cap /\ loc.c = (rx.head + rx.count) % Cap
  /\ pc = "rxstore" => loc.c = rx.count /\ RxHolds(RxCounted(rx), heard)

NetInv == TypeOK /\ TxInv /\ StatInv /\ RxInv

-----------------------------------------------------------------------------
(* The receive queue.                                                       *)

\* The constants that index arithmetic is about.
LEMMA CapFacts ==
  /\ Cap \in Nat \ {0} /\ Wrap \in Nat \ {0} /\ Cap < Wrap /\ MaxWrites \in Nat
  /\ Limit \in [Modes -> Nat \ {0}] /\ \A m \in Modes : Limit[m] <= Cap
  BY NetAssumption

\* Making room keeps the queue well formed.
LEMMA RxRoomType ==
  ASSUME NEW q \in RxRecord
  PROVE  /\ RxRoom(q) \in RxRecord
         /\ (RxRoom(q).head + RxRoom(q).count) % Cap \in 0 .. Cap - 1
<1>1. q.head + 1 \in Int
  BY DEF RxRecord
<1>2. (q.head + 1) % Cap \in 0 .. Cap - 1
  BY <1>1, ModRange, CapFacts
<1>3. q.count = Cap => q.count - 1 \in Nat
  BY CapFacts
<1>4. RxRoom(q) \in RxRecord
  <2> DEFINE h == (q.head + 1) % Cap
  <2>1. CASE q.count = Cap
    <3>1. RxRoom(q) = [q EXCEPT !.head = h, !.count = @ - 1, !.dropped = @ + 1]
      BY <2>1 DEF RxRoom
    <3> HIDE DEF h
    <3>2. h \in 0 .. Cap - 1
      BY <1>2 DEF h
    <3>3. RxRoom(q) = [ring |-> q.ring, head |-> h, count |-> q.count - 1,
                       dropped |-> q.dropped + 1, packets |-> q.packets]
      BY <3>1 DEF RxRecord
    <3>4. q.dropped + 1 \in Nat /\ q.ring \in [0 .. Cap - 1 -> Payload] /\ q.packets \in Nat
      BY DEF RxRecord
    <3> QED
      BY <1>3, <2>1, <3>2, <3>3, <3>4 DEF RxRecord
  <2>2. CASE q.count # Cap
    BY <2>2 DEF RxRoom
  <2> QED
    BY <2>1, <2>2
<1>5. RxRoom(q).head + RxRoom(q).count \in Int
  BY <1>4 DEF RxRecord
<1> QED
  BY <1>4, <1>5, ModRange, CapFacts

LEMMA EnqueueType ==
  ASSUME NEW q \in RxRecord, NEW p \in Payload
  PROVE  enqueue_rx_packet(q, p) \in RxRecord
<1> DEFINE r == RxRoom(q)
           s == (r.head + r.count) % Cap
<1>1. r \in RxRecord /\ s \in 0 .. Cap - 1
  BY RxRoomType
<1>2. enqueue_rx_packet(q, p)
        = [r EXCEPT !.ring[s] = p, !.count = @ + 1, !.packets = @ + 1]
  BY DEF enqueue_rx_packet
<1> HIDE DEF r, s
<1>3. [r.ring EXCEPT ![s] = p] \in [0 .. Cap - 1 -> Payload]
  BY <1>1 DEF RxRecord
<1>4. r.count + 1 \in Nat /\ r.packets + 1 \in Nat
  BY <1>1 DEF RxRecord
<1>5. enqueue_rx_packet(q, p)
        = [ring |-> [r.ring EXCEPT ![s] = p], head |-> r.head, count |-> r.count + 1,
           dropped |-> r.dropped, packets |-> r.packets + 1]
  BY <1>1, <1>2 DEF RxRecord
<1> QED
  BY <1>1, <1>3, <1>4, <1>5 DEF RxRecord

\* Receiving a batch is receiving its packets one after the other.
LEMMA RxAfterSteps ==
  ASSUME NEW q \in RxRecord, NEW batch \in Seq(Payload)
  PROVE  \E f \in [0 .. Len(batch) -> RxRecord] :
           /\ f[0] = q
           /\ \A i \in 1 .. Len(batch) : f[i] = enqueue_rx_packet(f[i - 1], batch[i])
           /\ RxAfter(q, batch) = f[Len(batch)]
<1> DEFINE k == Len(batch)
           h == [p \in RxRecord \X (1 .. k) |-> enqueue_rx_packet(p[1], batch[p[2]])]
           Body(f) == [i \in 0 .. k |-> IF i = 0 THEN q ELSE enqueue_rx_packet(f[i - 1], batch[i])]
           g == CHOOSE f : f = Body(f)
<1>1. k \in Nat /\ \A i \in 1 .. k : batch[i] \in Payload
  OBVIOUS
<1>2. h \in [RxRecord \X (1 .. k) -> RxRecord]
  <2>1. ASSUME NEW p \in RxRecord \X (1 .. k)
        PROVE  enqueue_rx_packet(p[1], batch[p[2]]) \in RxRecord
    <3>1. p[1] \in RxRecord /\ p[2] \in 1 .. k
      OBVIOUS
    <3> QED
      BY <1>1, <3>1, EnqueueType
  <2> QED
    BY <2>1
<1>3. PICK f \in [0 .. k -> RxRecord] :
        f[0] = q /\ \A i \in 1 .. k : f[i] = h[<<f[i - 1], i>>]
  <2> HIDE DEF k, h
  <2>1. \E f : IsRecursion(f, k, RxRecord, q, h)
    BY <1>1, <1>2, RecursionExists DEF Steps
  <2> QED
    BY <2>1 DEF IsRecursion
<1>4. \A i \in 1 .. k : f[i] = enqueue_rx_packet(f[i - 1], batch[i])
  <2> TAKE i \in 1 .. k
  <2>1. f[i - 1] \in RxRecord
    BY <1>1, <1>3
  <2> QED
    BY <1>3, <2>1
<1>5. f = Body(f)
  <2> HIDE DEF k
  <2>1. \A i \in 0 .. k : f[i] = IF i = 0 THEN q ELSE enqueue_rx_packet(f[i - 1], batch[i])
    BY <1>1, <1>3, <1>4
  <2> QED
    BY <1>3, <2>1
<1>6. g = Body(g)
  <2> HIDE DEF Body
  <2> QED
    BY <1>5
<1>7. RxAfter(q, batch) = g[k]
  BY DEF RxAfter
<1> HIDE DEF g, k, h
<1>8. g[0] = q /\ \A i \in 1 .. k : g[i] = enqueue_rx_packet(g[i - 1], batch[i])
  BY <1>1, <1>6
<1>9. \A i \in 0 .. k : g[i] \in RxRecord
  <2> DEFINE T == {i \in 0 .. k : g[i] \in RxRecord}
  <2>1. 0 \in T
    BY <1>1, <1>8
  <2>2. ASSUME NEW n \in 0 .. k - 1, n \in T
        PROVE  n + 1 \in T
    <3>1. n + 1 \in 1 .. k /\ (n + 1) - 1 = n
      BY <1>1
    <3>2. g[n + 1] = enqueue_rx_packet(g[n], batch[n + 1])
      BY <1>8, <3>1
    <3> QED
      BY <1>1, <2>2, <3>1, <3>2, EnqueueType
  <2> HIDE DEF T
  <2>3. 0 .. k \subseteq T
    BY <1>1, <2>1, <2>2, SetInduction
  <2> QED
    BY <2>3 DEF T
<1>10. g \in [0 .. k -> RxRecord]
  BY <1>6, <1>9
<1> QED
  BY <1>7, <1>8, <1>10 DEF k

-----------------------------------------------------------------------------
(* The types, wherever interrupts come.                                     *)

LEMMA BatchType ==
  ASSUME TypeOK, NEW h \in Nat, NEW k \in Nat
  PROVE  /\ Batch(h, k) \in Seq(Payload) /\ Len(Batch(h, k)) = k
         /\ \A i \in 1 .. k : Batch(h, k)[i] = tx_queue[(h + i - 1) % Cap]
<1>1. \A i \in 1 .. k : tx_queue[(h + i - 1) % Cap] \in Payload
  <2> TAKE i \in 1 .. k
  <2>1. h + i - 1 \in Int
    OBVIOUS
  <2>2. (h + i - 1) % Cap \in 0 .. Cap - 1
    BY <2>1, ModRange, CapFacts
  <2> QED
    BY <2>2 DEF TypeOK
<1> QED
  BY <1>1 DEF Batch

LEMMA RxAfterType ==
  ASSUME NEW q \in RxRecord, NEW batch \in Seq(Payload)
  PROVE  RxAfter(q, batch) \in RxRecord
<1>1. PICK f \in [0 .. Len(batch) -> RxRecord] : RxAfter(q, batch) = f[Len(batch)]
  BY RxAfterSteps
<1>2. Len(batch) \in 0 .. Len(batch)
  OBVIOUS
<1> QED
  BY <1>1, <1>2

LEMMA TypeInit == Init => TypeOK
  BY CapFacts DEF Init, TypeOK, Modes, Places, Payload, RxRecord, Locals, NoLocals

\* What the end of a call leaves.
LEMMA FinishType ==
  ASSUME Finish
  PROVE  pc' \in Places /\ loc' \in Locals
<1>1. NoLocals \in Locals
  BY CapFacts DEF NoLocals, Locals, Payload
<1>2. [NoLocals EXCEPT !.op = "send"] \in Locals
  BY <1>1 DEF Locals
<1> QED
  BY <1>1, <1>2 DEF Finish, Places

\* The numbers among the variables and locals, and what may be stored there.
LEMMA NumberTypes ==
  ASSUME TypeOK
  PROVE  /\ tx_head \in 0 .. Cap - 1 /\ tx_count \in 0 .. Wrap - 1
         /\ pending \in Nat /\ enqueued \in Nat /\ flushed \in Nat
         /\ loc.c \in Nat /\ loc.n \in Nat /\ loc.slot \in 0 .. Cap - 1
         /\ loc.payload \in 0 .. MaxWrites /\ writes \in 0 .. MaxWrites
         /\ rx.count \in Nat /\ rx.head \in 0 .. Cap - 1 /\ rx.packets \in Nat
         /\ rx.dropped \in Nat /\ rx.ring \in [0 .. Cap - 1 -> Payload]
  BY DEF TypeOK, Locals, RxRecord, Payload

LEMMA LocalsUpdate ==
  ASSUME NEW l \in Locals
  PROVE  /\ \A x \in Nat : [l EXCEPT !.c = x] \in Locals /\ [l EXCEPT !.n = x] \in Locals
         /\ \A x \in 0 .. Cap - 1 : /\ [l EXCEPT !.slot = x] \in Locals
                                    /\ [l EXCEPT !.slot = x, !.inflush = TRUE] \in Locals
         /\ \A b \in BOOLEAN : /\ [l EXCEPT !.inflush = b] \in Locals
                              /\ [l EXCEPT !.retried = b] \in Locals
  BY DEF Locals

LEMMA TypeTick ==
  ASSUME TypeOK, Tick
  PROVE  TypeOK'
<1> DEFINE b == Batch(tx_head, tx_count)
<1>1. b \in Seq(Payload)
  BY BatchType DEF TypeOK
<1>2. RxAfter(rx, b) \in RxRecord
  BY <1>1, RxAfterType DEF TypeOK
<1>3. (tx_head + tx_count) % Cap \in 0 .. Cap - 1
  <2>1. tx_head + tx_count \in Int
    BY DEF TypeOK
  <2> QED
    BY <2>1, ModRange, CapFacts
<1>4. CASE ticks + 1 >= Interval[mode] /\ TickFlushes
  <2>1. FlushWhole /\ ticks' = 0
        /\ UNCHANGED <<mode, loopback, tx_queue, enqueued, pc, loc, writes, accepted>>
    BY <1>4 DEF Tick
  <2>2. /\ wire' = wire \o b /\ drained' = drained \o b
        /\ tx_head' = (tx_head + tx_count) % Cap /\ tx_count' = 0 /\ pending' = 0
        /\ flushed' = flushed + tx_count
    BY <2>1 DEF FlushWhole
  <2>3. \/ rx' = RxAfter(rx, b) /\ heard' = heard \o b
        \/ rx' = rx /\ heard' = heard
    BY <2>1 DEF FlushWhole
  <2> HIDE DEF b
  <2>4. rx' \in RxRecord /\ {accepted', wire', drained', heard'} \subseteq Seq(Payload)
    <3>1. /\ accepted \in Seq(Payload) /\ wire \in Seq(Payload)
          /\ drained \in Seq(Payload) /\ heard \in Seq(Payload) /\ rx \in RxRecord
      BY DEF TypeOK
    <3>2. wire \o b \in Seq(Payload) /\ drained \o b \in Seq(Payload) /\ heard \o b \in Seq(Payload)
      BY <1>1, <3>1
    <3> QED
      BY <1>2, <2>1, <2>2, <2>3, <3>1, <3>2
  <2>5. tx_head' \in 0 .. Cap - 1 /\ tx_count' \in 0 .. Wrap - 1 /\ flushed' \in Nat
    BY <1>3, <2>2, CapFacts DEF TypeOK
  <2> QED
    BY <2>1, <2>2, <2>4, <2>5 DEF TypeOK
<1>5. CASE ~(ticks + 1 >= Interval[mode] /\ TickFlushes)
  <2>1. UNCHANGED <<wire, drained, rx, heard, tx_head, tx_count, pending, flushed, mode,
                    loopback, tx_queue, enqueued, pc, loc, writes, accepted>>
    BY <1>5 DEF Tick
  <2>2. ticks' \in Nat
    BY <1>5 DEF Tick, TypeOK
  <2> QED
    BY <2>1, <2>2 DEF TypeOK
<1> QED
  BY <1>4, <1>5

\* Every step of a call or of a command keeps the types.
LEMMA TypeStep ==
  ASSUME TypeOK, [Next]_vars
  PROVE  TypeOK'
<1>1. /\ accepted \in Seq(Payload) /\ wire \in Seq(Payload)
      /\ drained \in Seq(Payload) /\ heard \in Seq(Payload)
  BY DEF TypeOK
<1>2. \A x \in Int : x % Cap \in 0 .. Cap - 1 /\ x % Wrap \in 0 .. Wrap - 1
  BY ModRange, CapFacts
<1>3. Outgoing \in Payload
  BY DEF TypeOK, Outgoing, Locals
<1>4. NoLocals \in Locals /\ loc \in Locals
  <2>1. NoLocals \in Locals
    BY CapFacts DEF NoLocals, Locals, Payload
  <2> QED
    BY <2>1 DEF TypeOK
<1>numbers. /\ tx_head \in 0 .. Cap - 1 /\ tx_count \in 0 .. Wrap - 1
      /\ pending \in Nat /\ enqueued \in Nat /\ flushed \in Nat
      /\ loc.c \in Nat /\ loc.n \in Nat
  BY NumberTypes
<1>indices. loc.slot \in 0 .. Cap - 1 /\ loc.payload \in 0 .. MaxWrites /\ rx.count \in Nat
  BY NumberTypes
<1>5. ASSUME NEW op \in {"send", "ping"}, Send(op)
      PROVE  TypeOK'
  <2>1. [NoLocals EXCEPT !.op = op, !.payload = writes + 1] \in Locals /\ writes + 1 \in Payload
    <3>1. writes + 1 \in Payload
      <4>1. writes < MaxWrites /\ writes \in 0 .. MaxWrites
        BY <1>5 DEF Send, TypeOK, Payload
      <4> QED
        BY <4>1, CapFacts DEF Payload
    <3> DEFINE w == writes + 1
    <3> HIDE DEF w
    <3>2. w \in Payload
      BY <3>1 DEF w
    <3>3. [NoLocals EXCEPT !.op = op, !.payload = w] \in Locals
      BY <1>4, <3>2 DEF Locals
    <3> QED
      BY <3>1, <3>3 DEF w
  <2> QED
    BY <1>5, <2>1 DEF Send, TypeOK, cfgVars, txVars, statVars, Places
<1>6. CASE Inject
  <2>1. [NoLocals EXCEPT !.op = "inject", !.payload = writes + 1] \in Locals /\ writes + 1 \in Payload
    <3>1. writes + 1 \in Payload
      <4>1. writes < MaxWrites /\ writes \in 0 .. MaxWrites
        BY <1>6 DEF Inject, TypeOK, Payload
      <4> QED
        BY <4>1, CapFacts DEF Payload
    <3> DEFINE w == writes + 1
    <3> HIDE DEF w
    <3>2. w \in Payload
      BY <3>1 DEF w
    <3>3. [NoLocals EXCEPT !.op = "inject", !.payload = w] \in Locals
      BY <1>4, <3>2 DEF Locals
    <3> QED
      BY <3>1, <3>3 DEF w
  <2> QED
    BY <1>6, <2>1 DEF Inject, TypeOK, cfgVars, txVars, statVars, Places
<1>7. ASSUME NEW b \in BOOLEAN, SetLoopback(b)
      PROVE  TypeOK'
  BY <1>7 DEF SetLoopback, TypeOK, txVars, statVars
<1>8. ASSUME NEW m \in Modes, SetMode(m)
      PROVE  TypeOK'
  BY <1>8 DEF SetMode, TypeOK, txVars, statVars
<1>9. CASE EnqTest
  <2>1. loc' \in Locals
    <3>1. (tx_count = Cap) \in BOOLEAN
      OBVIOUS
    <3> QED
      BY <1>4, <1>9, <3>1, LocalsUpdate DEF EnqTest
  <2> QED
    BY <1>9, <2>1 DEF EnqTest, TypeOK, cfgVars, txVars, statVars, Places
<1>slot. CASE EnqSlot
  <2>1. loc' \in Locals
    BY <1>4, <1>slot, <1>numbers, LocalsUpdate DEF EnqSlot
  <2> QED
    BY <1>slot, <2>1 DEF EnqSlot, TypeOK, cfgVars, txVars, statVars, Places
<1>10. CASE EnqSlotCount
  <2> DEFINE s == (loc.slot + tx_count) % Cap
  <2>1. s \in 0 .. Cap - 1
    BY <1>numbers, <1>indices, <1>2
  <2>2. loc' = [loc EXCEPT !.slot = s]
    BY <1>10 DEF EnqSlotCount
  <2> HIDE DEF s
  <2>3. loc' \in Locals
    BY <1>4, <2>1, <2>2, LocalsUpdate
  <2> QED
    BY <1>10, <2>3 DEF EnqSlotCount, TypeOK, cfgVars, txVars, statVars, Places
<1>11. CASE EnqFill
  <2>1. tx_queue' \in [0 .. Cap - 1 -> Payload]
    BY <1>11, <1>indices DEF EnqFill, TypeOK, Payload
  <2> QED
    BY <1>11, <2>1 DEF EnqFill, TypeOK, cfgVars, statVars, Places
<1>12. CASE EnqLoad
  <2>1. loc' \in Locals
    <3>1. loc' = [loc EXCEPT !.c = tx_count]
      BY <1>12 DEF EnqLoad
    <3> QED
      BY <1>numbers, <1>4, <3>1 DEF Locals
  <2> QED
    BY <1>12, <2>1 DEF EnqLoad, TypeOK, cfgVars, txVars, statVars, Places
<1>13. CASE EnqStore
  <2>1. (loc.c + 1) % Wrap \in 0 .. Wrap - 1 /\ loc.payload \in Payload
    BY <1>numbers, <1>2, <1>indices DEF Payload
  <2>2. accepted' \in Seq(Payload)
    BY <1>1, <1>13, <2>1 DEF EnqStore
  <2> QED
    BY <1>13, <2>1, <2>2 DEF EnqStore, TypeOK, cfgVars, Places
<1>report. CASE EnqReport
  <2>1. loc' \in Locals
    <3>1. loc' = [loc EXCEPT !.c = tx_count]
      BY <1>report DEF EnqReport
    <3> QED
      BY <1>numbers, <1>4, <3>1 DEF Locals
  <2> QED
    BY <1>report, <2>1 DEF EnqReport, TypeOK, cfgVars, txVars, statVars, Places
<1>14. CASE EnqNote
  BY <1>14, <1>numbers DEF EnqNote, TypeOK, cfgVars, txVars, Places
<1>15. CASE BatchTest
  <2>1. pc' \in Places /\ loc' \in Locals
    BY <1>4, <1>15, FinishType, LocalsUpdate DEF BatchTest, Places
  <2> QED
    BY <1>15, <2>1 DEF BatchTest, TypeOK, cfgVars, txVars, statVars
<1>flush. CASE FlushTest
  BY <1>flush DEF FlushTest, TypeOK, cfgVars, txVars, statVars, Places
<1>16. CASE FlushFetch
  <2>1. pc' \in Places /\ loc' \in Locals
    BY <1>4, <1>16, LocalsUpdate, <1>numbers DEF FlushFetch, Places
  <2> QED
    BY <1>16, <2>1 DEF FlushFetch, TypeOK, cfgVars, txVars, statVars
<1>17. CASE Transmit
  <2>1. pc' \in Places /\ loc' \in Locals
    BY <1>17, FinishType DEF Transmit, Sent, TypeOK, Places
  <2>2. wire' \in Seq(Payload) /\ drained' \in Seq(Payload)
    BY <1>1, <1>3, <1>17 DEF Transmit
  <2> QED
    BY <1>17, <2>1, <2>2 DEF Transmit, TypeOK, cfgVars, txVars, statVars
<1>18. CASE RxSlot
  <2> DEFINE s == (RxRoom(rx).head + RxRoom(rx).count) % Cap
  <2>1. RxRoom(rx) \in RxRecord /\ s \in 0 .. Cap - 1
    BY RxRoomType DEF TypeOK
  <2>2. loc' = [loc EXCEPT !.c = s]
    BY <1>18 DEF RxSlot
  <2> HIDE DEF s
  <2>3. loc' \in Locals
    BY <1>4, <2>1, <2>2 DEF Locals
  <2> QED
    BY <1>18, <2>1, <2>3 DEF RxSlot, TypeOK, cfgVars, txVars, statVars, Places
<1>19. CASE RxFill
  <2>1. rx' = [rx EXCEPT !.ring = [rx.ring EXCEPT ![loc.c] = Outgoing]]
    BY <1>19 DEF RxFill, TypeOK, RxRecord
  <2>2. [rx.ring EXCEPT ![loc.c] = Outgoing] \in [0 .. Cap - 1 -> Payload]
    BY <1>3 DEF TypeOK, RxRecord
  <2>3. rx' \in RxRecord
    BY <2>1, <2>2 DEF TypeOK, RxRecord
  <2>4. loc' \in Locals
    BY <1>4, <1>19, LocalsUpdate, <1>indices DEF RxFill
  <2>5. heard' \in Seq(Payload)
    BY <1>1, <1>3, <1>19 DEF RxFill
  <2> QED
    BY <1>19, <2>3, <2>4, <2>5 DEF RxFill, TypeOK, cfgVars, txVars, statVars, Places
<1>20. CASE RxStore
  <2>1. pc' \in Places /\ loc' \in Locals
    BY <1>20, FinishType DEF RxStore, Sent, TypeOK, Places
  <2>2. rx' \in RxRecord
    <3> DEFINE c == loc.c + 1
               p == rx.packets + 1
    <3>1. rx' = [rx EXCEPT !.count = c, !.packets = p] /\ rx \in RxRecord
      BY <1>20 DEF RxStore, TypeOK
    <3>2. c \in Nat /\ p \in Nat
      BY <1>numbers, <3>1 DEF RxRecord
    <3> HIDE DEF c, p
    <3> QED
      BY <3>1, <3>2 DEF RxRecord
  <2> QED
    BY <1>20, <2>1, <2>2 DEF RxStore, TypeOK, cfgVars, txVars, statVars
<1>21. CASE PopHead
  <2>1. tx_head' \in 0 .. Cap - 1
    BY <1>2, <1>21, <1>numbers DEF PopHead
  <2>2. loc' \in Locals
    <3> DEFINE n == loc.n + 1
    <3>1. loc' = [loc EXCEPT !.n = n]
      BY <1>21 DEF PopHead
    <3>2. n \in Nat
      BY <1>numbers
    <3> HIDE DEF n
    <3> QED
      BY <1>4, <3>1, <3>2 DEF Locals
  <2> QED
    BY <1>21, <2>1, <2>2 DEF PopHead, TypeOK, cfgVars, statVars, Places
<1>22. CASE PopLoad
  <2>1. loc' \in Locals
    <3>1. loc' = [loc EXCEPT !.c = tx_count]
      BY <1>22 DEF PopLoad
    <3> QED
      BY <1>numbers, <1>4, <3>1 DEF Locals
  <2> QED
    BY <1>22, <2>1 DEF PopLoad, TypeOK, cfgVars, txVars, statVars, Places
<1>23. CASE PopStore
  <2>1. tx_count' \in 0 .. Wrap - 1
    BY <1>2, <1>23, <1>numbers DEF PopStore
  <2>2. loc' \in Locals
    BY <1>4, <1>23, LocalsUpdate DEF PopStore
  <2> QED
    BY <1>23, <2>1, <2>2 DEF PopStore, TypeOK, cfgVars, statVars, Places
<1>24. CASE FlushEnd
  <2>1. loc.n \in Nat /\ [loc EXCEPT !.n = 0] \in Locals
    BY <1>4, LocalsUpdate, <1>numbers
  <2>2. pc' \in Places /\ loc' \in Locals
    BY <1>24, <2>1, FinishType DEF FlushEnd, Places
  <2>3. pending' \in Nat /\ flushed' \in Nat
    BY <1>24, <1>numbers DEF FlushEnd
  <2> QED
    BY <1>24, <2>2, <2>3 DEF FlushEnd, TypeOK, cfgVars, txVars
<1>25. CASE Tick
  BY <1>25, TypeTick
<1>26. CASE UNCHANGED vars
  BY <1>26 DEF TypeOK, vars, cfgVars, txVars, statVars
<1> QED
  BY <1>5, <1>6, <1>7, <1>8, <1>9, <1>slot, <1>10, <1>11, <1>12, <1>13, <1>report, <1>14, <1>15,
     <1>flush, <1>16, <1>17, <1>18, <1>19, <1>20, <1>21, <1>22, <1>23, <1>24, <1>25, <1>26
  DEF Next, Command, CallStep

\* At whichever of the places of Places the timer interrupt comes, also where it
\* does harm, every index into the two rings stays in range and every counter in
\* its type: no such interleaving of netfs with its flush writes outside a queue.
THEOREM IndicesInRange == Spec => []TypeOK
  BY TypeInit, TypeStep, PTL DEF Spec

-----------------------------------------------------------------------------
(* What the receive queue holds.                                            *)

\* Making room leaves the newest packets, and room.
LEMMA RoomHolds ==
  ASSUME NEW q \in RxRecord, NEW h \in Seq(Payload), RxHolds(q, h)
  PROVE  RxHolds(RxRoom(q), h) /\ RxRoom(q).count < Cap
<1> DEFINE r == RxRoom(q)
<1>1. /\ q.count \in Nat /\ q.head \in 0 .. Cap - 1 /\ q.dropped \in Nat /\ q.packets \in Nat
      /\ Len(h) \in Nat /\ q.count <= Cap /\ Cap \in Nat \ {0}
  BY CapFacts DEF RxRecord, RxHolds
<1>2. CASE q.count # Cap
  BY <1>1, <1>2 DEF RxRoom
<1>3. CASE q.count = Cap
  <2>1. /\ r.count = Cap - 1 /\ r.dropped = q.dropped + 1 /\ r.packets = q.packets
        /\ r.head = (q.head + 1) % Cap /\ r.ring = q.ring
    BY <1>3 DEF RxRoom, RxRecord
  <2>2. ASSUME NEW i \in 0 .. r.count - 1
        PROVE  r.ring[(r.head + i) % Cap] = h[Len(h) - r.count + 1 + i]
    <3>1. i \in Int /\ q.head + 1 \in Int /\ i + 1 \in 0 .. q.count - 1
      BY <1>1, <1>3, <2>1, SMTT(30)
    <3>2. (((q.head + 1) % Cap) + i) % Cap = ((q.head + 1) + i) % Cap
      BY <1>1, <3>1, ModAdd
    <3>3. (q.head + 1) + i = q.head + (i + 1)
      <4>1. \A x, y \in Int : (x + 1) + y = x + (y + 1)
        OBVIOUS
      <4>2. q.head \in Int
        BY <1>1
      <4> QED
        BY <3>1, <4>1, <4>2
    <3>4. q.ring[(q.head + (i + 1)) % Cap] = h[Len(h) - q.count + 1 + (i + 1)]
      BY <3>1 DEF RxHolds
    <3>5. Len(h) - q.count + 1 + (i + 1) = Len(h) - r.count + 1 + i
      <4>1. r.count = q.count - 1
        BY <1>3, <2>1
      <4>2. \A l, c, x \in Int : l - c + 1 + (x + 1) = l - (c - 1) + 1 + x
        OBVIOUS
      <4>3. q.count \in Int /\ Len(h) \in Int
        BY <1>1
      <4> QED
        BY <3>1, <4>1, <4>2, <4>3
    <3> QED
      BY <2>1, <3>2, <3>3, <3>4, <3>5
  <2>3. r.count < Cap /\ r.packets = Len(h) /\ r.packets = r.dropped + r.count
    <3>1. q.packets = Len(h) /\ q.packets = q.dropped + q.count
      BY DEF RxHolds
    <3>2. \A x \in Int, c \in Nat \ {0} : x + c = (x + 1) + (c - 1) /\ c - 1 < c
      OBVIOUS
    <3>3. q.dropped \in Int /\ Cap \in Nat \ {0}
      BY <1>1
    <3>4. q.dropped + Cap = (q.dropped + 1) + (Cap - 1) /\ Cap - 1 < Cap
      BY <3>2, <3>3
    <3> QED
      BY <1>3, <2>1, <3>1, <3>4
  <2> HIDE DEF r
  <2>4. RxHolds(r, h)
    BY <1>1, <2>1, <2>2, <2>3 DEF RxHolds
  <2> QED
    BY <2>3, <2>4 DEF r
<1> QED
  BY <1>2, <1>3

\* A packet stored behind the others and counted is the newest one held.
LEMMA FillHolds ==
  ASSUME NEW q \in RxRecord, NEW h \in Seq(Payload), NEW p \in Payload,
         RxHolds(q, h), q.count < Cap,
         NEW r, r.head = q.head, r.count = q.count + 1, r.dropped = q.dropped,
         r.packets = q.packets + 1, r.ring = [q.ring EXCEPT ![(q.head + q.count) % Cap] = p]
  PROVE  RxHolds(r, Append(h, p))
<1> DEFINE g == Append(h, p)
           s == (q.head + q.count) % Cap
<1>1. /\ q.count \in Nat /\ q.head \in 0 .. Cap - 1 /\ q.dropped \in Nat /\ q.packets \in Nat
      /\ q.ring \in [0 .. Cap - 1 -> Payload] /\ Len(h) \in Nat
      /\ Cap \in Nat \ {0} /\ q.packets = Len(h) /\ q.packets = q.dropped + q.count
  BY CapFacts DEF RxRecord, RxHolds
<1>2. Len(g) = Len(h) + 1 /\ g[Len(h) + 1] = p /\ \A i \in 1 .. Len(h) : g[i] = h[i]
  OBVIOUS
<1>3. s \in 0 .. Cap - 1
  <2>1. q.head + q.count \in Int
    BY <1>1
  <2> QED
    BY <1>1, <2>1, ModRange
<1>4. ASSUME NEW i \in 0 .. r.count - 1
      PROVE  r.ring[(r.head + i) % Cap] = g[Len(g) - r.count + 1 + i]
  <2>1. CASE i = q.count
    <3>1. Len(g) - r.count + 1 + i = Len(h) + 1
      BY <1>1, <1>2, <2>1
    <3>2. r.ring[(r.head + i) % Cap] = p
      BY <1>1, <1>3, <2>1
    <3> QED
      BY <1>2, <3>1, <3>2
  <2>2. CASE i # q.count
    <3>1. i \in 0 .. q.count - 1 /\ i \in 0 .. Cap - 1 /\ q.count \in 0 .. Cap - 1
      BY <1>1, <2>2, SMTT(30)
    <3>2. (q.head + i) % Cap \in 0 .. Cap - 1
      <4>1. q.head + i \in Int
        BY <1>1, <3>1
      <4> QED
        BY <1>1, <4>1, ModRange
    <3>3. (q.head + i) % Cap # s
      <4>1. q.head \in Nat
        BY <1>1
      <4> QED
        BY <1>1, <2>2, <3>1, <4>1, ModApart
    <3>4. r.ring[(r.head + i) % Cap] = q.ring[(q.head + i) % Cap]
      BY <1>1, <3>2, <3>3
    <3>5. q.ring[(q.head + i) % Cap] = h[Len(h) - q.count + 1 + i]
      BY <3>1 DEF RxHolds
    <3>6. /\ Len(g) - r.count + 1 + i = Len(h) - q.count + 1 + i
          /\ Len(h) - q.count + 1 + i \in 1 .. Len(h)
      <4>1. \A l, d, c, x \in Nat :
              l = d + c /\ x < c
                        => /\ (l + 1) - (c + 1) + 1 + x = l - c + 1 + x
                           /\ l - c + 1 + x \in 1 .. l
        OBVIOUS
      <4>3. i \in Nat /\ i < q.count
        BY <1>1, <3>1
      <4>2. Len(h) = q.dropped + q.count /\ Len(g) = Len(h) + 1
        BY <1>1, <1>2
      <4>4. /\ (Len(h) + 1) - (q.count + 1) + 1 + i = Len(h) - q.count + 1 + i
            /\ Len(h) - q.count + 1 + i \in 1 .. Len(h)
        <5>1. Len(h) \in Nat /\ q.dropped \in Nat /\ q.count \in Nat
          BY <1>1
        <5> QED
          BY ONLY <4>1, <4>2, <4>3, <5>1
      <4> HIDE DEF g
      <4> QED
        BY <4>2, <4>4
    <3> QED
      BY <1>2, <3>4, <3>5, <3>6
  <2> QED
    BY <2>1, <2>2
<1>5. r.count <= Cap /\ r.packets = Len(g) /\ r.packets = r.dropped + r.count
  BY <1>1, <1>2
<1> HIDE DEF g
<1>6. RxHolds(r, g)
  BY <1>4, <1>5 DEF RxHolds
<1> QED
  BY <1>6 DEF g

LEMMA EnqueueHolds ==
  ASSUME NEW q \in RxRecord, NEW h \in Seq(Payload), NEW p \in Payload, RxHolds(q, h)
  PROVE  RxHolds(enqueue_rx_packet(q, p), Append(h, p))
<1> DEFINE r == RxRoom(q)
           s == (r.head + r.count) % Cap
           e == enqueue_rx_packet(q, p)
<1>1. r \in RxRecord /\ s \in 0 .. Cap - 1 /\ RxHolds(r, h) /\ r.count < Cap
  BY RxRoomType, RoomHolds
<1>2. e = [r EXCEPT !.ring[s] = p, !.count = @ + 1, !.packets = @ + 1]
  BY DEF enqueue_rx_packet
<1> HIDE DEF r, s, e
<1>3. /\ e.head = r.head /\ e.count = r.count + 1 /\ e.dropped = r.dropped
      /\ e.packets = r.packets + 1 /\ e.ring = [r.ring EXCEPT ![s] = p]
  BY <1>1, <1>2 DEF RxRecord
<1>4. RxHolds(e, Append(h, p))
  BY <1>1, <1>3, FillHolds DEF s
<1> QED
  BY <1>4 DEF e

\* The same for a whole batch.
LEMMA BatchHolds ==
  ASSUME NEW q \in RxRecord, NEW h \in Seq(Payload), NEW b \in Seq(Payload), RxHolds(q, h)
  PROVE  RxHolds(RxAfter(q, b), h \o b)
<1>1. PICK f \in [0 .. Len(b) -> RxRecord] :
        /\ f[0] = q
        /\ \A i \in 1 .. Len(b) : f[i] = enqueue_rx_packet(f[i - 1], b[i])
        /\ RxAfter(q, b) = f[Len(b)]
  BY RxAfterSteps
<1> DEFINE g(i) == h \o SubSeq(b, 1, i)
           T == {i \in 0 .. Len(b) : RxHolds(f[i], g(i))}
<1>2. Len(b) \in Nat
  OBVIOUS
<1>3. 0 \in T
  <2>1. g(0) = h
    OBVIOUS
  <2> QED
    BY <1>1, <1>2, <2>1
<1>4. ASSUME NEW n \in 0 .. Len(b) - 1, n \in T
      PROVE  n + 1 \in T
  <2>1. n + 1 \in 1 .. Len(b) /\ (n + 1) - 1 = n /\ b[n + 1] \in Payload /\ f[n] \in RxRecord
    BY <1>1, <1>2
  <2>2. f[n + 1] = enqueue_rx_packet(f[n], b[n + 1])
    BY <1>1, <2>1
  <2>3. g(n) \in Seq(Payload) /\ g(n + 1) = Append(g(n), b[n + 1])
    <3>1. SubSeq(b, 1, n) \in Seq(Payload) /\ SubSeq(b, 1, n + 1) = Append(SubSeq(b, 1, n), b[n + 1])
      BY <1>2
    <3> HIDE DEF T
    <3> QED
      BY <2>1, <3>1
  <2>4. RxHolds(f[n], g(n))
    BY <1>4
  <2> HIDE DEF g
  <2>5. RxHolds(f[n + 1], g(n + 1))
    BY <2>1, <2>2, <2>3, <2>4, EnqueueHolds
  <2> QED
    BY <1>2, <2>1, <2>5
<1> HIDE DEF T
<1>5. 0 .. Len(b) \subseteq T
  BY <1>2, <1>3, <1>4, SetInduction
<1>6. RxHolds(f[Len(b)], g(Len(b)))
  BY <1>2, <1>5 DEF T
<1>7. g(Len(b)) = h \o b
  OBVIOUS
<1> QED
  BY <1>1, <1>6, <1>7

-----------------------------------------------------------------------------
(* The invariant is kept when interrupts come at harmless places.           *)

\* The locals after a call, and after a change of one of them.
LEMMA FinishFields ==
  ASSUME Finish
  PROVE  /\ pc' \in {"idle", "flush"} /\ loc'.retried = FALSE /\ loc'.inflush = FALSE
         /\ loc'.n = 0
  BY DEF Finish, NoLocals

\* What a flush in the timer interrupt does to the transmit queue.
LEMMA TickQueue ==
  ASSUME TypeOK, Tick
  PROVE  /\ UNCHANGED <<mode, loopback, tx_queue, enqueued, pc, loc, writes, accepted>>
         /\ pc \in Windows
         /\ \/ UNCHANGED <<wire, drained, rx, heard, tx_head, tx_count, pending, flushed>>
            \/ /\ tx_count # 0
               /\ tx_count' = 0 /\ pending' = 0 /\ flushed' = flushed + tx_count
               /\ tx_head' = (tx_head + tx_count) % Cap
               /\ (tx_head' + tx_count') % Cap = (tx_head + tx_count) % Cap
               /\ wire' = wire \o Batch(tx_head, tx_count)
               /\ drained' = drained \o Batch(tx_head, tx_count)
               /\ \/ UNCHANGED <<rx, heard>>
                  \/ /\ rx' = RxAfter(rx, Batch(tx_head, tx_count))
                     /\ heard' = heard \o Batch(tx_head, tx_count)
<1>1. \/ UNCHANGED <<wire, drained, rx, heard, tx_head, tx_count, pending, flushed>>
      \/ FlushWhole /\ tx_count # 0
  BY DEF Tick, TickFlushes
<1>2. tx_head + tx_count \in Int /\ 0 \in Int /\ Cap \in Nat \ {0}
  BY NumberTypes, CapFacts
<1>3. (((tx_head + tx_count) % Cap) + 0) % Cap = ((tx_head + tx_count) + 0) % Cap
  BY <1>2, ModAdd
<1>4. (tx_head + tx_count) + 0 = tx_head + tx_count
  BY <1>2
<1> QED
  BY <1>1, <1>3, <1>4 DEF Tick, FlushWhole

\* Counting one packet in or out stays within the width of tx_count.
LEMMA CountSteps ==
  /\ \A c \in Nat : c < Cap => (c + 1) % Wrap = c + 1
  /\ \A c \in Nat : c > 0 /\ c <= Cap => (c - 1) % Wrap = c - 1
<1>1. Cap \in Nat /\ Wrap \in Nat \ {0} /\ Cap < Wrap
  BY CapFacts
<1>2. ASSUME NEW c \in Nat, c < Cap
      PROVE  (c + 1) % Wrap = c + 1
  <2>1. c + 1 \in 0 .. Wrap - 1
    BY <1>1, <1>2
  <2> QED
    BY <1>1, <2>1, ModSmall
<1>3. ASSUME NEW c \in Nat, c > 0, c <= Cap
      PROVE  (c - 1) % Wrap = c - 1
  <2>1. c - 1 \in 0 .. Wrap - 1
    BY <1>1, <1>3
  <2> QED
    BY <1>1, <2>1, ModSmall
<1> QED
  BY <1>2, <1>3

LEMMA TxStep ==
  ASSUME NetInv, [Next]_vars, Windows \subseteq Harmless
  PROVE  TxInv'
<1>1. TypeOK /\ TxInv /\ loc \in Locals
  BY DEF NetInv, TypeOK
<1> USE DEF Outer, InTransmit, InPop, InEnqueue
<1>2. ASSUME NEW op \in {"send", "ping"}, Send(op)
      PROVE  TxInv'
  <2>1. /\ loc'.retried = FALSE /\ loc'.inflush = FALSE /\ loc'.payload = writes + 1
        /\ pc' \in {"transmit", "test"} /\ UNCHANGED txVars /\ pc = "idle"
    BY <1>2 DEF Send, NoLocals
  <2>2. loc'.payload > 0
    <3>1. writes \in Nat
      BY <1>1, NumberTypes
    <3> QED
      BY <2>1, <3>1
  <2> QED
    BY <1>1, <2>1, <2>2 DEF TxInv, txVars
<1>3. CASE Inject
  <2>1. /\ loc'.retried = FALSE /\ loc'.inflush = FALSE
        /\ pc' = "rxslot" /\ UNCHANGED txVars /\ pc = "idle"
    BY <1>3 DEF Inject, NoLocals
  <2> QED
    BY <1>1, <2>1 DEF TxInv, txVars
<1>4. ASSUME NEW b \in BOOLEAN, SetLoopback(b)
      PROVE  TxInv'
  BY <1>1, <1>4 DEF SetLoopback, TxInv, txVars
<1>5. ASSUME NEW m \in Modes, SetMode(m)
      PROVE  TxInv'
  BY <1>1, <1>5 DEF SetMode, TxInv, txVars
<1>6. CASE EnqTest
  <2>1. tx_count < Cap /\ tx_count # Cap /\ pc = "test" /\ loc.retried = FALSE
        /\ loc.inflush = FALSE /\ loc.payload > 0
    <3>1. tx_count < Cap /\ pc = "test" /\ loc.retried = FALSE
          /\ loc.inflush = FALSE /\ loc.payload > 0
      BY <1>1, <1>6 DEF EnqTest, TxInv, Locals
    <3> QED
      BY <1>1, <3>1, NumberTypes, CapFacts
  <2>2. /\ pc' = "slot" /\ UNCHANGED txVars
        /\ loc'.retried = FALSE /\ loc'.inflush = FALSE /\ loc'.payload = loc.payload
    BY <1>1, <1>6, <2>1 DEF EnqTest, Locals
  <2> QED
    BY <1>1, <2>1, <2>2 DEF TxInv, txVars
<1>7. CASE EnqSlot
  <2>1. /\ loc'.slot = tx_head /\ loc'.payload = loc.payload
        /\ loc'.inflush = loc.inflush /\ loc'.retried = loc.retried
        /\ pc = "slot" /\ pc' = "slotcount" /\ UNCHANGED txVars
    BY <1>1, <1>7 DEF EnqSlot, Locals
  <2> QED
    BY <1>1, <2>1 DEF TxInv, txVars
<1>slotcount. CASE EnqSlotCount
  <2>1. /\ loc'.slot = (tx_head + tx_count) % Cap /\ loc'.payload = loc.payload
        /\ loc'.inflush = loc.inflush /\ loc'.retried = loc.retried
        /\ pc = "slotcount" /\ pc' = "fill" /\ UNCHANGED txVars
    BY <1>1, <1>slotcount DEF EnqSlotCount, Locals, TxInv
  <2> QED
    BY <1>1, <2>1 DEF TxInv, txVars
<1>8. CASE EnqFill
  <2>1. /\ pc = "fill" /\ pc' = "load" /\ UNCHANGED <<tx_head, tx_count, loc>>
        /\ tx_queue' = [tx_queue EXCEPT ![loc.slot] = loc.payload]
    BY <1>8 DEF EnqFill
  <2>2. loc.slot \in 0 .. Cap - 1 /\ tx_queue \in [0 .. Cap - 1 -> Payload]
    BY <1>1, NumberTypes DEF TypeOK
  <2>3. tx_queue'[loc.slot] = loc.payload
    BY <2>1, <2>2
  <2> QED
    BY <1>1, <2>1, <2>3 DEF TxInv
<1>9. CASE EnqLoad
  <2>1. /\ loc'.c = tx_count /\ loc'.payload = loc.payload
        /\ loc'.inflush = loc.inflush /\ loc'.retried = loc.retried
        /\ pc = "load" /\ pc' = "store" /\ UNCHANGED txVars
    BY <1>1, <1>9 DEF EnqLoad, Locals
  <2> QED
    BY <1>1, <2>1 DEF TxInv, txVars
<1>10. CASE EnqStore
  <2>1. /\ pc = "store" /\ pc' = "report" /\ tx_count' = (tx_count + 1) % Wrap
        /\ UNCHANGED <<loc, tx_queue, tx_head>> /\ tx_count < Cap
    BY <1>1, <1>10 DEF EnqStore, TxInv
  <2>2. tx_count' <= Cap
    <3>1. tx_count \in Nat /\ Cap \in Nat
      BY <1>1, NumberTypes, CapFacts
    <3>2. tx_count' = tx_count + 1
      BY <2>1, <3>1, CountSteps
    <3> QED
      BY <2>1, <3>1, <3>2
  <2> QED
    BY <1>1, <2>1, <2>2 DEF TxInv
<1>11. CASE EnqReport
  <2>1. /\ loc'.c = tx_count /\ loc'.inflush = loc.inflush /\ loc'.retried = loc.retried
        /\ pc = "report" /\ pc' = "note" /\ UNCHANGED txVars
    BY <1>1, <1>11 DEF EnqReport, Locals
  <2> QED
    BY <1>1, <2>1 DEF TxInv, txVars
<1>note. CASE EnqNote
  BY <1>1, <1>note DEF EnqNote, TxInv, txVars
<1>12. CASE BatchTest
  <2>1. pc = "batch" /\ UNCHANGED txVars
    BY <1>12 DEF BatchTest
  <2>2. CASE tx_count >= Limit[mode]
    <3>1. pc' = "flush" /\ loc'.retried = FALSE /\ loc'.inflush = loc.inflush
      BY <1>1, <1>12, <2>2 DEF BatchTest, Locals
    <3> QED
      BY <1>1, <2>1, <3>1 DEF TxInv, txVars
  <2>3. CASE ~(tx_count >= Limit[mode])
    <3>1. pc' \in {"idle", "flush"} /\ loc'.retried = FALSE /\ loc'.inflush = FALSE
      BY <1>12, <2>3, FinishFields DEF BatchTest
    <3>2. tx_count < Cap
      <4>1. Limit[mode] \in Nat /\ Limit[mode] <= Cap /\ tx_count \in Nat /\ Cap \in Nat
        BY <1>1, CapFacts, NumberTypes DEF TypeOK
      <4> QED
        BY <2>3, <4>1
    <3> QED
      BY <1>1, <2>1, <3>1, <3>2 DEF TxInv, txVars
  <2> QED
    BY <2>2, <2>3
<1>13. CASE FlushTest
  <2>1. CASE tx_count # 0
    <3>1. pc = "flush" /\ pc' = "fetch" /\ UNCHANGED <<txVars, loc>>
      BY <1>13, <2>1 DEF FlushTest
    <3>2. tx_count > 0
      BY <1>1, <2>1, NumberTypes
    <3> QED
      BY <1>1, <3>1, <3>2 DEF TxInv, txVars
  <2>2. CASE tx_count = 0
    BY <1>1, <1>13, <2>2 DEF FlushTest, TxInv, txVars
  <2> QED
    BY <2>1, <2>2
<1>fetch. CASE FlushFetch
  <2>1. /\ pc = "fetch" /\ pc' = "transmit" /\ loc'.slot = tx_head /\ loc'.inflush = TRUE
        /\ loc'.retried = loc.retried /\ UNCHANGED txVars
    BY <1>1, <1>fetch DEF FlushFetch, Locals
  <2> QED
    BY <1>1, <2>1 DEF TxInv, txVars
<1>14. CASE Transmit
  <2>1. pc = "transmit" /\ UNCHANGED txVars
    BY <1>14 DEF Transmit
  <2>2. \/ pc' \in {"rxslot", "pophead"} /\ UNCHANGED loc /\ (pc' = "pophead" => loc.inflush)
        \/ ~loc.inflush /\ Finish
    BY <1>14 DEF Transmit, Sent
  <2> QED
    BY <1>1, <2>1, <2>2, FinishFields DEF TxInv, txVars
<1>15. CASE RxSlot
  <2>1. /\ loc'.payload = loc.payload /\ loc'.slot = loc.slot
        /\ loc'.inflush = loc.inflush /\ loc'.retried = loc.retried
        /\ pc = "rxslot" /\ pc' = "rxfill" /\ UNCHANGED txVars
    BY <1>1, <1>15 DEF RxSlot, Locals
  <2> QED
    BY <1>1, <2>1 DEF TxInv, txVars
<1>16. CASE RxFill
  <2>1. /\ loc'.payload = loc.payload /\ loc'.slot = loc.slot
        /\ loc'.inflush = loc.inflush /\ loc'.retried = loc.retried
        /\ pc = "rxfill" /\ pc' = "rxstore" /\ UNCHANGED txVars
    BY <1>1, <1>16 DEF RxFill, Locals
  <2> QED
    BY <1>1, <2>1 DEF TxInv, txVars
<1>17. CASE RxStore
  <2>1. pc = "rxstore" /\ UNCHANGED txVars
    BY <1>17 DEF RxStore
  <2>2. \/ pc' = "pophead" /\ UNCHANGED loc /\ loc.inflush
        \/ ~loc.inflush /\ Finish
    BY <1>17 DEF RxStore, Sent
  <2> QED
    BY <1>1, <2>1, <2>2, FinishFields DEF TxInv, txVars
<1>18. CASE PopHead
  <2>1. /\ loc'.inflush = loc.inflush /\ loc'.retried = loc.retried
        /\ pc = "pophead" /\ pc' = "popload" /\ tx_count' = tx_count
    BY <1>1, <1>18 DEF PopHead, Locals
  <2> QED
    BY <1>1, <2>1 DEF TxInv
<1>19. CASE PopLoad
  <2>1. /\ loc'.inflush = loc.inflush /\ loc'.retried = loc.retried /\ loc'.c = tx_count
        /\ pc = "popload" /\ pc' = "popstore" /\ UNCHANGED txVars
    BY <1>1, <1>19 DEF PopLoad, Locals
  <2> QED
    BY <1>1, <2>1 DEF TxInv, txVars
<1>20. CASE PopStore
  <2>1. /\ loc'.inflush = FALSE /\ loc'.retried = loc.retried
        /\ pc = "popstore" /\ pc' = "flush" /\ tx_count' = (tx_count - 1) % Wrap
    BY <1>1, <1>20 DEF PopStore, Locals, TxInv
  <2>2. tx_count' <= Cap
    <3>1. tx_count \in Nat /\ Cap \in Nat /\ tx_count > 0 /\ tx_count <= Cap
      BY <1>1, <2>1, NumberTypes, CapFacts DEF TxInv
    <3>2. tx_count' = tx_count - 1
      BY <2>1, <3>1, CountSteps
    <3> QED
      BY <3>1, <3>2
  <2> QED
    BY <1>1, <2>1, <2>2 DEF TxInv
<1>21. CASE FlushEnd
  <2>1. Finish /\ pc = "flushend" /\ UNCHANGED txVars /\ tx_count = 0
    BY <1>1, <1>21 DEF FlushEnd, TxInv
  <2>2. tx_count < Cap
    BY <2>1, CapFacts
  <2> QED
    BY <1>1, <2>1, <2>2, FinishFields DEF TxInv, txVars
<1>22. CASE Tick
  <2>1. UNCHANGED <<tx_queue, pc, loc>> /\ pc \in Harmless
    BY <1>1, <1>22, TickQueue
  <2>2. ~loc.inflush /\ pc \notin {"slotcount", "store", "note", "fetch"} \cup InPop
    BY <1>1, <2>1 DEF TxInv, Harmless
  <2>3. \/ UNCHANGED <<tx_head, tx_count>>
        \/ tx_count' = 0 /\ (tx_head' + tx_count') % Cap = (tx_head + tx_count) % Cap
    BY <1>1, <1>22, TickQueue
  <2>4. 0 <= Cap /\ 0 < Cap
    BY CapFacts
  <2> QED
    BY <1>1, <2>1, <2>2, <2>3, <2>4 DEF TxInv
<1>23. CASE UNCHANGED vars
  BY <1>1, <1>23 DEF TxInv, vars, txVars
<1> QED
  BY <1>2, <1>3, <1>4, <1>5, <1>6, <1>7, <1>slotcount, <1>8, <1>9, <1>10, <1>11, <1>note, <1>12,
     <1>13, <1>fetch, <1>14, <1>15, <1>16, <1>17, <1>18, <1>19, <1>20, <1>21, <1>22, <1>23
  DEF Next, Command, CallStep

LEMMA StatStep ==
  ASSUME NetInv, [Next]_vars, Windows \subseteq Harmless
  PROVE  StatInv'
<1>1. TypeOK /\ TxInv /\ StatInv /\ loc \in Locals
  BY DEF NetInv, TypeOK
<1>2. /\ enqueued \in Nat /\ flushed \in Nat /\ tx_count \in Nat /\ loc.n \in Nat /\ Cap \in Nat
  BY <1>1, NumberTypes, CapFacts
<1> USE DEF Outer, InTransmit, InPop, InEnqueue
<1>3. ASSUME NEW op \in {"send", "ping"}, Send(op)
      PROVE  StatInv'
  <2>1. /\ loc'.n = 0 /\ loc'.inflush = FALSE /\ pc = "idle"
        /\ pc' \in {"transmit", "test"} /\ UNCHANGED <<tx_count, pending, enqueued, flushed>>
    BY <1>3 DEF Send, NoLocals, txVars, statVars
  <2> QED
    BY <1>1, <2>1 DEF StatInv
<1>4. CASE Inject
  <2>1. /\ loc'.n = 0 /\ loc'.inflush = FALSE /\ pc = "idle"
        /\ pc' = "rxslot" /\ UNCHANGED <<tx_count, pending, enqueued, flushed>>
    BY <1>4 DEF Inject, NoLocals, txVars, statVars
  <2> QED
    BY <1>1, <2>1 DEF StatInv
<1>5. ASSUME NEW b \in BOOLEAN, SetLoopback(b)
      PROVE  StatInv'
  BY <1>1, <1>5 DEF SetLoopback, StatInv, txVars, statVars
<1>6. ASSUME NEW m \in Modes, SetMode(m)
      PROVE  StatInv'
  BY <1>1, <1>6 DEF SetMode, StatInv, txVars, statVars
<1>7. CASE EnqTest
  <2>1. tx_count # Cap /\ pc = "test"
    <3>1. tx_count < Cap /\ pc = "test"
      BY <1>1, <1>7 DEF EnqTest, TxInv
    <3> QED
      BY <1>2, <3>1
  <2>2. /\ pc' = "slot" /\ UNCHANGED <<tx_count, pending, enqueued, flushed>> /\ loc'.n = loc.n
    BY <1>1, <1>7, <2>1 DEF EnqTest, Locals, txVars, statVars
  <2> QED
    BY <1>1, <2>1, <2>2 DEF StatInv
<1>8. CASE EnqSlot
  <2>1. /\ pc = "slot" /\ pc' = "slotcount" /\ loc'.n = loc.n
        /\ UNCHANGED <<tx_count, pending, enqueued, flushed>>
    BY <1>1, <1>8 DEF EnqSlot, Locals, txVars, statVars
  <2> QED
    BY <1>1, <2>1 DEF StatInv
<1>slotcount. CASE EnqSlotCount
  <2>1. /\ pc = "slotcount" /\ pc' = "fill" /\ loc'.n = loc.n
        /\ UNCHANGED <<tx_count, pending, enqueued, flushed>>
    BY <1>1, <1>slotcount DEF EnqSlotCount, Locals, txVars, statVars
  <2> QED
    BY <1>1, <2>1 DEF StatInv
<1>9. CASE EnqFill
  BY <1>1, <1>9 DEF EnqFill, StatInv, statVars
<1>10. CASE EnqLoad
  <2>1. /\ pc = "load" /\ pc' = "store" /\ loc'.n = loc.n
        /\ UNCHANGED <<tx_count, pending, enqueued, flushed>>
    BY <1>1, <1>10 DEF EnqLoad, Locals, txVars, statVars
  <2> QED
    BY <1>1, <2>1 DEF StatInv
<1>11. CASE EnqStore
  <2>1. /\ pc = "store" /\ pc' = "report" /\ tx_count' = (tx_count + 1) % Wrap /\ tx_count < Cap
        /\ UNCHANGED <<loc, pending, flushed>> /\ enqueued' = enqueued + 1
    BY <1>1, <1>11 DEF EnqStore, TxInv
  <2>2. tx_count' = tx_count + 1
    BY <1>2, <2>1, CountSteps
  <2>3. enqueued = flushed + tx_count + loc.n /\ loc.n = 0
    BY <1>1, <1>2, <2>1 DEF StatInv
  <2>4. enqueued' = flushed' + tx_count' + loc'.n
    BY <1>2, <2>1, <2>2, <2>3
  <2>5. enqueued' + 0 = enqueued'
    BY <1>2, <2>1
  <2> QED
    BY <2>1, <2>3, <2>4, <2>5 DEF StatInv
<1>12. CASE EnqReport
  <2>1. /\ pc = "report" /\ pc' = "note" /\ loc'.n = loc.n
        /\ UNCHANGED <<tx_count, pending, enqueued, flushed>>
    BY <1>1, <1>12 DEF EnqReport, Locals, txVars, statVars
  <2> QED
    BY <1>1, <2>1 DEF StatInv
<1>note. CASE EnqNote
  <2>1. /\ pc = "note" /\ pc' = "batch" /\ pending' = tx_count
        /\ UNCHANGED <<tx_count, loc, enqueued, flushed>>
    BY <1>1, <1>note DEF EnqNote, TxInv, txVars
  <2> QED
    BY <1>1, <2>1 DEF StatInv
<1>13. CASE BatchTest
  <2>1. /\ pc = "batch" /\ UNCHANGED <<tx_count, pending, enqueued, flushed>>
        /\ \/ pc' = "flush" /\ loc'.n = loc.n
           \/ pc' \in {"idle", "flush"} /\ loc'.n = 0
    BY <1>1, <1>13, FinishFields DEF BatchTest, Locals, txVars, statVars
  <2> QED
    BY <1>1, <2>1 DEF StatInv
<1>14. CASE FlushTest
  <2>1. /\ pc = "flush" /\ UNCHANGED <<tx_count, pending, enqueued, flushed, loc>>
        /\ pc' \in {"fetch", "flushend"}
    BY <1>1, <1>14 DEF FlushTest, txVars, statVars
  <2> QED
    BY <1>1, <2>1 DEF StatInv
<1>fetch. CASE FlushFetch
  <2>1. /\ pc = "fetch" /\ UNCHANGED <<tx_count, pending, enqueued, flushed>> /\ loc'.n = loc.n
        /\ pc' = "transmit" /\ loc'.inflush
    BY <1>1, <1>fetch DEF FlushFetch, Locals, txVars, statVars
  <2> QED
    BY <1>1, <2>1 DEF StatInv
<1>15. CASE Transmit
  <2>1. /\ pc = "transmit" /\ UNCHANGED <<tx_count, pending, enqueued, flushed>>
        /\ \/ pc' \in {"rxslot", "pophead"} /\ UNCHANGED loc
           \/ ~loc.inflush /\ Finish
    BY <1>15 DEF Transmit, Sent, txVars, statVars
  <2> QED
    BY <1>1, <2>1, FinishFields DEF StatInv
<1>16. CASE RxSlot
  <2>1. /\ pc = "rxslot" /\ pc' = "rxfill" /\ loc'.n = loc.n /\ loc'.inflush = loc.inflush
        /\ UNCHANGED <<tx_count, pending, enqueued, flushed>>
    BY <1>1, <1>16 DEF RxSlot, Locals, txVars, statVars
  <2> QED
    BY <1>1, <2>1 DEF StatInv
<1>17. CASE RxFill
  <2>1. /\ pc = "rxfill" /\ pc' = "rxstore" /\ loc'.n = loc.n /\ loc'.inflush = loc.inflush
        /\ UNCHANGED <<tx_count, pending, enqueued, flushed>>
    BY <1>1, <1>17 DEF RxFill, Locals, txVars, statVars
  <2> QED
    BY <1>1, <2>1 DEF StatInv
<1>18. CASE RxStore
  <2>1. /\ pc = "rxstore" /\ UNCHANGED <<tx_count, pending, enqueued, flushed>>
        /\ \/ pc' = "pophead" /\ UNCHANGED loc
           \/ ~loc.inflush /\ Finish
    BY <1>18 DEF RxStore, Sent, txVars, statVars
  <2> QED
    BY <1>1, <2>1, FinishFields DEF StatInv
<1>19. CASE PopHead
  <2>1. /\ pc = "pophead" /\ pc' = "popload" /\ loc'.n = loc.n + 1
        /\ UNCHANGED <<tx_count, pending, enqueued, flushed>>
    BY <1>1, <1>19 DEF PopHead, Locals, statVars
  <2>2. enqueued = flushed + tx_count + loc.n
    BY <1>1, <1>2, <2>1 DEF StatInv
  <2>3. enqueued' + 1 = flushed' + tx_count' + loc'.n
    BY <1>2, <2>1, <2>2
  <2> QED
    BY <2>1, <2>3 DEF StatInv
<1>20. CASE PopLoad
  <2>1. /\ pc = "popload" /\ pc' = "popstore" /\ loc'.n = loc.n
        /\ UNCHANGED <<tx_count, pending, enqueued, flushed>>
    BY <1>1, <1>20 DEF PopLoad, Locals, txVars, statVars
  <2> QED
    BY <1>1, <2>1 DEF StatInv
<1>21. CASE PopStore
  <2>1. /\ pc = "popstore" /\ pc' = "flush" /\ tx_count' = (tx_count - 1) % Wrap
        /\ loc'.n = loc.n /\ UNCHANGED <<pending, enqueued, flushed>>
        /\ tx_count > 0 /\ tx_count <= Cap
    BY <1>1, <1>21 DEF PopStore, TxInv, Locals, statVars
  <2>2. tx_count' = tx_count - 1
    BY <1>2, <2>1, CountSteps
  <2>3. enqueued + 1 = flushed + tx_count + loc.n
    BY <1>1, <2>1 DEF StatInv
  <2>4. enqueued' = flushed' + tx_count' + loc'.n
    BY <1>2, <2>1, <2>2, <2>3
  <2>5. enqueued' + 0 = enqueued'
    BY <1>2, <2>1
  <2> QED
    BY <2>1, <2>4, <2>5 DEF StatInv
<1>22. CASE FlushEnd
  <2>1. /\ pc = "flushend" /\ UNCHANGED <<tx_count, enqueued>> /\ flushed' = flushed + loc.n
        /\ tx_count = 0 /\ pc' \in {"idle", "flush"} /\ loc'.n = 0
        /\ pending' = IF tx_count >= loc.n THEN tx_count - loc.n ELSE 0
    BY <1>1, <1>22, FinishFields DEF FlushEnd, TxInv, txVars
  <2>2. pending' = 0
    BY <1>2, <2>1
  <2>3. enqueued = flushed + tx_count + loc.n
    BY <1>1, <1>2, <2>1 DEF StatInv
  <2>4. enqueued' = flushed' + tx_count' + loc'.n
    BY <1>2, <2>1, <2>3
  <2>5. enqueued' + 0 = enqueued'
    BY <1>2, <2>1
  <2> QED
    BY <2>1, <2>2, <2>4, <2>5 DEF StatInv
<1>23. CASE Tick
  <2>1. UNCHANGED <<pc, loc, enqueued>> /\ pc \in Harmless
    BY <1>1, <1>23, TickQueue
  <2>2. CASE UNCHANGED <<tx_count, pending, flushed>>
    BY <1>1, <2>1, <2>2 DEF StatInv
  <2>3. CASE tx_count' = 0 /\ pending' = 0 /\ flushed' = flushed + tx_count
    <3>1. enqueued = flushed + tx_count + loc.n
      BY <1>1, <1>2, <2>1 DEF StatInv, Harmless
    <3>2. enqueued' = flushed' + tx_count' + loc'.n
      BY <1>2, <2>1, <2>3, <3>1
    <3>3. enqueued' + 0 = enqueued'
      BY <1>2, <2>1
    <3> QED
      BY <1>1, <2>1, <2>3, <3>2, <3>3 DEF StatInv, Harmless
  <2> QED
    BY <1>1, <1>23, <2>2, <2>3, TickQueue
<1>24. CASE UNCHANGED vars
  BY <1>1, <1>24 DEF StatInv, vars, txVars, statVars
<1> QED
  BY <1>3, <1>4, <1>5, <1>6, <1>7, <1>8, <1>slotcount, <1>9, <1>10, <1>11, <1>12, <1>note, <1>13,
     <1>14, <1>fetch, <1>15, <1>16, <1>17, <1>18, <1>19, <1>20, <1>21, <1>22, <1>23, <1>24
  DEF Next, Command, CallStep

\* The queue, its packets and the locals of enqueue_rx_packet.
LEMMA RxStep ==
  ASSUME NetInv, [Next]_vars, Windows \subseteq Harmless
  PROVE  RxInv'
<1>1. TypeOK /\ TxInv /\ RxInv /\ loc \in Locals /\ rx \in RxRecord /\ heard \in Seq(Payload)
  BY DEF NetInv, TypeOK
<1>2. Outgoing \in Payload
  BY <1>1 DEF TypeOK, Outgoing, Locals
<1>3. CASE RxSlot
  <2>1. /\ pc = "rxslot" /\ pc' = "rxfill" /\ rx' = RxRoom(rx) /\ UNCHANGED heard
        /\ loc'.c = (rx'.head + rx'.count) % Cap
    BY <1>1, <1>3 DEF RxSlot, Locals
  <2>2. RxHolds(rx', heard) /\ rx'.count < Cap
    BY <1>1, <2>1, RoomHolds DEF RxInv
  <2> QED
    BY <2>1, <2>2 DEF RxInv
<1>4. CASE RxFill
  <2> DEFINE r == RxCounted(rx')
  <2>1. /\ pc = "rxfill" /\ pc' = "rxstore" /\ heard' = Append(heard, Outgoing)
        /\ rx' = [rx EXCEPT !.ring[loc.c] = Outgoing] /\ loc'.c = rx.count
        /\ loc.c = (rx.head + rx.count) % Cap /\ rx.count < Cap /\ RxHolds(rx, heard)
    BY <1>1, <1>4 DEF RxFill, RxInv, Locals
  <2>2. /\ rx'.head = rx.head /\ rx'.count = rx.count /\ rx'.dropped = rx.dropped
        /\ rx'.packets = rx.packets /\ rx'.ring = [rx.ring EXCEPT ![loc.c] = Outgoing]
        /\ rx' \in [ring : {[rx.ring EXCEPT ![loc.c] = Outgoing]}, head : {rx.head},
                    count : {rx.count}, dropped : {rx.dropped}, packets : {rx.packets}]
    BY <1>1, <2>1 DEF RxRecord
  <2>3. /\ r.head = rx.head /\ r.count = rx.count + 1 /\ r.dropped = rx.dropped
        /\ r.packets = rx.packets + 1
        /\ r.ring = [rx.ring EXCEPT ![(rx.head + rx.count) % Cap] = Outgoing]
    BY <2>1, <2>2 DEF RxCounted
  <2> HIDE DEF r
  <2>4. RxHolds(r, Append(heard, Outgoing))
    BY <1>1, <1>2, <2>1, <2>3, FillHolds
  <2> QED
    BY <2>1, <2>2, <2>4 DEF RxInv, r
<1>5. CASE RxStore
  <2>1. /\ pc = "rxstore" /\ pc' \notin {"rxfill", "rxstore"} /\ UNCHANGED heard
        /\ rx' = [rx EXCEPT !.count = loc.c + 1, !.packets = @ + 1] /\ loc.c = rx.count
    BY <1>1, <1>5, FinishFields DEF RxStore, Sent, RxInv
  <2>2. rx' = RxCounted(rx)
    BY <2>1 DEF RxCounted
  <2> QED
    BY <1>1, <2>1, <2>2 DEF RxInv
<1>6. CASE Tick
  <2> DEFINE b == Batch(tx_head, tx_count)
  <2>1. UNCHANGED pc /\ pc \in Harmless
    BY <1>1, <1>6, TickQueue
  <2>2. b \in Seq(Payload)
    BY <1>1, BatchType DEF TypeOK
  <2>3. \/ UNCHANGED <<rx, heard>>
        \/ rx' = RxAfter(rx, b) /\ heard' = heard \o b
    BY <1>1, <1>6, TickQueue
  <2>4. RxHolds(rx, heard)
    BY <1>1, <2>1 DEF RxInv, Harmless
  <2> HIDE DEF b
  <2>5. RxHolds(rx', heard')
    BY <1>1, <2>2, <2>3, <2>4, BatchHolds
  <2> QED
    BY <2>1, <2>5 DEF RxInv, Harmless
<1>7. CASE UNCHANGED <<rx, heard, pc, loc>>
  BY <1>1, <1>7 DEF RxInv
<1>8. CASE UNCHANGED <<rx, heard>> /\ pc \notin {"rxfill", "rxstore"} /\ pc' \notin {"rxfill", "rxstore"}
  BY <1>1, <1>8 DEF RxInv
<1>9. ASSUME NEW op \in {"send", "ping"}, Send(op)
      PROVE  RxInv'
  BY <1>8, <1>9 DEF Send
<1>10. CASE Inject
  BY <1>8, <1>10 DEF Inject
<1>11. ASSUME NEW b \in BOOLEAN, SetLoopback(b)
      PROVE  RxInv'
  BY <1>7, <1>11 DEF SetLoopback
<1>12. ASSUME NEW m \in Modes, SetMode(m)
      PROVE  RxInv'
  BY <1>7, <1>12 DEF SetMode
<1>13. CASE EnqTest \/ EnqSlot \/ EnqSlotCount \/ EnqFill \/ EnqLoad \/ EnqStore \/ EnqReport \/ EnqNote
  BY <1>8, <1>13 DEF EnqTest, EnqSlot, EnqSlotCount, EnqFill, EnqLoad, EnqStore, EnqReport, EnqNote
<1>14. CASE BatchTest \/ FlushTest \/ FlushFetch \/ Transmit \/ FlushEnd
  BY <1>8, <1>14, FinishFields DEF BatchTest, FlushTest, FlushFetch, Transmit, FlushEnd, Sent
<1>15. CASE PopHead \/ PopLoad \/ PopStore
  BY <1>8, <1>15 DEF PopHead, PopLoad, PopStore
<1>16. CASE UNCHANGED vars
  BY <1>7, <1>16 DEF vars
<1> QED
  BY <1>3, <1>4, <1>5, <1>6, <1>9, <1>10, <1>11, <1>12, <1>13, <1>14, <1>15, <1>16
  DEF Next, Command, CallStep

LEMMA NetInit == Init => NetInv
<1> SUFFICES ASSUME Init
             PROVE  NetInv
  OBVIOUS
<1>1. TypeOK
  BY TypeInit
<1>2. /\ pc = "idle" /\ loc.retried = FALSE /\ loc.inflush = FALSE /\ loc.n = 0 /\ tx_count = 0
      /\ pending = 0 /\ enqueued = 0 /\ flushed = 0 /\ heard = <<>>
      /\ rx.count = 0 /\ rx.packets = 0 /\ rx.dropped = 0 /\ 0 <= Cap /\ 0 < Cap
  BY CapFacts DEF Init, NoLocals
<1>3. TxInv
  BY <1>2 DEF TxInv, Outer, InTransmit, InPop, InEnqueue
<1>4. StatInv
  BY <1>2 DEF StatInv
<1>5. RxInv
  BY <1>2 DEF RxInv, RxHolds
<1> QED
  BY <1>1, <1>3, <1>4, <1>5 DEF NetInv

LEMMA NetStep ==
  ASSUME NetInv, [Next]_vars, Windows \subseteq Harmless
  PROVE  NetInv'
<1>1. TypeOK'
  BY TypeStep DEF NetInv
<1> QED
  BY <1>1, TxStep, StatStep, RxStep DEF NetInv

LEMMA NetInvariant == Windows \subseteq Harmless /\ Spec => []NetInv
<1>1. SUFFICES ASSUME Windows \subseteq Harmless
               PROVE  Spec => []NetInv
  OBVIOUS
<1>2. NetInv /\ [Next]_vars => NetInv'
  BY <1>1, NetStep
<1> QED
  BY <1>2, NetInit, PTL DEF Spec

\* When interrupts come at the harmless places only, both queues and the power
\* statistics are exact between calls: no packet received is lost uncounted or
\* out of order, and no packet is counted twice or not at all, whatever the
\* capacity, the batch limits and the moments of the timer's flushes.
THEOREM QueuesCorrect == Windows \subseteq Harmless /\ Spec => []QueuesExact
<1>1. NetInv => QueuesExact
  <2> SUFFICES ASSUME NetInv
               PROVE  QueuesExact
    OBVIOUS
  <2>1. RxExact
    BY DEF NetInv, RxInv, RxHolds, RxExact
  <2>2. StatsExact
    <3> SUFFICES ASSUME pc = "idle"
                 PROVE  pending = tx_count /\ enqueued = flushed + tx_count
      BY DEF StatsExact
    <3>1. enqueued \in Nat /\ flushed \in Nat /\ tx_count \in Nat
      BY NumberTypes DEF NetInv
    <3>2. pending = tx_count /\ loc.n = 0 /\ enqueued + 0 = flushed + tx_count + loc.n
      BY DEF NetInv, StatInv, Outer
    <3> QED
      BY <3>1, <3>2
  <2> QED
    BY <2>1, <2>2 DEF QueuesExact, NetInv
<1> QED
  BY <1>1, NetInvariant, PTL

\* Batching keeps the transmit queue below its capacity whenever a write
\* tests it, in every mode and across mode switches, for every choice of the
\* batch limits up to the capacity: the branch that fails a write is dead.
THEOREM NeverFullHolds == Windows \subseteq Harmless /\ Spec => []NeverFull
<1>1. NetInv => NeverFull
  BY DEF NetInv, TxInv, Outer, InEnqueue, NeverFull
<1> QED
  BY <1>1, NetInvariant, PTL

-----------------------------------------------------------------------------
(* The transmit ring implements Fifo.                                       *)

\* The k entries of a ring from place h on.
Part(ring, h, k) == [i \in 1 .. k |-> ring[(h + i - 1) % Cap]]

LEMMA PartType ==
  ASSUME NEW ring \in [0 .. Cap - 1 -> Payload], NEW h \in Nat, NEW k \in Nat
  PROVE  /\ Part(ring, h, k) \in Seq(Payload) /\ Len(Part(ring, h, k)) = k
         /\ \A i \in 1 .. k : Part(ring, h, k)[i] = ring[(h + i - 1) % Cap]
<1>1. \A i \in 1 .. k : ring[(h + i - 1) % Cap] \in Payload
  <2> TAKE i \in 1 .. k
  <2>1. h + i - 1 \in Int
    OBVIOUS
  <2>2. (h + i - 1) % Cap \in 0 .. Cap - 1
    BY <2>1, ModRange, CapFacts
  <2> QED
    BY <2>2
<1> QED
  BY <1>1 DEF Part

\* One entry more.
LEMMA PartGrow ==
  ASSUME NEW ring \in [0 .. Cap - 1 -> Payload], NEW h \in Nat, NEW k \in Nat
  PROVE  Part(ring, h, k + 1) = Append(Part(ring, h, k), ring[(h + k) % Cap])
<1> DEFINE a == Part(ring, h, k)
           b == Part(ring, h, k + 1)
           x == ring[(h + k) % Cap]
<1>1. /\ a \in Seq(Payload) /\ Len(a) = k /\ b \in Seq(Payload) /\ Len(b) = k + 1
      /\ \A i \in 1 .. k : a[i] = ring[(h + i - 1) % Cap]
      /\ \A i \in 1 .. k + 1 : b[i] = ring[(h + i - 1) % Cap]
  <2>1. k + 1 \in Nat
    OBVIOUS
  <2> QED
    BY <2>1, PartType
<1>2. b[k + 1] = x
  <2>1. k + 1 \in 1 .. k + 1 /\ h + (k + 1) - 1 = h + k
    OBVIOUS
  <2> QED
    BY <1>1, <2>1
<1>3. x \in Payload
  BY <1>1, <1>2
<1> HIDE DEF a, b, x
<1>4. \A i \in 1 .. k : b[i] = a[i]
  BY <1>1
<1>5. b = Append(a, x)
  BY <1>1, <1>2, <1>3, <1>4
<1> QED
  BY <1>5 DEF a, b, x

\* The oldest entry, and the others.
LEMMA PartShrink ==
  ASSUME NEW ring \in [0 .. Cap - 1 -> Payload], NEW h \in 0 .. Cap - 1, NEW k \in Nat \ {0}
  PROVE  /\ Part(ring, h, k)[1] = ring[h]
         /\ SubSeq(Part(ring, h, k), 2, k) = Part(ring, h + 1, k - 1)
<1> DEFINE a == Part(ring, h, k)
           b == Part(ring, h + 1, k - 1)
<1>1. h \in Nat /\ h + 1 \in Nat /\ k \in Nat /\ k - 1 \in Nat
  BY CapFacts
<1>2. /\ a \in Seq(Payload) /\ Len(a) = k /\ b \in Seq(Payload) /\ Len(b) = k - 1
      /\ \A i \in 1 .. k : a[i] = ring[(h + i - 1) % Cap]
      /\ \A i \in 1 .. k - 1 : b[i] = ring[((h + 1) + i - 1) % Cap]
  BY <1>1, PartType
<1> HIDE DEF a, b
<1>3. a[1] = ring[h]
  <2>1. 1 \in 1 .. k /\ h + 1 - 1 = h
    BY <1>1
  <2>2. h % Cap = h
    BY CapFacts, ModSmall
  <2> QED
    BY <1>2, <2>1, <2>2
<1>4. \A i \in 1 .. k - 1 : a[i + 1] = b[i]
  <2> TAKE i \in 1 .. k - 1
  <2>1. i + 1 \in 1 .. k /\ h + (i + 1) - 1 = (h + 1) + i - 1
    BY <1>1
  <2> QED
    BY <1>2, <2>1
<1>5. SubSeq(a, 2, k) = b
  <2>1. /\ SubSeq(a, 2, k) \in Seq(Payload) /\ Len(SubSeq(a, 2, k)) = k - 1
        /\ \A i \in 1 .. k - 1 : SubSeq(a, 2, k)[i] = a[i + 1]
    BY <1>1, <1>2
  <2> QED
    BY <1>2, <1>4, <2>1, SeqEqual
<1> QED
  BY <1>3, <1>5 DEF a, b

\* The place counts modulo the capacity.
LEMMA PartWrap ==
  ASSUME NEW ring \in [0 .. Cap - 1 -> Payload], NEW h \in Nat, NEW k \in Nat
  PROVE  Part(ring, h % Cap, k) = Part(ring, h, k)
<1>1. \A i \in 1 .. k : ((h % Cap) + i - 1) % Cap = (h + i - 1) % Cap
  <2> TAKE i \in 1 .. k
  <2> DEFINE m == h % Cap
  <2>1. Cap \in Nat \ {0} /\ h \in Int /\ i - 1 \in Int
    BY CapFacts
  <2>2. m \in Int
    BY <2>1, ModRange
  <2>3. (m + (i - 1)) % Cap = (h + (i - 1)) % Cap
    BY <2>1, ModAdd
  <2> HIDE DEF m
  <2>4. m + (i - 1) = m + i - 1 /\ h + (i - 1) = h + i - 1
    BY <2>1, <2>2
  <2>5. (m + i - 1) % Cap = (h + i - 1) % Cap
    BY <2>3, <2>4
  <2> QED
    BY <2>5 DEF m
<1> QED
  BY <1>1 DEF Part

\* Filling the first free slot changes none of the entries in use.
LEMMA PartFill ==
  ASSUME NEW ring, NEW r, NEW h \in Nat, NEW k \in 0 .. Cap - 1,
         \A x \in 0 .. Cap - 1 : x # (h + k) % Cap => r[x] = ring[x]
  PROVE  Part(r, h, k) = Part(ring, h, k)
<1>1. Cap \in Nat \ {0}
  BY CapFacts
<1>2. ASSUME NEW i \in 1 .. k
      PROVE  r[(h + i - 1) % Cap] = ring[(h + i - 1) % Cap]
  <2>1. i - 1 \in 0 .. Cap - 1 /\ i - 1 # k /\ h + (i - 1) = h + i - 1 /\ h + i - 1 \in Int
    BY <1>1
  <2>2. (h + (i - 1)) % Cap # (h + k) % Cap
    BY <1>1, <2>1, ModApart
  <2>3. (h + i - 1) % Cap \in 0 .. Cap - 1
    BY <1>1, <2>1, ModRange
  <2> QED
    BY <2>1, <2>2, <2>3
<1> QED
  BY <1>2 DEF Part

\* Waiting in the phases of a flush.
LEMMA WaitingForms ==
  /\ SentNotPopped => Waiting = Part(tx_queue, tx_head + 1, tx_count - 1)
  /\ HeadMoved => Waiting = Part(tx_queue, tx_head, tx_count - 1)
  /\ ~SentNotPopped /\ ~HeadMoved => Waiting = Part(tx_queue, tx_head, tx_count)
  BY DEF SentNotPopped, HeadMoved, Waiting, Batch, Part

\* The same for the state after a step.
LEMMA WaitingNext ==
  /\ SentNotPopped' => Waiting' = Part(tx_queue', tx_head' + 1, tx_count' - 1)
  /\ HeadMoved' => Waiting' = Part(tx_queue', tx_head', tx_count' - 1)
  /\ ~SentNotPopped' /\ ~HeadMoved' => Waiting' = Part(tx_queue', tx_head', tx_count')
  BY DEF SentNotPopped, HeadMoved, Waiting, Batch, Part

LEMMA FifoInit == Init => TxQueue!Init
<1> SUFFICES ASSUME Init
             PROVE  TxQueue!Init
  OBVIOUS
<1>1. Waiting = Part(tx_queue, tx_head, tx_count) /\ tx_head = 0 /\ tx_count = 0
      /\ tx_queue \in [0 .. Cap - 1 -> Payload]
  BY TypeInit, WaitingForms DEF Init, SentNotPopped, HeadMoved, NoLocals, TypeOK
<1>2. Waiting = <<>>
  BY <1>1, PartType
<1> QED
  BY <1>2 DEF TxQueue!Init, Init

\* Every step of netfs and of the timer interrupt is a step of the queue, or
\* none at all.
LEMMA FifoStep ==
  ASSUME NetInv, NetInv', [Next]_vars, Windows \subseteq Harmless
  PROVE  [TxQueue!Next]_<<Waiting, drained, accepted>>
<1>1. TypeOK /\ TxInv /\ TxInv' /\ loc \in Locals
  BY DEF NetInv, TypeOK
<1>2. /\ tx_head \in 0 .. Cap - 1 /\ tx_head \in Nat /\ tx_count \in Nat
      /\ tx_queue \in [0 .. Cap - 1 -> Payload] /\ Cap \in Nat \ {0} /\ MaxWrites \in Nat
      /\ loc.payload \in 0 .. MaxWrites /\ drained \in Seq(Payload)
  BY <1>1, NumberTypes, CapFacts DEF TypeOK
<1>stutter. SUFFICES ASSUME ~UNCHANGED <<Waiting, drained, accepted>>
                     PROVE  TxQueue!Next
  OBVIOUS
<1> USE DEF InTransmit, InPop, InEnqueue
<1>3. CASE UNCHANGED <<tx_queue, tx_head, tx_count, drained, accepted>>
           /\ (SentNotPopped' <=> SentNotPopped) /\ (HeadMoved' <=> HeadMoved)
  BY <1>3, <1>stutter, WaitingForms, WaitingNext
<1>4. ASSUME NEW op \in {"send", "ping"}, Send(op)
      PROVE  TxQueue!Next
  <2>1. /\ UNCHANGED <<tx_queue, tx_head, tx_count, drained, accepted>>
        /\ pc = "idle" /\ pc' \in {"transmit", "test"}
    BY <1>4 DEF Send, txVars
  <2> QED
    BY <1>3, <2>1 DEF SentNotPopped, HeadMoved
<1>5. CASE Inject
  <2>1. /\ UNCHANGED <<tx_queue, tx_head, tx_count, drained, accepted>>
        /\ pc = "idle" /\ pc' = "rxslot" /\ ~loc'.inflush
    BY <1>5 DEF Inject, txVars, NoLocals
  <2> QED
    BY <1>3, <2>1 DEF SentNotPopped, HeadMoved
<1>6. ASSUME NEW b \in BOOLEAN, SetLoopback(b)
      PROVE  TxQueue!Next
  BY <1>3, <1>6 DEF SetLoopback, txVars, SentNotPopped, HeadMoved
<1>7. ASSUME NEW m \in Modes, SetMode(m)
      PROVE  TxQueue!Next
  BY <1>3, <1>7 DEF SetMode, txVars, SentNotPopped, HeadMoved
<1>8. CASE EnqTest \/ EnqSlot \/ EnqSlotCount \/ EnqLoad \/ EnqReport \/ EnqNote
  <2>1. /\ UNCHANGED <<tx_queue, tx_head, tx_count, drained, accepted>>
        /\ pc \in {"test", "slot", "slotcount", "load", "report", "note"}
        /\ pc' \in {"slot", "slotcount", "idle", "flush", "fill", "store", "note", "batch"}
    BY <1>8 DEF EnqTest, EnqSlot, EnqSlotCount, EnqLoad, EnqReport, EnqNote, txVars
  <2> QED
    BY <1>3, <2>1 DEF SentNotPopped, HeadMoved
<1>9. CASE BatchTest \/ FlushTest \/ FlushFetch \/ FlushEnd
  <2>1. /\ UNCHANGED <<tx_queue, tx_head, tx_count, drained, accepted>>
        /\ pc \in {"batch", "flush", "fetch", "flushend"}
        /\ pc' \in {"flush", "idle", "fetch", "transmit", "flushend", "test"}
    BY <1>9, FinishFields DEF BatchTest, FlushTest, FlushFetch, FlushEnd, txVars
  <2> QED
    BY <1>3, <2>1 DEF SentNotPopped, HeadMoved
<1>10. CASE EnqFill
  <2>1. /\ tx_queue' = [tx_queue EXCEPT ![(tx_head + tx_count) % Cap] = loc.payload]
        /\ UNCHANGED <<tx_head, tx_count, drained, accepted>>
        /\ pc = "fill" /\ pc' = "load" /\ tx_count < Cap
    BY <1>1, <1>10 DEF EnqFill, TxInv, Outer
  <2>2. Waiting = Part(tx_queue, tx_head, tx_count) /\ Waiting' = Part(tx_queue', tx_head, tx_count)
    BY <2>1, WaitingForms, WaitingNext DEF SentNotPopped, HeadMoved
  <2>3. tx_count \in 0 .. Cap - 1
    BY <1>2, <2>1
  <2>4. Part(tx_queue', tx_head, tx_count) = Part(tx_queue, tx_head, tx_count)
    <3>1. \A x \in 0 .. Cap - 1 : x # (tx_head + tx_count) % Cap => tx_queue'[x] = tx_queue[x]
      BY <1>2, <2>1
    <3>2. tx_head \in Nat
      BY <1>2
    <3> QED
      BY ONLY <2>3, <3>1, <3>2, PartFill
  <2>5. Waiting' = Waiting
    BY <2>2, <2>4
  <2> QED
    BY <1>stutter, <2>1, <2>5
<1>11. CASE EnqStore
  <2>1. /\ UNCHANGED <<tx_queue, tx_head, drained>> /\ accepted' = Append(accepted, loc.payload)
        /\ tx_count' = (tx_count + 1) % Wrap /\ tx_count < Cap /\ loc.payload > 0
        /\ tx_queue[(tx_head + tx_count) % Cap] = loc.payload
        /\ pc = "store" /\ pc' = "report"
    BY <1>1, <1>11 DEF EnqStore, TxInv, Outer
  <2>2. tx_count' = tx_count + 1
    BY <1>2, <2>1, CountSteps
  <2>3. Waiting = Part(tx_queue, tx_head, tx_count)
        /\ Waiting' = Part(tx_queue, tx_head, tx_count + 1)
    BY <2>1, <2>2, WaitingForms, WaitingNext DEF SentNotPopped, HeadMoved
  <2>4. Waiting' = Append(Waiting, loc.payload)
    <3>1. Part(tx_queue, tx_head, tx_count + 1)
            = Append(Part(tx_queue, tx_head, tx_count), tx_queue[(tx_head + tx_count) % Cap])
      BY ONLY <1>2, PartGrow
    <3> QED
      BY <2>1, <2>3, <3>1, Zenon
  <2>5. loc.payload \in 1 .. MaxWrites
    BY <1>2, <2>1
  <2> QED
    BY <2>1, <2>4, <2>5 DEF TxQueue!Next, TxQueue!Put
<1>12. CASE Transmit
  <2>1. pc = "transmit" /\ UNCHANGED <<tx_queue, tx_head, tx_count, accepted>>
    BY <1>12 DEF Transmit, txVars
  <2>2. CASE loc.inflush
    <3>1. /\ drained' = Append(drained, tx_queue[tx_head])
          /\ pc' \in {"rxslot", "pophead"} /\ loc' = loc /\ tx_count > 0
      BY <1>1, <1>12, <2>2 DEF Transmit, Sent, Outgoing, TxInv
    <3>2. Waiting = Part(tx_queue, tx_head, tx_count)
          /\ Waiting' = Part(tx_queue, tx_head + 1, tx_count - 1)
      BY <2>1, <2>2, <3>1, WaitingForms, WaitingNext DEF SentNotPopped, HeadMoved
    <3>3. tx_count \in Nat \ {0}
      BY <1>2, <3>1
    <3>4. /\ Waiting \in Seq(Payload) /\ Len(Waiting) = tx_count /\ Waiting[1] = tx_queue[tx_head]
          /\ Waiting' = SubSeq(Waiting, 2, tx_count)
      BY <1>2, <3>2, <3>3, PartType, PartShrink
    <3>5. SubSeq(Waiting, 1, 1) = <<tx_queue[tx_head]>>
      BY <3>3, <3>4, SubSeqFirst
    <3>6. drained' = drained \o SubSeq(Waiting, 1, 1)
      <4>1. tx_queue[tx_head] \in Payload
        BY <1>2
      <4>2. Append(drained, tx_queue[tx_head]) = drained \o <<tx_queue[tx_head]>>
        BY <1>2, <4>1, AppendIsConcat
      <4> QED
        BY <3>1, <3>5, <4>2
    <3>7. TxQueue!Send(1)
      BY <2>1, <3>4, <3>6 DEF TxQueue!Send
    <3>8. 1 \in 1 .. Len(Waiting)
      BY <3>3, <3>4
    <3> QED
      BY <3>7, <3>8 DEF TxQueue!Next
  <2>3. CASE ~loc.inflush
    <3>1. /\ UNCHANGED drained
          /\ \/ pc' = "rxslot" /\ ~loc'.inflush
             \/ pc' \in {"idle", "flush"}
      BY <1>12, <2>3, FinishFields DEF Transmit, Sent
    <3> QED
      BY <1>3, <2>1, <2>3, <3>1 DEF SentNotPopped, HeadMoved
  <2> QED
    BY <2>2, <2>3
<1>13. CASE RxSlot \/ RxFill
  <2>1. /\ UNCHANGED <<tx_queue, tx_head, tx_count, drained, accepted>>
        /\ loc'.inflush = loc.inflush
        /\ pc \in {"rxslot", "rxfill"} /\ pc' \in {"rxfill", "rxstore"}
    BY <1>1, <1>13 DEF RxSlot, RxFill, txVars, Locals
  <2> QED
    BY <1>3, <2>1 DEF SentNotPopped, HeadMoved
<1>14. CASE RxStore
  <2>1. /\ UNCHANGED <<tx_queue, tx_head, tx_count, drained, accepted>> /\ pc = "rxstore"
        /\ \/ pc' = "pophead" /\ loc' = loc /\ loc.inflush
           \/ pc' \in {"idle", "flush"} /\ ~loc.inflush
    BY <1>14, FinishFields DEF RxStore, Sent, txVars
  <2> QED
    BY <1>3, <2>1 DEF SentNotPopped, HeadMoved
<1>15. CASE PopHead
  <2>1. /\ UNCHANGED <<tx_queue, tx_count, drained, accepted>> /\ tx_head' = (tx_head + 1) % Cap
        /\ pc = "pophead" /\ pc' = "popload" /\ loc.inflush /\ tx_count > 0
    BY <1>1, <1>15 DEF PopHead, TxInv
  <2>2. Waiting = Part(tx_queue, tx_head + 1, tx_count - 1)
        /\ Waiting' = Part(tx_queue, (tx_head + 1) % Cap, tx_count - 1)
    BY <2>1, WaitingForms, WaitingNext DEF SentNotPopped, HeadMoved
  <2>3. tx_head + 1 \in Nat /\ tx_count - 1 \in Nat
    BY <1>2, <2>1
  <2>4. Waiting' = Waiting
    BY <1>2, <2>2, <2>3, PartWrap
  <2> QED
    BY <1>stutter, <2>1, <2>4
<1>16. CASE PopLoad
  BY <1>3, <1>16 DEF PopLoad, txVars, SentNotPopped, HeadMoved
<1>17. CASE PopStore
  <2>1. /\ UNCHANGED <<tx_queue, tx_head, drained, accepted>> /\ tx_count' = (tx_count - 1) % Wrap
        /\ pc = "popstore" /\ pc' = "flush" /\ tx_count > 0 /\ tx_count <= Cap
    BY <1>1, <1>17 DEF PopStore, TxInv
  <2>2. tx_count' = tx_count - 1
    BY <1>2, <2>1, CountSteps
  <2>3. Waiting' = Waiting
    BY <2>1, <2>2, WaitingForms, WaitingNext DEF SentNotPopped, HeadMoved
  <2> QED
    BY <1>stutter, <2>1, <2>3
<1>18. CASE Tick
  <2>1. UNCHANGED <<tx_queue, accepted, pc, loc>> /\ pc \in Harmless
    BY <1>1, <1>18, TickQueue
  <2>2. CASE UNCHANGED <<drained, tx_head, tx_count>>
    BY <1>3, <2>1, <2>2 DEF SentNotPopped, HeadMoved
  <2>3. CASE /\ tx_count # 0 /\ tx_count' = 0 /\ tx_head' = (tx_head + tx_count) % Cap
             /\ drained' = drained \o Batch(tx_head, tx_count)
    <3>1. Waiting = Part(tx_queue, tx_head, tx_count) /\ Waiting' = Part(tx_queue', tx_head', 0)
      BY <2>1, <2>3, WaitingForms, WaitingNext DEF SentNotPopped, HeadMoved, Harmless
    <3>2. tx_head' \in Nat /\ tx_queue' \in [0 .. Cap - 1 -> Payload]
      <4>1. tx_head + tx_count \in Int
        BY <1>2
      <4>2. tx_head' \in 0 .. Cap - 1
        BY <1>2, <2>3, <4>1, ModRange
      <4> QED
        BY <1>2, <2>1, <4>2
    <3>3. Waiting' = <<>>
      BY <3>1, <3>2, PartType
    <3>4. Waiting \in Seq(Payload) /\ Len(Waiting) = tx_count /\ tx_count \in 1 .. Len(Waiting)
      <4>1. Waiting \in Seq(Payload) /\ Len(Waiting) = tx_count
        BY <1>2, <3>1, PartType
      <4>2. tx_count \in 1 .. tx_count
        BY <1>2, <2>3
      <4> QED
        BY <4>1, <4>2
    <3>5. SubSeq(Waiting, 1, tx_count) = Waiting /\ SubSeq(Waiting, tx_count + 1, Len(Waiting)) = <<>>
      BY <3>4
    <3>6. Waiting = Batch(tx_head, tx_count)
      BY <3>1 DEF Batch, Part
    <3>7. TxQueue!Send(tx_count)
      BY <2>1, <2>3, <3>3, <3>5, <3>6 DEF TxQueue!Send
    <3> QED
      BY <3>4, <3>7 DEF TxQueue!Next
  <2> QED
    BY <1>1, <1>18, <2>2, <2>3, TickQueue
<1>19. CASE UNCHANGED vars
  BY <1>3, <1>19 DEF vars, txVars, SentNotPopped, HeadMoved
<1> QED
  BY <1>4, <1>5, <1>6, <1>7, <1>8, <1>9, <1>10, <1>11, <1>12, <1>13, <1>14, <1>15, <1>16,
     <1>17, <1>18, <1>19 DEF Next, Command, CallStep

\* The transmit ring with its interrupt implements the queue of Fifo for every
\* capacity, when interrupts come at the harmless places only: a packet that
\* enters leaves once and in order, whether a task or the timer flushes it.
THEOREM RingImplementsFifo == Windows \subseteq Harmless /\ Spec => RingIsFifo
<1>1. SUFFICES ASSUME Windows \subseteq Harmless
               PROVE  Spec => RingIsFifo
  OBVIOUS
<1>2. NetInv /\ NetInv' /\ [Next]_vars => [TxQueue!Next]_<<Waiting, drained, accepted>>
  BY <1>1, FifoStep
<1>3. Spec => []NetInv
  BY <1>1, NetInvariant
<1> QED
  BY <1>2, <1>3, FifoInit, PTL DEF Spec, RingIsFifo, TxQueue!Spec
=============================================================================

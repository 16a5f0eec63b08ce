-------------------------------- MODULE Net --------------------------------
(***************************************************************************)
(* kernel/netfs.c with the transmit batching of kernel/power.c, and the    *)
(* timer interrupt that flushes the same queue.                            *)
(*                                                                         *)
(* The timer interrupt may arrive between any two instructions of a netfs  *)
(* call and runs the flush to its end (an interrupt gate leaves interrupts *)
(* off).  Tasks never yield inside netfs, so there is one call in progress *)
(* at most.  The calls of the shell and of the ping program are cut into   *)
(* steps: up to the end of an enqueue at every load and store of tx_head,  *)
(* tx_count and pending_tx_packets that the flush can make stale, in a     *)
(* flush also around the transmission, the pop and the receive queue.  An  *)
(* interrupt inside a step counts as one at the place the step starts: the *)
(* steps that still have several accesses inside (RxSlot, RxFill, RxStore, *)
(* PopHead, FlushEnd) start at a harmful place or find an empty queue,     *)
(* which the timer leaves alone.  Windows is the set of places where an    *)
(* interrupt is taken: all of Places in the kernel, fewer to find out      *)
(* which places are harmless.                                              *)
(*                                                                         *)
(* A payload is the number of the write that brought it, 0 a ring entry    *)
(* never written.  Packet ids, lengths, byte counters and the counters of  *)
(* transmissions are left out: no decision reads them, and what the        *)
(* interrupt does to their read-modify-writes is not claimed.              *)
(***************************************************************************)
EXTENDS Integers, Sequences, FiniteSets

CONSTANTS
  Cap,         \* NETFS_QUEUE_CAP
  Limit,       \* power_net_batch_limit by mode
  Interval,    \* power_keyboard_flush_interval by mode
  Wrap,        \* 2^w for the w-bit counter tx_count
  MaxWrites,   \* bound on the payloads written
  Windows      \* the places in the code where a timer interrupt is taken

Modes == {"performance", "balanced", "saver"}
Places == {"idle", "test", "slot", "slotcount", "fill", "load", "store", "report", "note",
           "batch", "flush", "fetch", "transmit", "rxslot", "rxfill", "rxstore",
           "pophead", "popload", "popstore", "flushend"}

\* The places where an interrupt does no harm: the call has read nothing that
\* the flush changes, or will read it again.
Harmless == {"idle", "test", "slot", "fill", "load", "report", "batch", "flush", "flushend"}

ASSUME NetAssumption ==
  /\ Cap \in Nat \ {0}
  /\ Limit \in [Modes -> Nat \ {0}]
  /\ \A m \in Modes : Limit[m] <= Cap
  /\ Interval \in [Modes -> Nat \ {0}]
  /\ Wrap \in Nat /\ Wrap > Cap
  /\ MaxWrites \in Nat
  /\ Windows \subseteq Places

VARIABLES
  mode,          \* power_state.mode
  ticks,         \* ticks_since_flush
  loopback,      \* stats.loopback_enabled
  tx_queue, tx_head, tx_count,
  rx,            \* the receive queue: ring, head, count and its statistics
  pending,       \* power_state.stats.pending_tx_packets
  enqueued,      \* power_state.stats.net_tx_enqueued
  flushed,       \* power_state.stats.net_tx_flushed
  pc,            \* where the netfs call in progress stands
  loc,           \* its local variables
  writes,        \* history: payloads written so far
  accepted,      \* history: payloads that entered the transmit queue, in order
  wire,          \* history: payloads transmitted, in order
  drained,       \* history: those of them taken from the transmit queue
  heard          \* history: payloads received, in order

txVars == <<tx_queue, tx_head, tx_count>>
statVars == <<pending, enqueued, flushed>>
cfgVars == <<mode, ticks, loopback>>
vars == <<cfgVars, txVars, rx, statVars, pc, loc, writes, accepted, wire, drained, heard>>

\* op: the caller; payload: what is being sent; retried: the enqueue follows
\* a flush of a full queue; slot, c: values loaded; n: flushed_packets;
\* inflush: transmit_now was called by flush_tx_queue.
NoLocals == [op |-> "none", payload |-> 0, retried |-> FALSE, slot |-> 0, c |-> 0,
             n |-> 0, inflush |-> FALSE]

-----------------------------------------------------------------------------
(* The receive queue: enqueue_rx_packet.                                    *)

\* Mutant: the full queue gives up an entry at its tail.
RxRoomTail(q) ==
  IF q.count = Cap THEN [q EXCEPT !.count = @ - 1, !.dropped = @ + 1] ELSE q

\* The full queue loses its oldest packet.
RxRoom(q) ==
  IF q.count = Cap
  THEN [q EXCEPT !.head = (@ + 1) % Cap, !.count = @ - 1, !.dropped = @ + 1]
  ELSE q

enqueue_rx_packet(q, p) ==
  LET r == RxRoom(q)
  IN [r EXCEPT !.ring[(r.head + r.count) % Cap] = p, !.count = @ + 1, !.packets = @ + 1]

-----------------------------------------------------------------------------
(* The timer interrupt: power_tick_hook, netfs_power_tick, flush_tx_queue   *)
(* and transmit_now, uninterrupted.                                         *)

\* The k packets of the transmit ring from place h on.
Batch(h, k) == [i \in 1 .. k |-> tx_queue[(h + i - 1) % Cap]]

\* The receive queue once the packets of a batch have entered it.
RxAfter(q, batch) ==
  LET after[i \in 0 .. Len(batch)] ==
        IF i = 0 THEN q ELSE enqueue_rx_packet(after[i - 1], batch[i])
  IN after[Len(batch)]

FlushWhole ==
  LET batch == Batch(tx_head, tx_count)
  IN /\ wire' = wire \o batch
     /\ drained' = drained \o batch
     /\ IF loopback
        THEN rx' = RxAfter(rx, batch) /\ heard' = heard \o batch
        ELSE UNCHANGED <<rx, heard>>
     /\ tx_head' = (tx_head + tx_count) % Cap
     /\ tx_count' = 0
     /\ pending' = 0
     /\ flushed' = flushed + tx_count

\* Mutant: the timer flushes in saver mode only.
TickFlushesSaver == mode = "saver" /\ tx_count # 0

\* netfs_power_tick has nothing to do in performance mode.
TickFlushes == mode # "performance" /\ tx_count # 0

Tick ==
  /\ pc \in Windows
  /\ IF ticks + 1 >= Interval[mode]
     THEN /\ ticks' = 0
          /\ IF TickFlushes
             THEN FlushWhole
             ELSE UNCHANGED <<wire, drained, rx, heard, tx_head, tx_count, pending, flushed>>
     ELSE /\ ticks' = ticks + 1
          /\ UNCHANGED <<wire, drained, rx, heard, tx_head, tx_count, pending, flushed>>
  /\ UNCHANGED <<mode, loopback, tx_queue, enqueued, pc, loc, writes, accepted>>

-----------------------------------------------------------------------------
(* netfs_write_path.                                                        *)

\* The write is over: ping goes on to netfs_flush_tx, a command ends.
Finish ==
  IF loc.op = "ping"
  THEN pc' = "flush" /\ loc' = [NoLocals EXCEPT !.op = "send"]
  ELSE pc' = "idle" /\ loc' = NoLocals

\* /net/tx: transmit at once in performance mode, else queue.
Send(op) ==
  /\ pc = "idle"
  /\ writes < MaxWrites
  /\ writes' = writes + 1
  /\ loc' = [NoLocals EXCEPT !.op = op, !.payload = writes + 1]
  /\ pc' = IF mode = "performance" THEN "transmit" ELSE "test"
  /\ UNCHANGED <<cfgVars, txVars, rx, statVars, accepted, wire, drained, heard>>

\* /net/rx/inject.
Inject ==
  /\ pc = "idle"
  /\ writes < MaxWrites
  /\ writes' = writes + 1
  /\ loc' = [NoLocals EXCEPT !.op = "inject", !.payload = writes + 1]
  /\ pc' = "rxslot"
  /\ UNCHANGED <<cfgVars, txVars, rx, statVars, accepted, wire, drained, heard>>

\* /net/config/loopback.
SetLoopback(b) ==
  /\ pc = "idle"
  /\ loopback' = b
  /\ UNCHANGED <<mode, ticks, txVars, rx, statVars, pc, loc, writes, accepted, wire, drained, heard>>

\* power_set_mode: the queue stays as it is.
SetMode(m) ==
  /\ pc = "idle"
  /\ mode' = m
  /\ UNCHANGED <<ticks, loopback, txVars, rx, statVars, pc, loc, writes, accepted, wire, drained, heard>>

\* enqueue_tx_packet: a full queue is flushed once, then the write fails.
EnqTest ==
  /\ pc = "test"
  /\ pc' = IF tx_count # Cap THEN "slot" ELSE IF loc.retried THEN "idle" ELSE "flush"
  /\ loc' = IF tx_count = Cap /\ loc.retried THEN NoLocals
            ELSE [loc EXCEPT !.retried = tx_count = Cap]
  /\ UNCHANGED <<cfgVars, txVars, rx, statVars, writes, accepted, wire, drained, heard>>

\* The slot is the sum of two loads, tx_head first.
EnqSlot ==
  /\ pc = "slot"
  /\ loc' = [loc EXCEPT !.slot = tx_head]
  /\ pc' = "slotcount"
  /\ UNCHANGED <<cfgVars, txVars, rx, statVars, writes, accepted, wire, drained, heard>>

EnqSlotCount ==
  /\ pc = "slotcount"
  /\ loc' = [loc EXCEPT !.slot = (@ + tx_count) % Cap]
  /\ pc' = "fill"
  /\ UNCHANGED <<cfgVars, txVars, rx, statVars, writes, accepted, wire, drained, heard>>

EnqFill ==
  /\ pc = "fill"
  /\ tx_queue' = [tx_queue EXCEPT ![loc.slot] = loc.payload]
  /\ pc' = "load"
  /\ UNCHANGED <<cfgVars, tx_head, tx_count, rx, statVars, loc, writes, accepted, wire, drained, heard>>

\* tx_count++ is a load and a store.
EnqLoad ==
  /\ pc = "load"
  /\ loc' = [loc EXCEPT !.c = tx_count]
  /\ pc' = "store"
  /\ UNCHANGED <<cfgVars, txVars, rx, statVars, writes, accepted, wire, drained, heard>>

EnqStore ==
  /\ pc = "store"
  /\ tx_count' = (loc.c + 1) % Wrap
  /\ enqueued' = enqueued + 1
  /\ accepted' = Append(accepted, loc.payload)
  /\ pc' = "report"
  /\ UNCHANGED <<cfgVars, tx_queue, tx_head, rx, pending, flushed, loc, writes, wire, drained, heard>>

\* power_note_net_enqueued counts up, power_set_pending_net overwrites it with
\* its argument, loaded before the call.
EnqReport ==
  /\ pc = "report"
  /\ loc' = [loc EXCEPT !.c = tx_count]
  /\ pc' = "note"
  /\ UNCHANGED <<cfgVars, txVars, rx, statVars, writes, accepted, wire, drained, heard>>

EnqNote ==
  /\ pc = "note"
  /\ pending' = loc.c
  /\ pc' = "batch"
  /\ UNCHANGED <<cfgVars, txVars, rx, enqueued, flushed, loc, writes, accepted, wire, drained, heard>>

\* Mutant: the batch is flushed only once it exceeds the limit.
BatchTestLate ==
  /\ pc = "batch"
  /\ IF tx_count > Limit[mode]
     THEN pc' = "flush" /\ loc' = [loc EXCEPT !.retried = FALSE]
     ELSE Finish
  /\ UNCHANGED <<cfgVars, txVars, rx, statVars, writes, accepted, wire, drained, heard>>

BatchTest ==
  /\ pc = "batch"
  /\ IF tx_count >= Limit[mode]
     THEN pc' = "flush" /\ loc' = [loc EXCEPT !.retried = FALSE]
     ELSE Finish
  /\ UNCHANGED <<cfgVars, txVars, rx, statVars, writes, accepted, wire, drained, heard>>

-----------------------------------------------------------------------------
(* flush_tx_queue and transmit_now in a task.                               *)

\* The loop's condition.
FlushTest ==
  /\ pc = "flush"
  /\ pc' = IF tx_count # 0 THEN "fetch" ELSE "flushend"
  /\ UNCHANGED <<cfgVars, txVars, rx, statVars, loc, writes, accepted, wire, drained, heard>>

\* pkt.
FlushFetch ==
  /\ pc = "fetch"
  /\ loc' = [loc EXCEPT !.slot = tx_head, !.inflush = TRUE]
  /\ pc' = "transmit"
  /\ UNCHANGED <<cfgVars, txVars, rx, statVars, writes, accepted, wire, drained, heard>>

\* What transmit_now sends: its argument, or the ring entry pkt points to.
Outgoing == IF loc.inflush THEN tx_queue[loc.slot] ELSE loc.payload

\* Where the caller of transmit_now or of enqueue_rx_packet goes on.
Sent == IF loc.inflush THEN pc' = "pophead" /\ UNCHANGED loc ELSE Finish

Transmit ==
  /\ pc = "transmit"
  /\ wire' = Append(wire, Outgoing)
  /\ drained' = IF loc.inflush THEN Append(drained, Outgoing) ELSE drained
  /\ IF loopback THEN pc' = "rxslot" /\ UNCHANGED loc ELSE Sent
  /\ UNCHANGED <<cfgVars, txVars, rx, statVars, writes, accepted, heard>>

\* enqueue_rx_packet, cut where its slot and its count have been read.  The
\* flush keeps its own local slot, so the one computed here is kept in c.
RxSlot ==
  /\ pc = "rxslot"
  /\ rx' = RxRoom(rx)
  /\ loc' = [loc EXCEPT !.c = (RxRoom(rx).head + RxRoom(rx).count) % Cap]
  /\ pc' = "rxfill"
  /\ UNCHANGED <<cfgVars, txVars, statVars, writes, accepted, wire, drained, heard>>

RxFill ==
  /\ pc = "rxfill"
  /\ rx' = [rx EXCEPT !.ring[loc.c] = Outgoing]
  /\ heard' = Append(heard, Outgoing)
  /\ loc' = [loc EXCEPT !.c = rx.count]
  /\ pc' = "rxstore"
  /\ UNCHANGED <<cfgVars, txVars, statVars, writes, accepted, wire, drained>>

RxStore ==
  /\ pc = "rxstore"
  /\ rx' = [rx EXCEPT !.count = loc.c + 1, !.packets = @ + 1]
  /\ Sent
  /\ UNCHANGED <<cfgVars, txVars, statVars, writes, accepted, wire, drained, heard>>

\* Mutant: the head stays at the packet just sent.
PopHeadStuck ==
  /\ pc = "pophead"
  /\ loc' = [loc EXCEPT !.n = @ + 1]
  /\ pc' = "popload"
  /\ UNCHANGED <<cfgVars, txVars, rx, statVars, writes, accepted, wire, drained, heard>>

PopHead ==
  /\ pc = "pophead"
  /\ tx_head' = (tx_head + 1) % Cap
  /\ loc' = [loc EXCEPT !.n = @ + 1]
  /\ pc' = "popload"
  /\ UNCHANGED <<cfgVars, tx_queue, tx_count, rx, statVars, writes, accepted, wire, drained, heard>>

\* tx_count-- is a load and a store.
PopLoad ==
  /\ pc = "popload"
  /\ loc' = [loc EXCEPT !.c = tx_count]
  /\ pc' = "popstore"
  /\ UNCHANGED <<cfgVars, txVars, rx, statVars, writes, accepted, wire, drained, heard>>

PopStore ==
  /\ pc = "popstore"
  /\ tx_count' = (loc.c - 1) % Wrap
  /\ loc' = [loc EXCEPT !.inflush = FALSE]
  /\ pc' = "flush"
  /\ UNCHANGED <<cfgVars, tx_queue, tx_head, rx, statVars, writes, accepted, wire, drained, heard>>

\* power_set_pending_net, power_note_net_flushed, and back to the caller.
FlushEnd ==
  /\ pc = "flushend"
  /\ pending' = IF tx_count >= loc.n THEN tx_count - loc.n ELSE 0
  /\ flushed' = flushed + loc.n
  /\ IF loc.retried
     THEN pc' = "test" /\ loc' = [loc EXCEPT !.n = 0]
     ELSE Finish
  /\ UNCHANGED <<cfgVars, txVars, rx, enqueued, writes, accepted, wire, drained, heard>>

-----------------------------------------------------------------------------
Init ==
  /\ mode = "balanced"
  /\ ticks = 0
  /\ loopback = TRUE
  /\ tx_queue = [i \in 0 .. Cap - 1 |-> 0]
  /\ tx_head = 0
  /\ tx_count = 0
  /\ rx = [ring |-> [i \in 0 .. Cap - 1 |-> 0], head |-> 0, count |-> 0,
           dropped |-> 0, packets |-> 0]
  /\ pending = 0 /\ enqueued = 0 /\ flushed = 0
  /\ pc = "idle"
  /\ loc = NoLocals
  /\ writes = 0
  /\ accepted = <<>> /\ wire = <<>> /\ drained = <<>> /\ heard = <<>>

Command ==
  \/ \E op \in {"send", "ping"} : Send(op)
  \/ Inject
  \/ \E b \in BOOLEAN : SetLoopback(b)
  \/ \E m \in Modes : SetMode(m)

CallStep ==
  \/ EnqTest \/ EnqSlot \/ EnqSlotCount \/ EnqFill \/ EnqLoad \/ EnqStore
  \/ EnqReport \/ EnqNote \/ BatchTest
  \/ FlushTest \/ FlushFetch \/ Transmit \/ RxSlot \/ RxFill \/ RxStore
  \/ PopHead \/ PopLoad \/ PopStore \/ FlushEnd

Next == Command \/ CallStep \/ Tick

Spec == Init /\ [][Next]_vars

\* The CPU executes the call in progress and the timer keeps ticking.
FairSpec == Spec /\ WF_vars(CallStep) /\ WF_vars(Tick)
-----------------------------------------------------------------------------
(* Properties.                                                              *)

Payload == 0 .. MaxWrites
RxRecord == [ring : [0 .. Cap - 1 -> Payload], head : 0 .. Cap - 1, count : Nat,
             dropped : Nat, packets : Nat]
Locals == [op : {"none", "send", "ping", "inject"}, payload : Payload, retried : BOOLEAN,
           slot : 0 .. Cap - 1, c : Nat, n : Nat, inflush : BOOLEAN]

\* Types; in particular every index into the two rings is in range.
TypeOK ==
  /\ mode \in Modes /\ ticks \in Nat /\ loopback \in BOOLEAN
  /\ tx_queue \in [0 .. Cap - 1 -> Payload]
  /\ tx_head \in 0 .. Cap - 1 /\ tx_count \in 0 .. Wrap - 1
  /\ rx \in RxRecord
  /\ pending \in Nat /\ enqueued \in Nat /\ flushed \in Nat
  /\ pc \in Places
  /\ loc \in Locals
  /\ writes \in Payload
  /\ {accepted, wire, drained, heard} \subseteq Seq(Payload)

\* Inside flush_tx_queue the packet just sent is still in the ring until its
\* pop is done: before tx_head moves, and before tx_count does.
SentNotPopped == loc.inflush /\ pc \in {"rxslot", "rxfill", "rxstore", "pophead"}
HeadMoved == pc \in {"popload", "popstore"}

Waiting ==
  CASE SentNotPopped -> Batch(tx_head + 1, tx_count - 1)
    [] HeadMoved -> Batch(tx_head, tx_count - 1)
    [] OTHER -> Batch(tx_head, tx_count)

TxQueue ==
  INSTANCE Fifo WITH Packet <- 1 .. MaxWrites, queue <- Waiting,
    sent <- drained, arrived <- accepted

\* The transmit ring implements the queue of Fifo in the middle of calls too:
\* enqueueing, the flush of a task and the flush of the timer interrupt put
\* packets in at one end and take them out at the other, each exactly once.
RingIsFifo == TxQueue!Spec

\* Between calls the receive queue holds the newest packets received, up to
\* its capacity, in order, and every other one is counted as dropped.
RxExact ==
  pc = "idle" =>
    /\ rx.count <= Cap
    /\ rx.packets = Len(heard) /\ rx.packets = rx.dropped + rx.count
    /\ \A i \in 0 .. rx.count - 1 :
         rx.ring[(rx.head + i) % Cap] = heard[Len(heard) - rx.count + 1 + i]

\* Between calls the power statistics agree with the queue.
StatsExact ==
  pc = "idle" => pending = tx_count /\ enqueued = flushed + tx_count

\* The state is well formed, and between calls the receive queue and both sets
\* of statistics are exact, whatever timer interrupts came during the calls.
QueuesExact == TypeOK /\ RxExact /\ StatsExact

\* enqueue_tx_packet never meets a full queue: batching keeps it below its
\* capacity in every mode and across mode switches, so no write fails.
NeverFull == pc = "test" => tx_count < Cap

\* A queued packet leaves the queue as long as the mode is not performance.
QueueDrains ==
  (tx_count # 0 /\ mode # "performance") ~> (tx_count = 0 \/ mode = "performance")

\* One write to /net/tx sends one packet: no payload goes out twice.
SentOnce == \A i, j \in DOMAIN wire : wire[i] = wire[j] => i = j
=============================================================================

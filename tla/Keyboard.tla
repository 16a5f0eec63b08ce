----------------------------- MODULE Keyboard ------------------------------
(***************************************************************************)
(* The path of a key press: the PS/2 controller, the keyboard interrupt of *)
(* kernel/interrupts.c, the decoder and the character ring of              *)
(* kernel/keyboard.c, the coalescing queue of kernel/power.c that the      *)
(* timer interrupt empties into the ring, and the shell that reads it.     *)
(*                                                                         *)
(* Interrupt handlers run with interrupts off and are one step each.  The  *)
(* shell reads a character in two: it moves tail on, then loads the slot   *)
(* that tail has left, and a handler may fill that slot in between.  A     *)
(* character is the number of its key press and whether it is a shifted    *)
(* one.  The statistics of power.c are left out, and so are the keys that  *)
(* send shift codes of their own.                                          *)
(***************************************************************************)
EXTENDS Integers, Sequences

CONSTANTS
  QCap,          \* POWER_KEYBOARD_QCAP
  RingSize,      \* size of keyboard.c's buffer
  Wrap,          \* 2^w for the w-bit counters head and tail
  Interval,      \* power_keyboard_flush_interval by mode
  MaxKeys,       \* bound on the characters typed
  MaxWaiting,    \* bound on the characters typed and not yet read
  MaxOther,      \* bound on the shift and page keys pressed or released
  MaxSwitches,   \* bound on mode switches
  MaxReplays     \* bound on replays

Modes == {"performance", "balanced", "saver"}
Sides == {"left", "right"}

ASSUME KeyboardAssumption ==
  /\ {QCap, RingSize, Wrap} \subseteq Nat \ {0}
  /\ Wrap % RingSize = 0 /\ MaxWaiting \in 1 .. Wrap - 1
  /\ Interval \in [Modes -> Nat \ {0}] /\ \A m \in Modes : Interval[m] <= Interval["saver"]
  /\ {MaxKeys, MaxOther, MaxSwitches, MaxReplays} \subseteq Nat

VARIABLES
  held,        \* the shift keys that are down
  port,        \* the bytes the controller holds, the first at port 0x60
  irq,         \* the controller's interrupt request
  shift,       \* left_shift and right_shift
  extended,    \* extended_prefix
  mode,        \* power_state.mode
  queue,       \* keyboard_q, from keyboard_head on
  ticks,       \* ticks_since_flush
  buf,         \* keyboard.c's buffer and head; overrun: it was put to when full
  tail,
  taking,      \* the shell has moved tail and not loaded the character yet
  replay,      \* a replay is active
  pressed,     \* history: the characters the keys pressed stand for
  read,        \* history: the characters the shell has read
  overtaken,   \* history: a character passed others that wait in the queue
  others, switches, replays    \* what the bounds count

keyVars == <<held, port, irq, shift, extended, mode, queue, ticks, buf, tail, taking,
             replay, pressed, read, overtaken, others, switches, replays>>

hardware == <<held, pressed, others>>
decoder == <<shift, extended>>
delivery == <<mode, queue, ticks, buf, overtaken>>
user == <<tail, taking, read, replay, switches, replays>>

-----------------------------------------------------------------------------
(* The controller: an interrupt is requested when a byte appears at the     *)
(* empty port, and again when one byte is read and another is behind it.    *)

Send(bytes) == port' = port \o bytes /\ irq' = (irq \/ port = <<>>)

Byte(key, up) == [key |-> key, up |-> up, n |-> 0]

\* A key with a character, on the keypad with the prefix byte before it.
PressChar(keypad) ==
  LET n == Len(pressed) + 1
      code == [Byte("char", FALSE) EXCEPT !.n = n]
  IN /\ Len(pressed) < MaxKeys /\ Len(pressed) - Len(read) < MaxWaiting
     /\ pressed' = Append(pressed, [n |-> n, shifted |-> held # {}])
     /\ Send(IF keypad THEN <<Byte("prefix", FALSE), code>> ELSE <<code>>)
     /\ UNCHANGED <<held, others, decoder, delivery, user>>

\* A shift key goes down or up.
MoveShift(side) ==
  /\ others < MaxOther
  /\ others' = others + 1
  /\ held' = IF side \in held THEN held \ {side} ELSE held \cup {side}
  /\ Send(<<Byte(side, side \in held)>>)
  /\ UNCHANGED <<pressed, decoder, delivery, user>>

\* Page Up, Page Down, Home and End scroll the console.
PressPage ==
  /\ others < MaxOther
  /\ others' = others + 1
  /\ Send(<<Byte("prefix", FALSE), Byte("page", FALSE)>>)
  /\ UNCHANGED <<held, pressed, decoder, delivery, user>>

-----------------------------------------------------------------------------
(* The ring and the coalescing queue.                                       *)

\* The place of the oldest character that has not been read.
Oldest == IF taking THEN (tail - 1) % Wrap ELSE tail

Unread(b) == (b.head - Oldest) % Wrap

\* keyboard_buffer_put: nothing stops it from passing the oldest character.
keyboard_buffer_put(b, ch) ==
  [ring |-> [b.ring EXCEPT ![b.head % RingSize] = ch],
   head |-> (b.head + 1) % Wrap,
   overrun |-> b.overrun \/ Unread(b) >= RingSize]

\* keyboard_flush_now: the queue goes into the ring, oldest first.
keyboard_flush_now ==
  LET after[k \in 0 .. Len(queue)] ==
        IF k = 0 THEN buf ELSE keyboard_buffer_put(after[k - 1], queue[k])
  IN after[Len(queue)]

QueueRoom == Len(queue) < QCap

\* power_keyboard_char.
power_keyboard_char(ch) ==
  IF mode # "performance" /\ QueueRoom
  THEN queue' = Append(queue, ch) /\ UNCHANGED <<buf, overtaken>>
  ELSE /\ buf' = keyboard_buffer_put(buf, ch)
       /\ overtaken' = (overtaken \/ queue # <<>>)
       /\ UNCHANGED queue

\* Mutant: the release of a shift key is taken for a press.
ShiftAfterSticky(b) == shift \cup {b.key}

ShiftAfter(b) == IF b.up THEN shift \ {b.key} ELSE shift \cup {b.key}

\* keyboard_handle_scancode.
keyboard_handle_scancode(b) ==
  /\ extended' = (b.key = "prefix")
  /\ shift' = IF b.key \in Sides THEN ShiftAfter(b) ELSE shift
  /\ IF b.key = "char"
     THEN power_keyboard_char([n |-> b.n, shifted |-> shift # {}])
     ELSE UNCHANGED <<queue, buf, overtaken>>

\* isr_dispatch, vector 33.  During a replay it returns without reading the
\* port, so the byte stays there and no further request comes.
KeyboardIrq ==
  /\ irq
  /\ IF replay
     THEN irq' = FALSE /\ UNCHANGED <<port, decoder, delivery>>
     ELSE /\ port' = Tail(port)
          /\ irq' = (Len(port) > 1)
          /\ keyboard_handle_scancode(Head(port))
          /\ UNCHANGED <<mode, ticks>>
  /\ UNCHANGED <<hardware, user>>

\* isr_dispatch, vector 32: power_tick_hook.
TimerIrq ==
  /\ ~replay
  /\ IF ticks + 1 >= Interval[mode]
     THEN /\ ticks' = 0
          /\ queue' = <<>>
          /\ buf' = keyboard_flush_now
     ELSE ticks' = ticks + 1 /\ UNCHANGED <<queue, buf>>
  /\ UNCHANGED <<hardware, port, irq, decoder, mode, overtaken, user>>

-----------------------------------------------------------------------------
(* The shell.                                                               *)

\* Mutant: empty is tested by comparing the counters' order.
HasCharOrdered == tail < buf.head

HasChar == buf.head # tail

\* keyboard_getchar, called by shell_read_char, up to the store of tail.
keyboard_getchar ==
  /\ ~replay /\ ~taking
  /\ HasChar
  /\ tail' = (tail + 1) % Wrap
  /\ taking' = TRUE
  /\ UNCHANGED <<hardware, port, irq, decoder, delivery, read, replay, switches, replays>>

\* Its load of the character.
GetcharLoad ==
  /\ taking
  /\ read' = Append(read, buf.ring[Oldest % RingSize])
  /\ taking' = FALSE
  /\ UNCHANGED <<hardware, port, irq, decoder, delivery, tail, replay, switches, replays>>

\* power_set_mode.
SetMode(m) ==
  /\ ~replay /\ ~taking
  /\ switches < MaxSwitches
  /\ switches' = switches + 1
  /\ mode' = m
  /\ UNCHANGED <<hardware, port, irq, decoder, queue, ticks, buf, overtaken, tail, taking,
                 read, replay, replays>>

\* demo replay, for as long as trace_replay_active says so.
ReplayBegin ==
  /\ ~replay /\ ~taking
  /\ replays < MaxReplays
  /\ replays' = replays + 1
  /\ replay' = TRUE
  /\ UNCHANGED <<hardware, port, irq, decoder, delivery, tail, taking, read, switches>>

ReplayEnd ==
  /\ replay
  /\ replay' = FALSE
  /\ UNCHANGED <<hardware, port, irq, decoder, delivery, tail, taking, read, switches, replays>>

KeyInit ==
  /\ held = {} /\ port = <<>> /\ irq = FALSE
  /\ shift = {} /\ extended = FALSE
  /\ mode = "balanced" /\ queue = <<>> /\ ticks = 0
  /\ buf = [ring |-> [i \in 0 .. RingSize - 1 |-> [n |-> 0, shifted |-> FALSE]],
            head |-> 0, overrun |-> FALSE]
  /\ tail = 0 /\ taking = FALSE /\ replay = FALSE
  /\ pressed = <<>> /\ read = <<>> /\ overtaken = FALSE
  /\ others = 0 /\ switches = 0 /\ replays = 0

KeyNext ==
  \/ \E keypad \in BOOLEAN : PressChar(keypad)
  \/ \E side \in Sides : MoveShift(side)
  \/ PressPage \/ KeyboardIrq \/ TimerIrq \/ keyboard_getchar \/ GetcharLoad
  \/ \E m \in Modes : SetMode(m)
  \/ ReplayBegin \/ ReplayEnd

KeySpec == KeyInit /\ [][KeyNext]_keyVars

\* Interrupts are taken, replays end (Replay says when), and the shell, which
\* every task yields to, goes on reading.
KeyFairSpec ==
  /\ KeySpec
  /\ WF_keyVars(KeyboardIrq) /\ WF_keyVars(TimerIrq)
  /\ WF_keyVars(keyboard_getchar \/ GetcharLoad) /\ WF_keyVars(ReplayEnd)

-----------------------------------------------------------------------------

Chars == [n : 0 .. MaxKeys, shifted : BOOLEAN]

KeyTypeOK ==
  /\ held \subseteq Sides /\ shift \subseteq Sides
  /\ port \in Seq([key : Sides \cup {"char", "prefix", "page"}, up : BOOLEAN, n : 0 .. MaxKeys])
  /\ irq \in BOOLEAN /\ extended \in BOOLEAN /\ replay \in BOOLEAN
  /\ mode \in Modes
  /\ queue \in Seq(Chars) /\ Len(queue) <= QCap
  /\ ticks \in 0 .. Interval["saver"]
  /\ buf \in [ring : [0 .. RingSize - 1 -> Chars], head : 0 .. Wrap - 1, overrun : BOOLEAN]
  /\ tail \in 0 .. Wrap - 1 /\ taking \in BOOLEAN
  /\ read \in Seq(Chars)

\* The characters in the ring, oldest first, with the one the shell is about
\* to load.
InRing == [i \in 1 .. Unread(buf) |-> buf.ring[(Oldest + i - 1) % RingSize]]

\* The characters that came out of the decoder, as the shell gets them.
Past == read \o InRing \o queue

\* Where the controller still holds a character.
InPort == {i \in DOMAIN port : port[i].key = "char"}

\* Only a ring that overran gives a character twice or skips one for ever:
\* overtaking changes the order, and every character still comes up once.
KeysOnce ==
  ~buf.overrun => \A i, j \in DOMAIN Past : Past[i].n = Past[j].n => i = j

\* Where each character pressed is: read, in the ring, in the queue or in the
\* controller, in the order of the key presses and each exactly once, with the
\* shift state of the moment its key was pressed, across wrapped counters,
\* prefix bytes and flushes.  It takes a full ring, or a character that passes
\* a queue which is full or was filled in another mode, to break the order;
\* the latter alone makes no character come up twice (KeysOnce).
KeysExact ==
  /\ KeyTypeOK /\ KeysOnce
  /\ Len(Past) <= Len(pressed) /\ {port[i].n : i \in InPort} = Len(Past) + 1 .. Len(pressed)
  /\ \A i, j \in InPort : i < j => port[i].n < port[j].n
  /\ ~buf.overrun /\ ~overtaken => Past = SubSeq(pressed, 1, Len(Past))

\* Unless something is replayed, once the user stops typing every character
\* has been read, however the power mode changed while it waited; a ring that
\* overran gives newer characters in place of the ones it lost.
KeysDelivered == <>[](Len(read) = Len(pressed) \/ replays > 0)
=============================================================================

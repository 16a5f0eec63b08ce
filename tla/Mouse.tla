------------------------------- MODULE Mouse --------------------------------
(***************************************************************************)
(* kernel/mouse.c: the start-up exchange with the PS/2 controller, which   *)
(* mouse_init does by polling before interrupts are on, and the assembly   *)
(* of packets, a byte per interrupt.                                       *)
(*                                                                         *)
(* Port 0x60 serves the keyboard, the mouse and the controller's answers   *)
(* alike: it is one queue, in the order the bytes appeared.  A byte is     *)
(* [data, aux], aux if the mouse sent it, which decides its interrupt.     *)
(***************************************************************************)
EXTENDS Integers, Sequences

CONSTANTS Config,      \* the controller's configuration byte before mouse_init
          KeyCode,     \* a byte the keyboard sends
          Moves,       \* movements the mouse reports: <<buttons, dx, dy>>
          MaxPackets,  \* bound: packets sent
          MaxBootKeys, \* bound: keys pressed during mouse_init
          MaxLost      \* bound: bytes the controller loses

ASSUME MouseAssumption ==
  /\ {Config, KeyCode} \subseteq 0..255
  /\ Moves \subseteq (0..7) \X (-256 .. 255) \X (-256 .. 255)
  /\ {MaxPackets, MaxBootKeys, MaxLost} \subseteq Nat

VARIABLES
  boot,     \* where mouse_init stands, "up" once interrupts are on
  port,     \* bytes waiting at port 0x60
  config,   \* the controller's configuration byte
  keys,     \* keys pressed during mouse_init
  mouse,    \* [present, x, y, buttons, packets]
  packet,   \* the bytes of packet[] before packet_index
  sent,     \* history: movements sent
  wire,     \* bytes of the last one on their way
  lost      \* history: bytes lost

mouseVars == <<boot, port, config, keys, mouse, packet, sent, wire, lost>>
running == <<packet, sent, wire, lost>>

Ack == 250
Width == 80
Height == 25

Bit(byte, mask) == (byte \div mask) % 2 = 1
s8(byte) == IF byte >= 128 THEN byte - 256 ELSE byte

MouseInit ==
  /\ boot = "query"
  /\ port = <<>> /\ config = Config /\ keys = 0
  /\ mouse = [present |-> FALSE, x |-> 40, y |-> 12, buttons |-> 0, packets |-> 0]
  /\ packet = <<>> /\ sent = <<>> /\ wire = <<>> /\ lost = 0

\* Second port on, first port's clock on.
Enabled(byte) == byte + (IF Bit(byte, 2) THEN 0 ELSE 2) - (IF Bit(byte, 32) THEN 32 ELSE 0)

-----------------------------------------------------------------------------
\* A key is pressed while mouse_init is polling.
BootKey ==
  /\ boot # "up" /\ keys < MaxBootKeys
  /\ port' = Append(port, [data |-> KeyCode, aux |-> FALSE])
  /\ keys' = keys + 1
  /\ UNCHANGED <<boot, config, mouse, running>>

\* Command 0x20: the controller answers with its configuration byte.
Query ==
  /\ boot = "query"
  /\ port' = Append(port, [data |-> config, aux |-> FALSE])
  /\ boot' = "status"
  /\ UNCHANGED <<config, keys, mouse, running>>

\* The device answers a command, or is not there and does not.
Answer(bytes, reply) == port' = IF reply THEN Append(bytes, [data |-> Ack, aux |-> TRUE]) ELSE bytes

\* Whatever byte is at the port is taken for the configuration, adjusted and
\* written back; then the mouse is sent "set defaults".
Configure(reply) ==
  /\ boot = "status" /\ port # <<>>
  /\ config' = Enabled(Head(port).data)
  /\ Answer(Tail(port), reply)
  /\ boot' = "defaults"
  /\ UNCHANGED <<keys, mouse, running>>

\* Mutant: any byte will do for an acknowledgement.
Acked_any == TRUE

Acked == Head(port).data = Ack

\* The answer to "set defaults"; then the mouse is sent "enable reporting".
Defaults(reply) ==
  /\ boot = "defaults" /\ port # <<>>
  /\ IF Acked THEN boot' = "enable" /\ Answer(Tail(port), reply)
     ELSE boot' = "up" /\ port' = Tail(port)
  /\ UNCHANGED <<config, keys, mouse, running>>

Enable ==
  /\ boot = "enable" /\ port # <<>>
  /\ boot' = "up"
  /\ port' = Tail(port)
  /\ mouse' = [mouse EXCEPT !.present = Acked]
  /\ UNCHANGED <<config, keys, running>>

\* wait_read or wait_write gives up.
GiveUp ==
  /\ boot # "up"
  /\ boot' = "up"
  /\ UNCHANGED <<port, config, keys, mouse, running>>

BootStep ==
  BootKey \/ Query \/ (\E reply \in BOOLEAN : Configure(reply) \/ Defaults(reply))
  \/ Enable \/ GiveUp

-----------------------------------------------------------------------------
\* The three bytes of a movement: a 9-bit number is sent without its sign,
\* which is in the first byte.
Bytes(m) == <<8 + m[1] + (IF m[2] < 0 THEN 16 ELSE 0) + (IF m[3] < 0 THEN 32 ELSE 0),
              m[2] % 256, m[3] % 256>>

Move(m) ==
  /\ boot = "up" /\ mouse.present /\ wire = <<>> /\ Len(sent) < MaxPackets
  /\ sent' = Append(sent, m)
  /\ wire' = Bytes(m)
  /\ UNCHANGED <<boot, port, config, keys, mouse, packet, lost>>

\* The controller drops a byte.
Lose ==
  /\ wire # <<>> /\ lost < MaxLost
  /\ wire' = Tail(wire)
  /\ lost' = lost + 1
  /\ UNCHANGED <<boot, port, config, keys, mouse, packet, sent>>

Clamp(v, limit) == IF v < 0 THEN 0 ELSE IF v >= limit THEN limit - 1 ELSE v

\* Mutant: the deltas are taken for unsigned bytes.
Moved_unsigned(m, p) ==
  [m EXCEPT !.buttons = p[1] % 8, !.packets = @ + 1,
            !.x = Clamp(@ + p[2], Width), !.y = Clamp(@ - p[3], Height)]

\* A whole packet p.
Moved(m, p) ==
  [m EXCEPT !.buttons = p[1] % 8, !.packets = @ + 1,
            !.x = Clamp(@ + s8(p[2]), Width), !.y = Clamp(@ - s8(p[3]), Height)]

Synced(p) == Bit(p[1], 8)

mouse_handle_data(data) ==
  LET p == Append(packet, data)
  IN IF ~mouse.present THEN UNCHANGED <<mouse, packet>>
     ELSE IF Len(p) < 3 THEN packet' = p /\ UNCHANGED mouse
     ELSE /\ packet' = <<>>
          /\ mouse' = IF Synced(p) THEN Moved(mouse, p) ELSE mouse

\* Vector 44, a byte of a movement.
MouseByte ==
  /\ port = <<>> /\ wire # <<>>
  /\ mouse_handle_data(Head(wire))
  /\ wire' = Tail(wire)
  /\ UNCHANGED <<boot, port, config, keys, sent, lost>>

\* Vector 44 for a byte that mouse_init left at the port, before any other.
StrayByte ==
  /\ port # <<>> /\ Head(port).aux
  /\ mouse_handle_data(Head(port).data)
  /\ port' = Tail(port)
  /\ UNCHANGED <<boot, config, keys, sent, wire, lost>>

\* Vector 33 for one: keyboard_handle_scancode reads it.
StrayKey ==
  /\ port # <<>> /\ ~Head(port).aux
  /\ port' = Tail(port)
  /\ UNCHANGED <<boot, config, keys, mouse, running>>

-----------------------------------------------------------------------------
\* Types; the pointer is on the screen.
MouseTypeOK ==
  /\ config \in 0..255
  /\ mouse.x \in 0 .. Width - 1 /\ mouse.y \in 0 .. Height - 1
  /\ mouse.buttons \in 0..7
  /\ Len(packet) < 3

\* A mouse that is reported present has answered both commands, and the
\* controller is configured as it was but for the two bits mouse_init
\* changes; a key pressed meanwhile can only make the mouse absent.
PresentMeansConfigured == mouse.present => config = Enabled(Config)

Narrow(m) == m[2] \in -128 .. 127 /\ m[3] \in -128 .. 127

\* Where movement m takes a pointer, and where the movements ms have taken it.
Step(at, m) == [x |-> Clamp(at.x + m[2], Width), y |-> Clamp(at.y - m[3], Height)]
Pointer(ms) ==
  LET at[i \in 0 .. Len(ms)] == IF i = 0 THEN [x |-> 40, y |-> 12] ELSE Step(at[i - 1], ms[i])
  IN at[Len(ms)]

\* The pointer stays on the screen whatever bytes come, and while no byte is
\* lost and every movement fits a signed byte, the pointer
\* is where all the movements since boot have taken it, one clamped at a
\* time, with the buttons of the last.
MouseTracks ==
  /\ MouseTypeOK
  /\ lost = 0 /\ wire = <<>> /\ sent # <<>> /\ (\A i \in DOMAIN sent : Narrow(sent[i])) =>
       /\ [x |-> mouse.x, y |-> mouse.y] = Pointer(sent)
       /\ mouse.buttons = sent[Len(sent)][1] /\ mouse.packets = Len(sent)
=============================================================================

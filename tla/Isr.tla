-------------------------------- MODULE Isr ---------------------------------
(***************************************************************************)
(* isr_dispatch of kernel/interrupts.c over the recorder and the mouse:    *)
(* each interrupt is recorded before it is handled, wherever the running   *)
(* task's own trace_record stands.  Interrupts come once kernel_main has   *)
(* enabled them, after mouse_init.  Replays, during which isr_dispatch     *)
(* only acknowledges, are in Replay and Keyboard.                          *)
(***************************************************************************)
EXTENDS Recorder, Mouse

CONSTANTS MouseCalls, MouseStarts,  \* MaxCalls and MaxStarts where there is a mouse
          Flushes      \* the events netfs_power_tick may record in a timer interrupt

ASSUME IsrAssumption ==
  {MouseCalls, MouseStarts} \subseteq Nat /\ Flushes \subseteq Seq({"net", "power"})

vars == <<recorderVars, mouseVars>>

Init == RecorderInit /\ MouseInit

MayCall == hist.calls < IF mouse.present THEN MouseCalls ELSE MaxCalls
MayStart == hist.starts < IF mouse.present THEN MouseStarts ELSE MaxStarts

\* Vector 32, which in some ticks flushes the transmit queue, and the vectors
\* that are only counted.
TimerIrq ==
  /\ MayCall
  /\ \E flush \in Flushes : Interrupt(<<"irq">> \o flush)
  /\ UNCHANGED mouseVars

\* Vector 33, for a key with a character: keyboard_trace_char.  A byte that
\* mouse_init left behind comes before any that is typed later.
KeyIrq ==
  /\ Interrupt(<<"irq", "key">>)
  /\ StrayKey \/ (MayCall /\ port = <<>> /\ UNCHANGED mouseVars)

\* Vector 44.
MouseIrq == Interrupt(<<"irq">>) /\ (MouseByte \/ StrayByte)

Next ==
  \/ BootStep /\ UNCHANGED recorderVars
  \/ boot = "up" /\ (TimerIrq \/ KeyIrq \/ MouseIrq)
  \/ /\ boot = "up"
     /\ TaskStep \/ (MayCall /\ Call) \/ (MayStart /\ \E p \in BOOLEAN : Start(p))
     /\ UNCHANGED mouseVars
  \/ ((\E m \in Moves : Move(m)) \/ Lose) /\ UNCHANGED recorderVars

Spec == Init /\ [][Next]_vars
=============================================================================

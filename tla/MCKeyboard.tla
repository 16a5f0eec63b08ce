----------------------------- MODULE MCKeyboard -----------------------------
(* Values of the constants of Keyboard for TLC. *)
EXTENDS Keyboard

MCInterval == [m \in Modes |-> IF m = "performance" THEN 1 ELSE IF m = "balanced" THEN 2 ELSE 3]
=============================================================================

------------------------------ MODULE MCReplay ------------------------------
(* Values of the constants of Replay for TLC. *)
EXTENDS Replay

MCRounds == [e \in Entries |-> IF e = "attack" THEN 2 ELSE 1]
=============================================================================

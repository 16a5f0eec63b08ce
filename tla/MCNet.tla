------------------------------- MODULE MCNet -------------------------------
(* Small instances of Net for TLC.                                          *)
EXTENDS Net

\* The order of the code's values (1, 4, 16 packets and 1, 3, 12 ticks).
MCLimit == [m \in Modes |-> CASE m = "performance" -> 1 [] m = "balanced" -> 2 [] OTHER -> 3]
MCInterval == [m \in Modes |-> CASE m = "performance" -> 1 [] m = "balanced" -> 2 [] OTHER -> 3]
=============================================================================

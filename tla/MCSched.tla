------------------------------ MODULE MCSched ------------------------------
(* Small instances of Sched for TLC.                                        *)
EXTENDS Sched

\* Few yields per entry function, with programs that return at once.
MCYieldsOf ==
  [e \in Entries |-> IF e \in {"ps", "netstat"} THEN 0
                     ELSE IF e \in {"lifecycle", "shell"} THEN 2 ELSE 1]
=============================================================================

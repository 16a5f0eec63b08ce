----------------------------- MODULE MCConsole -----------------------------
(* Small instances of Console for TLC.                                      *)
EXTENDS Console
=============================================================================

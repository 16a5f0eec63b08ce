-------------------------------- MODULE MCFs --------------------------------
(* Small instances of Fs for TLC.                                           *)
EXTENDS Fs
=============================================================================

---------------------------- MODULE MCThreadSort ----------------------------
(* The threaded sort, for TLC. *)
EXTENDS ThreadSort

SomeValues == -1 .. 1
=============================================================================

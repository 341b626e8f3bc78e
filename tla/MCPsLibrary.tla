---------------------------- MODULE MCPsLibrary ----------------------------
(* Model checking of PsLibrary: for all burst lengths 1..MaxIndex of both   *)
(* processes, as the six nested loops of runall.c call the functions.       *)
EXTENDS PsLibrary
=============================================================================

---------------------------- MODULE MCMakeThread ----------------------------
(* Model checking of MakeThread: three files, everything that may fail.     *)
EXTENDS MakeThread

AllFaults == {"create", "malloc", "fork", "exec", "source"}
=============================================================================

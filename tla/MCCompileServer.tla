-------------------------- MODULE MCCompileServer --------------------------
(* The compile server with any clients, for TLC. *)
EXTENDS CompileServer

AllFaults == {"fork", "malloc", "exec", "source"}
=============================================================================

-------------------------- MODULE MCNetworkCompile --------------------------
(* networkcompile and the compile server, for TLC. *)
EXTENDS NetworkCompile

AllFaults == {"fork", "malloc", "exec", "source"}
AllClientFaults == {"create", "connect", "reset", "fork"}
=============================================================================

-------------------------- MODULE MCTl13Compiler --------------------------
(***************************************************************************)
(* The whole compiler on small programs.                                   *)
(***************************************************************************)
EXTENDS Tl13Compiler, MCTl13Programs
=============================================================================

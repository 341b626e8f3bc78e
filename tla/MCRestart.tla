----------------------------- MODULE MCRestart -----------------------------
(***************************************************************************)
(* Lines and blocks that fit, that do not and that the end cuts off.       *)
(***************************************************************************)
EXTENDS Restart

MCStreams == {<<>>, <<Newline, "a", "a", Newline>>, <<"a", "a", "a", Newline, "a">>}

MCSeconds == {[whole |-> 0, frac |-> 1], [whole |-> 0, frac |-> 3], [whole |-> 1, frac |-> 2]}
=============================================================================

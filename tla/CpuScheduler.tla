---------------------------- MODULE CpuScheduler ----------------------------
(***************************************************************************)
(* What every scheduling function of CacheQueue/pslibrary.c promises,      *)
(* whatever its policy: two processes, each with a CPU burst, an I/O burst *)
(* and a second CPU burst, share ONE processor.  In a unit of time at most *)
(* one of them computes, the processor is never left idle while one of     *)
(* them could use it, and I/O proceeds in parallel with everything else.   *)
(* Which of two runnable processes gets the processor is left open: that   *)
(* is what fcfs, sjf, psjf and rr decide.                                  *)
(***************************************************************************)
EXTENDS Integers

CONSTANT Bursts        \* the lengths a burst may have

VARIABLES
    first,             \* first[p]: what is left of p's first CPU burst
    io,                \* io[p]: what is left of its I/O burst
    last               \* last[p]: what is left of its second CPU burst

vars == <<first, io, last>>

Process == {1, 2}

Runnable == {p \in Process : first[p] > 0 \/ (io[p] = 0 /\ last[p] > 0)}

InIO == {p \in Process : first[p] = 0 /\ io[p] > 0}

Init ==
    /\ first \in [Process -> Bursts]
    /\ io \in [Process -> Bursts]
    /\ last \in [Process -> Bursts]

(* The processes of `chosen' compute for one unit of time (there is at     *)
(* most one, and one unless none is runnable); all I/O advances.           *)
Tick(chosen) ==
    /\ Runnable \cup InIO # {}
    /\ chosen \subseteq Runnable
    /\ \A p, q \in chosen : p = q
    /\ chosen = {} => Runnable = {}
    /\ first' = [p \in Process |->
                   IF p \in chosen /\ first[p] > 0 THEN first[p] - 1 ELSE first[p]]
    /\ last' = [p \in Process |->
                   IF p \in chosen /\ first[p] = 0 THEN last[p] - 1 ELSE last[p]]
    /\ io' = [p \in Process |-> IF p \in InIO THEN io[p] - 1 ELSE io[p]]

Next == \E chosen \in SUBSET Process : Tick(chosen)

Spec == Init /\ [][Next]_vars /\ WF_vars(Next)
=============================================================================

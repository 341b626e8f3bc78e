--------------------------- MODULE CompileService ---------------------------
(***************************************************************************)
(* What the compile server of CPUSchedulingProject/assign5 promises to     *)
(* each connection: at most one verdict, never taken back, and a verdict   *)
(* "0" only when gcc has made the object file, "1" only when it has not    *)
(* and never will.                                                         *)
(***************************************************************************)
CONSTANT Conn

VARIABLES
    compiled,          \* the connections whose file gcc has compiled
    answer             \* the verdict each connection has been given

Init ==
    /\ compiled = {}
    /\ answer = [c \in Conn |-> "none"]

Compile(c) ==
    /\ answer[c] = "none"
    /\ c \notin compiled
    /\ compiled' = compiled \cup {c}
    /\ UNCHANGED answer

Answer(c) ==
    /\ answer[c] = "none"
    /\ answer' = [answer EXCEPT ![c] = IF c \in compiled THEN "0" ELSE "1"]
    /\ UNCHANGED compiled

Next == \E c \in Conn : Compile(c) \/ Answer(c)

Spec == Init /\ [][Next]_<<compiled, answer>>
=============================================================================

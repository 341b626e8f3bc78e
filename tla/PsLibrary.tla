----------------------------- MODULE PsLibrary -----------------------------
(***************************************************************************)
(* The scheduling functions of CacheQueue/pslibrary.c: fcfs, sjf, psjf and *)
(* rr.  Each simulates two processes on one processor and records, in the  *)
(* caller's buffers s1 and s2, one character per process and time unit.    *)
(*                                                                         *)
(* The four functions share the shape of their loop body, whose phases are *)
(* named by the comment at pslibrary.c:13-22; `pc' walks through them and  *)
(* `alg' says which function is running.                                   *)
(*    burst      loop test; the running process completes its CPU burst    *)
(*    quantum1/2 (rr only) the running process has its quantum expire      *)
(*    io1/2      P1's, then P2's I/O completes                             *)
(*    dispatch   both ready, or one ready and the processor free           *)
(*    append     one character per process, decrement the counts, i++      *)
(***************************************************************************)
EXTENDS Integers, FiniteSets

CONSTANTS
    Algorithms,        \* the scheduling functions that may be called
    MaxIndex,          \* MAX_INDEX of runall.c: the longest burst
    Quanta             \* the time quanta rr may be called with

ASSUME AlgorithmsAssumption == Algorithms \subseteq {"fcfs", "sjf", "psjf", "rr"}
ASSUME MaxIndexAssumption == MaxIndex \in Nat \ {0}
ASSUME QuantaAssumption == Quanta \subseteq Nat \ {0}

VARIABLES
    alg,               \* the function called
    quantum,           \* rr's parameter
    x, y, z,           \* the parameters x1, x2; y1, y2; z1, z2
    pc,                \* the phase of the loop body
    i,                 \* next string position (time)
    state,             \* state1, state2
    cpuLeft,           \* cpuLeft1, cpuLeft2
    ioLeft,            \* ioLeft1, ioLeft2
    qleft,             \* rr's quantum remaining
    s                  \* the buffers s1, s2: written cell -> character

params == <<alg, quantum, x, y, z>>
vars == <<alg, quantum, x, y, z, pc, i, state, cpuLeft, ioLeft, qleft, s>>

Process == {1, 2}

Other(p) == 3 - p

READY   == "ready"
RUNNING == "running"
WAITING == "waiting"
DONE    == "done"

NUL == "nul"           \* the string terminator

stateChars == [st \in {READY, RUNNING, WAITING, DONE} |->
                 CASE st = READY -> "r" [] st = RUNNING -> "R"
                   [] st = WAITING -> "w" [] st = DONE -> NUL]

Bursts == 1 .. MaxIndex

(* Mutant: room for the CPU bursts only. *)
MAX_SIZE_CpuOnly == 4 * MaxIndex

MAX_SIZE == 6 * MaxIndex

(* buf[k] = c, as C does it: a cell past the end is written all the same. *)
Store(buf, k, c) ==
    [j \in (DOMAIN buf) \cup {k} |-> IF j = k THEN c ELSE buf[j]]

-----------------------------------------------------------------------------
(* runall.c fills the buffers before each call and calls the functions for  *)
(* all burst lengths up to MAX_INDEX.  qleft is not initialised (line 249). *)
Init ==
    /\ alg \in Algorithms
    /\ quantum \in (IF alg = "rr" THEN Quanta ELSE {0})
    /\ x \in [Process -> Bursts]
    /\ y \in [Process -> Bursts]
    /\ z \in [Process -> Bursts]
    /\ pc = "burst"
    /\ i = 0
    /\ state = [p \in Process |-> READY]
    /\ cpuLeft = x
    /\ ioLeft = y
    /\ qleft \in (IF alg = "rr" THEN {0, 1} ELSE {0})
    /\ s = [p \in Process |->
              [k \in 0 .. MAX_SIZE - 1 |-> IF p = 1 THEN "a" ELSE "b"]]

Finished == \A p \in Process : state[p] = DONE

(* Mutant: a burst ends one unit early. *)
BurstOver_Early(p) == state[p] = RUNNING /\ cpuLeft[p] <= 1

(* P2's completion is looked at only when P1 has not just completed. *)
BurstOver(p) ==
    /\ state[p] = RUNNING
    /\ cpuLeft[p] = 0
    /\ p = 2 => ~ (state[1] = RUNNING /\ cpuLeft[1] = 0)

AfterBurst == IF alg = "rr" THEN "quantum1" ELSE "io1"

(* Mutant: the slip of fcfs copied into the other functions. *)
TerminatorOf_First(p) == 1

(* The buffer that the terminator of p is stored in: fcfs stores that of P2 *)
(* into s1 (line 48).                                                       *)
TerminatorOf(p) == IF alg = "fcfs" THEN 1 ELSE p

StartIO(p) ==
    /\ pc = "burst"
    /\ ~ Finished
    /\ BurstOver(p)
    /\ ioLeft[p] # 0
    /\ state' = [state EXCEPT ![p] = WAITING]
    /\ pc' = AfterBurst
    /\ UNCHANGED <<params, i, cpuLeft, ioLeft, qleft, s>>

Exit(p) ==
    /\ pc = "burst"
    /\ ~ Finished
    /\ BurstOver(p)
    /\ ioLeft[p] = 0
    /\ state' = [state EXCEPT ![p] = DONE]
    /\ s' = [s EXCEPT ![TerminatorOf(p)] = Store(@, i, stateChars[DONE])]
    /\ pc' = AfterBurst
    /\ UNCHANGED <<params, i, cpuLeft, ioLeft, qleft>>

BurstGoesOn ==
    /\ pc = "burst"
    /\ ~ Finished
    /\ \A p \in Process : ~ BurstOver(p)
    /\ pc' = AfterBurst
    /\ UNCHANGED <<params, i, state, cpuLeft, ioLeft, qleft, s>>

Return ==
    /\ pc = "burst"
    /\ Finished
    /\ pc' = "returned"
    /\ UNCHANGED <<params, i, state, cpuLeft, ioLeft, qleft, s>>

(* rr: the running process has its quantum expire; P1 is looked at first. *)
QuantumExpires(p) ==
    LET q == Other(p)
        handOver == state[q] = READY IN
    /\ pc = (IF p = 1 THEN "quantum1" ELSE "quantum2")
    /\ pc' = (IF p = 1 THEN "quantum2" ELSE "io1")
    /\ IF state[p] = RUNNING /\ qleft = 0
         THEN /\ state' = [state EXCEPT ![p] = READY,
                                        ![q] = IF handOver THEN RUNNING ELSE @]
              /\ qleft' = IF handOver THEN quantum ELSE qleft
         ELSE UNCHANGED <<state, qleft>>
    /\ UNCHANGED <<params, i, cpuLeft, ioLeft, s>>

(* Mutant: psjf preempts without comparing. *)
Preempts_Blindly(p) == alg = "psjf"

(* psjf: a process back from I/O takes the processor from one that has more *)
(* left to do (lines 191-193 and 200-202).                                  *)
Preempts(p) == alg = "psjf" /\ z[p] < cpuLeft[Other(p)]

IOComplete(p) ==
    /\ pc = (IF p = 1 THEN "io1" ELSE "io2")
    /\ pc' = (IF p = 1 THEN "io2" ELSE "dispatch")
    /\ IF state[p] = WAITING /\ ioLeft[p] = 0
         THEN /\ cpuLeft' = [cpuLeft EXCEPT ![p] = z[p]]
              /\ state' = IF Preempts(p)
                            THEN [state EXCEPT ![p] = RUNNING, ![Other(p)] = READY]
                            ELSE [state EXCEPT ![p] = READY]
         ELSE UNCHANGED <<cpuLeft, state>>
    /\ UNCHANGED <<params, i, ioLeft, qleft, s>>

(* Mutant: sjf, copied from fcfs, prefers P1. *)
Preferred_PsjfOnly ==
    IF alg = "psjf" /\ cpuLeft[1] > cpuLeft[2] THEN 2 ELSE 1

(* The choice between two ready processes: P1, except that the shortest-job *)
(* functions prefer a strictly shorter P2.                                  *)
Preferred ==
    IF alg \in {"sjf", "psjf"} /\ cpuLeft[1] > cpuLeft[2] THEN 2 ELSE 1

(* Mutants: the processor is not seen to be busy; it is not seen to be free *)
(* while the other process waits for I/O.                                   *)
Dispatchable_Busy(p) ==
    /\ state[p] = READY
    /\ state[Other(p)] = READY => p = Preferred

Dispatchable_NotDuringIO(p) ==
    /\ state[p] = READY
    /\ state[Other(p)] \in {READY, DONE}
    /\ state[Other(p)] = READY => p = Preferred

Dispatchable(p) ==
    /\ state[p] = READY
    /\ state[Other(p)] # RUNNING
    /\ state[Other(p)] = READY => p = Preferred

Dispatch(p) ==
    /\ pc = "dispatch"
    /\ Dispatchable(p)
    /\ state' = [state EXCEPT ![p] = RUNNING]
    /\ qleft' = IF alg = "rr" THEN quantum ELSE qleft
    /\ pc' = "append"
    /\ UNCHANGED <<params, i, cpuLeft, ioLeft, s>>

NoDispatch ==
    /\ pc = "dispatch"
    /\ \A p \in Process : ~ Dispatchable(p)
    /\ pc' = "append"
    /\ UNCHANGED <<params, i, state, cpuLeft, ioLeft, qleft, s>>

AppendChars ==
    /\ pc = "append"
    /\ s' = [p \in Process |-> IF state[p] = DONE THEN s[p]
                               ELSE Store(s[p], i, stateChars[state[p]])]
    /\ qleft' = IF alg = "rr" THEN qleft - 1 ELSE qleft
    /\ cpuLeft' = [p \in Process |->
                     IF state[p] = RUNNING THEN cpuLeft[p] - 1 ELSE cpuLeft[p]]
    /\ ioLeft' = [p \in Process |->
                     IF state[p] = WAITING THEN ioLeft[p] - 1 ELSE ioLeft[p]]
    /\ i' = i + 1
    /\ pc' = "burst"
    /\ UNCHANGED <<params, state>>

Next ==
    \/ \E p \in Process :
         StartIO(p) \/ Exit(p) \/ QuantumExpires(p) \/ IOComplete(p) \/ Dispatch(p)
    \/ BurstGoesOn \/ NoDispatch \/ AppendChars \/ Return

(* One thread runs the loop to its end. *)
Spec == Init /\ [][Next]_vars /\ WF_vars(Next)

-----------------------------------------------------------------------------
(* display() and fprintf("%s") read a buffer as a C string.               *)

Terminated(buf) == \E k \in DOMAIN buf : buf[k] = NUL

(* strlen *)
StrLen(buf) ==
    CHOOSE n \in DOMAIN buf : buf[n] = NUL /\ \A k \in 0 .. n - 1 : buf[k] # NUL

Occurrences(buf, n, c) == {k \in 0 .. n - 1 : buf[k] = c}

(* What display prints: nr1 and nr2, and the two operands of the processor  *)
(* utilisation (nR1+nR2)/sl.                                                *)
Display(s1, s2) ==
    LET count(buf, c) == Cardinality(Occurrences(buf, StrLen(buf), c)) IN
    [nr |-> <<count(s1, "r"), count(s2, "r")>>, nR |-> count(s1, "R") + count(s2, "R"),
     sl |-> IF StrLen(s1) > StrLen(s2) THEN StrLen(s1) ELSE StrLen(s2)]

-----------------------------------------------------------------------------
(* Invariants *)

TypeOK ==
    /\ alg \in Algorithms
    /\ quantum \in Quanta \cup {0}
    /\ x \in [Process -> Bursts]
    /\ y \in [Process -> Bursts]
    /\ z \in [Process -> Bursts]
    /\ pc \in {"burst", "quantum1", "quantum2", "io1", "io2", "dispatch",
               "append", "returned"}
    /\ i \in Nat
    /\ state \in [Process -> {READY, RUNNING, WAITING, DONE}]
    /\ cpuLeft \in [Process -> 0 .. MaxIndex]
    /\ ioLeft \in [Process -> 0 .. MaxIndex]
    /\ qleft \in Int
    /\ DOMAIN s = Process

(* Never, not even between two phases of the loop body, are both processes  *)
(* in state RUNNING.  In psjf it rests on a process that is WAITING or DONE *)
(* having no CPU time left when the other one's I/O completes.              *)
MutualExclusion == ~ (state[1] = RUNNING /\ state[2] = RUNNING)

(* No store goes past the MAX_SIZE bytes runall.c provides ("assume s1 and  *)
(* s2 point to buffers with enough space"), and the loop ends within that   *)
(* many iterations.  It is not the sum of the bursts alone that fits: the   *)
(* last terminator needs a cell too, and has one because the two processes' *)
(* bursts cannot all be run one after the other.                            *)
EnoughSpace ==
    /\ \A p \in Process : DOMAIN s[p] = 0 .. MAX_SIZE - 1
    /\ i <= MAX_SIZE

(* A process is recorded as ready only while the other one has the          *)
(* processor: no unit of time is lost to a late dispatch.                   *)
WaitsOnlyForCpu ==
    \A p \in Process : \A k \in 0 .. i - 1 : s[p][k] = "r" => s[Other(p)][k] = "R"

(* The processor is given to one process at a time, and to one whenever a   *)
(* process waits for it.                                                    *)
SharesProcessor == MutualExclusion /\ WaitsOnlyForCpu

(* What has been recorded and what is still to do make up the bursts the    *)
(* caller asked for: no unit of CPU or I/O time is lost or counted twice    *)
(* when a burst ends, is preempted, or restarts with the next one.          *)
CpuToCome(p) ==
    cpuLeft[p] + (IF ioLeft[p] > 0 \/ state[p] = WAITING THEN z[p] ELSE 0)

BurstsAccounted ==
    \A p \in Process :
      /\ Cardinality(Occurrences(s[p], i, "R")) + CpuToCome(p) = x[p] + z[p]
      /\ Cardinality(Occurrences(s[p], i, "w")) + ioLeft[p] = y[p]

(* psjf: a process runs beside a ready one only if it has no more left of   *)
(* its burst than the ready one, at every phase of the loop body.           *)
ShortestRemainingRuns ==
    alg = "psjf" =>
      \A p \in Process : state[p] = RUNNING /\ state[Other(p)] = READY
                         => cpuLeft[p] <= cpuLeft[Other(p)]

(* fcfs and sjf let a running process keep the processor to the end of its  *)
(* burst: "ready" never directly follows "running" in a string.             *)
NonPreemptive ==
    alg \in {"fcfs", "sjf"} =>
      \A p \in Process : \A k \in 1 .. i - 1 : ~ (s[p][k - 1] = "R" /\ s[p][k] = "r")

(* rr: nobody is kept ready for more than one quantum.                      *)
WaitsAtMostQuantum ==
    alg = "rr" =>
      \A p \in Process : \A k \in 0 .. i - 1 - quantum :
        \E j \in k .. k + quantum : s[p][j] # "r"

(* rr: who loses the processor before its burst is over has computed for a  *)
(* whole quantum, whatever the quantum left was set to before (line 249).   *)
QuantumIsWhole ==
    alg = "rr" =>
      \A p \in Process : \A k \in 1 .. i - 1 :
        s[p][k - 1] = "R" /\ s[p][k] = "r" =>
          quantum <= k /\ \A j \in k - quantum .. k - 1 : s[p][j] = "R"

(* p begins a burst at time k although the other process is ready too. *)
ChosenAt(p, k) ==
    s[p][k] = "R" /\ s[Other(p)][k] = "r" /\ (k > 0 => s[p][k - 1] # "R")

(* The burst that p has to do at time k: the second one after its I/O. *)
BurstAt(p, k) == IF \E j \in 0 .. k - 1 : s[p][j] = "w" THEN z[p] ELSE x[p]

(* fcfs: of two ready processes the one that was ready first is chosen, and *)
(* P1 of two that became ready together.                                    *)
FirstReadyChosen ==
    alg = "fcfs" =>
      \A p \in Process : \A k \in 0 .. i - 1 :
        ChosenAt(p, k) => p = 1 /\ (k > 0 => s[Other(p)][k - 1] # "r")

(* sjf: of two ready processes the one with the shorter burst is chosen. *)
ShorterJobChosen ==
    alg = "sjf" =>
      \A p \in Process : \A k \in 0 .. i - 1 :
        ChosenAt(p, k) => BurstAt(p, k) <= BurstAt(Other(p), k)

(* Each function keeps to the policy it is named for, in what it records:   *)
(* fcfs and sjf choose between ready processes by their arrival and by the  *)
(* length of their bursts and let a burst end, psjf always runs the one     *)
(* with less left, and rr takes the processor away after a quantum, not     *)
(* before and not later.  The four are hand-edited copies of one loop.      *)
FollowsPolicy ==
    /\ FirstReadyChosen
    /\ ShorterJobChosen
    /\ NonPreemptive
    /\ ShortestRemainingRuns
    /\ QuantumIsWhole
    /\ WaitsAtMostQuantum

(* Each buffer holds a C string when the function returns: the comment at   *)
(* lines 40, 48, 104, ... ("terminate the string").                         *)
StringsTerminated == pc = "returned" => \A p \in Process : Terminated(s[p])

(* The string ends where the process does: its length is the process's own  *)
(* time plus the time it spent ready, nothing but its three characters is   *)
(* in it, and its I/O is one uninterrupted block.                           *)
WellFormed(p) ==
    LET n == StrLen(s[p]) IN
    /\ Terminated(s[p])
    /\ \A k \in 0 .. n - 1 : s[p][k] \in {"r", "R", "w"}
    /\ n = x[p] + y[p] + z[p] + Cardinality(Occurrences(s[p], n, "r"))
    /\ \E k \in 0 .. n - 1 : Occurrences(s[p], n, "w") = k .. k + y[p] - 1
    /\ n > 0 /\ s[p][n - 1] = "R"

StringsWellFormed ==
    pc = "returned" => \A p \in Process : (alg = "fcfs" => p = 1) => WellFormed(p)

(* What display prints is consistent: the running characters are the CPU    *)
(* demand of the two processes, and a processor is at most fully used.      *)
DisplayConsistent ==
    (pc = "returned" /\ alg # "fcfs") =>
      LET d == Display(s[1], s[2]) IN
      /\ d.nR = x[1] + x[2] + z[1] + z[2]
      /\ d.nR <= d.sl
      /\ d.nr[1] + d.nr[2] <= d.nR

(* The strings are the schedule, and what display makes of them is too.     *)
StringsTellSchedule == StringsWellFormed /\ DisplayConsistent

-----------------------------------------------------------------------------
(* A process that is done is never scheduled again, and its string stays as *)
(* it is: the other process's I/O completing or quantum expiring does not   *)
(* put it back, and no later store reaches what has been recorded.          *)
DoneIsFinal ==
    [][\A p \in Process :
         state[p] = DONE => /\ state'[p] = DONE
                            /\ \A k \in 0 .. i - 1 : s'[p][k] = s[p][k]]_vars

(* Each function implements the shared processor of CpuScheduler: between   *)
(* two AppendChars nothing changes there, AppendChars is a unit of time.    *)
firstLeft == [p \in Process |-> IF ioLeft[p] > 0 THEN cpuLeft[p] ELSE 0]

lastLeft == [p \in Process |->
               IF ioLeft[p] > 0 \/ state[p] = WAITING THEN z[p] ELSE cpuLeft[p]]

Cpu == INSTANCE CpuScheduler
         WITH first <- firstLeft, io <- ioLeft, last <- lastLeft

CpuSpec == Cpu!Spec
=============================================================================

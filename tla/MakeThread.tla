----------------------------- MODULE MakeThread -----------------------------
(***************************************************************************)
(* The threaded make of CPUSchedulingProject/assign4: makethread.c and     *)
(* makethreadreturn.c start one thread per file, join them all and link;   *)
(* the thread bodies and compile() are in makelib.c.  compile() forks a    *)
(* child that execs gcc -c and waits for ANY child of the process          *)
(* (r_wait is wait(2)), so a thread may collect another thread's gcc.      *)
(*                                                                         *)
(* Threads and their files are 1 .. NFiles, in the order of argv.          *)
(*                                                                         *)
(* makeserial.c has no threads: main calls compile() for one file after    *)
(* the other and stops at the first 0.  The call for file t is the "thread"*)
(* t here, so that compile() and its child are the same for the three.     *)
(***************************************************************************)
EXTENDS Integers, FiniteSets

CONSTANTS
    NFiles,            \* the number of files named on the command line
    Kinds,             \* the program: "count" (makethread), "return" (makethreadreturn(1)),
                       \* "serial" (makeserial)
    Faults             \* what may fail: "create", "malloc", "fork", "exec", "source"

ASSUME NFilesAssumption == NFiles \in Nat \ {0}
ASSUME KindsAssumption == Kinds \subseteq {"count", "return", "serial"}

Thread == 1 .. NFiles

Linker == 0

Child == Thread \cup {Linker}

VARIABLES
    kind,              \* the program running
    mpc,               \* main: "create", "join", "getcount", "fork", "wait", "exited"
    mi,                \* main's loop variable
    final,             \* final_count (count) or the last final_i (return)
    tpc,               \* where each thread is
    child,             \* child[t]: the process forked by compile() in thread t;
                       \* child[Linker]: the process main forks to link
    status,            \* status[c]: the exit status of that process
    execFailed,        \* the threads whose child could not exec gcc
    objects,           \* the files whose object file has been made
    count,             \* makelib.c's static count
    tmp,               \* the value a thread has loaded in count++
    i,                 \* makelib.c's static i
    countlock          \* holder of the mutex, 0 if free

mainVars == <<kind, mpc, mi, final>>
procVars == <<child, status, execFailed, objects>>
vars == <<kind, mpc, mi, final, tpc, child, status, execFailed, objects,
          count, tmp, i, countlock>>

Unreaped == {c \in Child : child[c] \in {"forked", "gcc", "zombie"}}

Init ==
    /\ kind \in Kinds
    /\ mpc = "create"
    /\ mi = 1
    /\ final = 0
    /\ tpc = [t \in Thread |-> "none"]
    /\ child = [c \in Child |-> "none"]
    /\ status = [c \in Child |-> 0]
    /\ execFailed = {}
    /\ objects = {}
    /\ count = 0
    /\ tmp = [t \in Thread |-> 0]
    /\ i = 0
    /\ countlock = 0

-----------------------------------------------------------------------------
(* main *)

(* The last value of main's loop variable. *)
LastThread == NFiles

CreateThread ==
    /\ kind # "serial"
    /\ mpc = "create"
    /\ tpc' = [tpc EXCEPT ![mi] = IF kind = "return" THEN "start" ELSE "compile"]
    /\ mi' = IF mi = LastThread THEN 1 ELSE mi + 1
    /\ mpc' = IF mi = LastThread THEN "join" ELSE "create"
    /\ UNCHANGED <<kind, final, procVars, count, tmp, i, countlock>>

(* main returns, and with it every thread ends; children of the process do  *)
(* not.                                                                     *)
Exit ==
    /\ mpc' = "exited"
    /\ tpc' = [t \in Thread |-> IF tpc[t] = "finished" THEN "finished" ELSE "killed"]

CreateFails ==
    /\ kind # "serial"
    /\ mpc = "create"
    /\ "create" \in Faults
    /\ Exit
    /\ UNCHANGED <<kind, mi, final, procVars, count, tmp, i, countlock>>

(* Mutant: the last thread is not joined. *)
Joined_ButLast == mi < LastThread => tpc[mi] = "finished"

Joined == tpc[mi] = "finished"

(* pthread_join; makethreadreturn(1).c then asks for i. *)
Join ==
    /\ kind # "serial"
    /\ mpc = "join"
    /\ Joined
    /\ kind = "return" => countlock = 0
    /\ final' = IF kind = "return" THEN i ELSE final
    /\ mi' = IF mi = LastThread THEN mi ELSE mi + 1
    /\ mpc' = IF mi < LastThread THEN "join" ELSE IF kind = "count" THEN "getcount" ELSE "fork"
    /\ UNCHANGED <<kind, tpc, procVars, count, tmp, i, countlock>>

(* makeserial: main calls compile() and does nothing else until it returns. *)
CallCompile ==
    /\ kind = "serial"
    /\ mpc = "create"
    /\ tpc' = [tpc EXCEPT ![mi] = "compile"]
    /\ mpc' = "join"
    /\ UNCHANGED <<kind, mi, final, procVars, count, tmp, i, countlock>>

(* Mutant: the value of compile() is printed and not looked at. *)
Compiled_Any == tpc[mi] \in {"compiled", "finished"}

(* compile() has returned 1. *)
Compiled == tpc[mi] = "compiled"

CompileReturns ==
    /\ kind = "serial"
    /\ mpc = "join"
    /\ Compiled
    /\ tpc' = [tpc EXCEPT ![mi] = "finished"]
    /\ mi' = IF mi = LastThread THEN mi ELSE mi + 1
    /\ mpc' = IF mi = LastThread THEN "fork" ELSE "create"
    /\ UNCHANGED <<kind, final, procVars, count, tmp, i, countlock>>

(* compile() has returned 0: no further file is compiled, nothing is linked. *)
CompileReturns0 ==
    /\ kind = "serial"
    /\ mpc = "join"
    /\ tpc[mi] = "finished"
    /\ Exit
    /\ UNCHANGED <<kind, mi, final, procVars, count, tmp, i, countlock>>

getcount ==
    /\ mpc = "getcount"
    /\ countlock = 0
    /\ final' = count
    /\ mpc' = "fork"
    /\ UNCHANGED <<kind, mi, tpc, procVars, count, tmp, i, countlock>>

ForkLink ==
    /\ mpc = "fork"
    /\ child' = [child EXCEPT ![Linker] = "forked"]
    /\ mpc' = "wait"
    /\ UNCHANGED <<kind, mi, final, tpc, status, execFailed, objects, count, tmp, i, countlock>>

ForkLinkFails ==
    /\ mpc = "fork"
    /\ "fork" \in Faults
    /\ Exit
    /\ UNCHANGED <<kind, mi, final, procVars, count, tmp, i, countlock>>

(* The linker runs to its end, or could not be executed; main does not ask. *)
LinkEnds ==
    /\ child[Linker] = "forked"
    /\ child' = [child EXCEPT ![Linker] = "zombie"]
    /\ UNCHANGED <<mainVars, tpc, status, execFailed, objects, count, tmp, i, countlock>>

(* while (r_wait(NULL) > 0): one child at a time until none is left. *)
WaitAll ==
    /\ mpc = "wait"
    /\ \/ /\ \E c \in Child : /\ child[c] = "zombie"
                             /\ child' = [child EXCEPT ![c] = "reaped"]
          /\ UNCHANGED <<mpc, tpc>>
       \/ /\ Unreaped = {}
          /\ Exit
          /\ UNCHANGED child
    /\ UNCHANGED <<kind, mi, final, status, execFailed, objects, count, tmp, i, countlock>>

-----------------------------------------------------------------------------
(* The thread bodies threadcompile and threadcompilereturn. *)

Goto(t, l) == tpc' = [tpc EXCEPT ![t] = l]

(* Mutant: threadcompilereturn sets i to 0 before it compiles. *)
SetI_Zero(t) ==
    /\ tpc[t] = "start"
    /\ i' = 0
    /\ Goto(t, "compile")
    /\ UNCHANGED <<mainVars, procVars, count, tmp, countlock>>

(* threadcompilereturn: i = 1, without the lock. *)
SetI(t) ==
    /\ tpc[t] = "start"
    /\ i' = 1
    /\ Goto(t, "compile")
    /\ UNCHANGED <<mainVars, procVars, count, tmp, countlock>>

(* compile() forks. *)
ForkGcc(t) ==
    /\ tpc[t] = "compile"
    /\ child' = [child EXCEPT ![t] = "forked"]
    /\ Goto(t, "wait")
    /\ UNCHANGED <<mainVars, status, execFailed, objects, count, tmp, i, countlock>>

(* Mutant: a thread that could not fork waits all the same. *)
CompileFails_Waits(t) ==
    /\ tpc[t] = "compile"
    /\ Faults \cap {"malloc", "fork"} # {}
    /\ Goto(t, "wait")
    /\ UNCHANGED <<mainVars, procVars, count, tmp, i, countlock>>

(* compile() returns 0 when malloc or fork fails. *)
CompileFails(t) ==
    /\ tpc[t] = "compile"
    /\ Faults \cap {"malloc", "fork"} # {}
    /\ Goto(t, "finished")
    /\ UNCHANGED <<mainVars, procVars, count, tmp, i, countlock>>

(* The children that r_wait may return to a thread. *)
Collectable(t) == {c \in Child : child[c] = "zombie"}

(* Where compile() returns 1: the threads count it, makeserial's main goes on. *)
AfterCompile == IF kind = "serial" THEN "compiled" ELSE "lock"

(* r_wait returns some child's status, and compile() returns 1 or 0. *)
Collect(t) ==
    /\ tpc[t] = "wait"
    /\ \E c \in Collectable(t) :
         /\ child' = [child EXCEPT ![c] = "reaped"]
         /\ Goto(t, IF status[c] = 0 THEN AfterCompile ELSE "finished")
    /\ UNCHANGED <<mainVars, status, execFailed, objects, count, tmp, i, countlock>>

(* Mutant: the increment is not protected. *)
LockFree_Always == TRUE

LockFree == countlock = 0

Lock(t) ==
    /\ tpc[t] = "lock"
    /\ LockFree
    /\ countlock' = t
    /\ Goto(t, "load")
    /\ UNCHANGED <<mainVars, procVars, count, tmp, i>>

(* count++ is a load and a store; i = 0 is a store and needs no load. *)
Load(t) ==
    /\ tpc[t] = "load"
    /\ tmp' = [tmp EXCEPT ![t] = count]
    /\ Goto(t, "store")
    /\ UNCHANGED <<mainVars, procVars, count, i, countlock>>

Store(t) ==
    /\ tpc[t] = "store"
    /\ IF kind = "count"
         THEN count' = tmp[t] + 1 /\ UNCHANGED i
         ELSE i' = 0 /\ UNCHANGED count
    /\ Goto(t, "unlock")
    /\ UNCHANGED <<mainVars, procVars, tmp, countlock>>

Unlock(t) ==
    /\ tpc[t] = "unlock"
    /\ countlock' = 0
    /\ Goto(t, "finished")
    /\ UNCHANGED <<mainVars, procVars, count, tmp, i>>

-----------------------------------------------------------------------------
(* The child processes. *)

ExecGcc(t) ==
    /\ child[t] = "forked"
    /\ child' = [child EXCEPT ![t] = "gcc"]
    /\ UNCHANGED <<mainVars, tpc, status, execFailed, objects, count, tmp, i, countlock>>

(* execl returns: compile() returns 0 in the child, and so does the thread  *)
(* body, or makeserial's main; the child, which has no other thread, exits  *)
(* with status 0.                                                           *)
ExecStatus == 0

ExecFails(t) ==
    /\ child[t] = "forked"
    /\ "exec" \in Faults
    /\ child' = [child EXCEPT ![t] = "zombie"]
    /\ status' = [status EXCEPT ![t] = ExecStatus]
    /\ execFailed' = execFailed \cup {t}
    /\ UNCHANGED <<mainVars, tpc, objects, count, tmp, i, countlock>>

(* gcc makes the object file, or finds the source wanting. *)
GccEnds(t) ==
    /\ child[t] = "gcc"
    /\ child' = [child EXCEPT ![t] = "zombie"]
    /\ \/ /\ status' = [status EXCEPT ![t] = 0]
          /\ objects' = objects \cup {t}
       \/ /\ "source" \in Faults
          /\ status' = [status EXCEPT ![t] = 1]
          /\ UNCHANGED objects
    /\ UNCHANGED <<mainVars, tpc, execFailed, count, tmp, i, countlock>>

MainStep ==
    \/ CreateThread \/ CreateFails \/ Join \/ getcount
    \/ CallCompile \/ CompileReturns \/ CompileReturns0
    \/ ForkLink \/ ForkLinkFails \/ WaitAll

ThreadStep(t) ==
    \/ SetI(t) \/ ForkGcc(t) \/ CompileFails(t) \/ Collect(t)
    \/ Lock(t) \/ Load(t) \/ Store(t) \/ Unlock(t)

ChildStep(t) == ExecGcc(t) \/ ExecFails(t) \/ GccEnds(t)

Next == MainStep \/ LinkEnds \/ \E t \in Thread : ThreadStep(t) \/ ChildStep(t)

(* Threads and processes are scheduled by the kernel, and gcc terminates. *)
Spec ==
    /\ Init
    /\ [][Next]_vars
    /\ WF_vars(MainStep)
    /\ WF_vars(LinkEnds)
    /\ \A t \in Thread : WF_vars(ThreadStep(t)) /\ WF_vars(ChildStep(t))

-----------------------------------------------------------------------------
TypeOK ==
    /\ kind \in Kinds
    /\ mpc \in {"create", "join", "getcount", "fork", "wait", "exited"}
    /\ mi \in Thread
    /\ final \in Nat
    /\ tpc \in [Thread -> {"none", "start", "compile", "wait", "lock", "load", "store",
                           "unlock", "compiled", "finished", "killed"}]
    /\ child \in [Child -> {"none", "forked", "gcc", "zombie", "reaped"}]
    /\ status \in [Child -> {0, 1}]
    /\ execFailed \subseteq Thread
    /\ objects \subseteq Thread
    /\ count \in Nat
    /\ tmp \in [Thread -> Nat]
    /\ i \in {0, 1}
    /\ countlock \in 0 .. NFiles

Waiting == {t \in Thread : tpc[t] = "wait"}

(* There is one uncollected child for every thread that waits, whichever     *)
(* child each of them has collected: r_wait in compile() never finds the     *)
(* process without children, so compile() never falls off its end (line 84)  *)
(* without a value.                                                          *)
EveryWaiterHasAChild ==
    mpc # "exited" => Cardinality(Waiting) = Cardinality(Unreaped \ {Linker})

(* makethread's final_count is the number of children that exited with       *)
(* status 0, though the statuses may have gone to the wrong threads and the  *)
(* threads increment one counter: the object files made, and the children    *)
(* that could not execute gcc.                                               *)
CountIsSuccesses ==
    kind = "count" /\ mpc \in {"fork", "wait"} =>
      final = Cardinality(objects \cup execFailed)

(* The linker starts when no gcc is running any more, although no thread    *)
(* waits for its own gcc.                                                   *)
LinkAfterCompiles == child[Linker] # "none" => Unreaped \subseteq {Linker}

(* A value 0 read from i (makethreadreturn) is the verdict of some compile   *)
(* that succeeded, though not of the one that was joined.                    *)
ZeroHasSuccess ==
    kind = "return" /\ mpc \in {"fork", "wait"} /\ final = 0 =>
      \E c \in Thread : child[c] = "reaped" /\ status[c] = 0

(* makeserial forks for a file, and at last for the linker, only when every *)
(* file before it has been compiled.  A child that could not execute gcc    *)
(* returns 0 from main, and passes for a gcc that succeeded: what the       *)
(* linker may miss are the object files of such children.                   *)
SerialStopsAtFailure ==
    kind = "serial" =>
      \A c \in Child : child[c] # "none" =>
        (IF c = Linker THEN Thread ELSE 1 .. (c - 1)) \subseteq objects \cup execFailed

(* No one waits for ever: main comes to its end.                            *)
MainEnds == <>(mpc = "exited")
=============================================================================

-------------------------- MODULE MakeThreadProofs --------------------------
(***************************************************************************)
(* Proofs about MakeThread, for every number of files: the children are    *)
(* counted, not told apart, so the argument is one about cardinalities.    *)
(* The last part is about the end of a run: somebody can always go on, and *)
(* there are only so many steps to take.                                   *)
(***************************************************************************)
EXTENDS MakeThread, FiniteSetTheorems, TLAPS

USE NFilesAssumption, KindsAssumption

(* How far main is, and what the threads have done by then. *)
Progress ==
    /\ \A t \in Thread : tpc[t] \in {"none", "start", "compile"} => child[t] = "none"
    /\ mpc \in {"create", "join", "getcount", "fork"} => child[Linker] = "none"
    /\ child[Linker] # "gcc"
    /\ mpc = "create" => \A t \in Thread : t >= mi => tpc[t] = "none"
    /\ mpc = "join" \/ (mpc = "create" /\ kind = "serial") =>
         \A t \in Thread : t < mi => tpc[t] = "finished"
    /\ mpc = "join" /\ kind = "serial" => \A t \in Thread : t > mi => tpc[t] = "none"
    /\ mpc = "getcount" => kind = "count"
    /\ mpc \in {"getcount", "fork", "wait"} => \A t \in Thread : tpc[t] = "finished"
    /\ mpc = "exited" => \A t \in Thread : tpc[t] \in {"finished", "killed"}

IInv ==
    /\ TypeOK
    /\ Progress
    /\ EveryWaiterHasAChild
    /\ LinkAfterCompiles

LEMMA ThreadFinite ==
    /\ IsFiniteSet(Thread) /\ IsFiniteSet(Child)
    /\ Cardinality(Thread) = NFiles
    /\ \A S : S \subseteq Child => IsFiniteSet(S) /\ Cardinality(S) \in Nat
<1>1. IsFiniteSet(Thread) /\ Cardinality(Thread) = NFiles
  BY FS_Interval DEF Thread
<1>2. IsFiniteSet(Child)
  BY <1>1, FS_AddElement DEF Child, Linker
<1>3. QED
  BY <1>1, <1>2, FS_Subset, FS_CardinalityType

(* Everything but the fork and the collection of a child leaves the two     *)
(* sets as they are.                                                        *)
LEMMA InitInv == Init => IInv
<1> SUFFICES ASSUME Init PROVE IInv
  OBVIOUS
<1>1. TypeOK /\ Progress
  BY DEF Init, TypeOK, Progress, Thread, Child, Linker
<1>2. Waiting = {} /\ Unreaped = {}
  BY DEF Init, Waiting, Unreaped, Thread, Child, Linker
<1>3. EveryWaiterHasAChild /\ LinkAfterCompiles
  BY <1>2, FS_EmptySet DEF EveryWaiterHasAChild, LinkAfterCompiles
<1>4. QED
  BY <1>1, <1>3 DEF IInv

LEMMA NextType == TypeOK /\ Progress /\ [Next]_vars => TypeOK'
<1> SUFFICES ASSUME TypeOK /\ Progress, [Next]_vars PROVE TypeOK'
  OBVIOUS
<1> USE DEF TypeOK, Progress, Thread, Child, Linker, mainVars, procVars, Goto
<1>1. CASE CreateThread
  BY <1>1 DEF CreateThread, LastThread
<1>2. CASE CreateFails
  BY <1>2 DEF CreateFails, Exit
<1>3. CASE Join
  BY <1>3 DEF Join, Joined, LastThread
<1>4. CASE getcount
  BY <1>4 DEF getcount
<1>5. CASE ForkLink
  BY <1>5 DEF ForkLink
<1>6. CASE ForkLinkFails
  BY <1>6 DEF ForkLinkFails, Exit
<1>7. CASE WaitAll
  BY <1>7 DEF WaitAll, Exit
<1>8. CASE LinkEnds
  BY <1>8 DEF LinkEnds
<1>9. ASSUME NEW t \in Thread, SetI(t) PROVE TypeOK'
  BY <1>9 DEF SetI
<1>10. ASSUME NEW t \in Thread, ForkGcc(t) PROVE TypeOK'
  BY <1>10 DEF ForkGcc
<1>11. ASSUME NEW t \in Thread, CompileFails(t) PROVE TypeOK'
  BY <1>11 DEF CompileFails
<1>12. ASSUME NEW t \in Thread, Collect(t) PROVE TypeOK'
  BY <1>12 DEF Collect, Collectable, AfterCompile
<1>13. ASSUME NEW t \in Thread, Lock(t) PROVE TypeOK'
  BY <1>13 DEF Lock, LockFree
<1>14. ASSUME NEW t \in Thread, Load(t) PROVE TypeOK'
  BY <1>14 DEF Load
<1>15. ASSUME NEW t \in Thread, Store(t) PROVE TypeOK'
  BY <1>15 DEF Store
<1>16. ASSUME NEW t \in Thread, Unlock(t) PROVE TypeOK'
  BY <1>16 DEF Unlock
<1>17. ASSUME NEW t \in Thread, ExecGcc(t) PROVE TypeOK'
  BY <1>17 DEF ExecGcc
<1>18. ASSUME NEW t \in Thread, ExecFails(t) PROVE TypeOK'
  BY <1>18 DEF ExecFails, ExecStatus
<1>19. ASSUME NEW t \in Thread, GccEnds(t) PROVE TypeOK'
  BY <1>19 DEF GccEnds
<1>20. CASE UNCHANGED vars
  BY <1>20 DEF vars
<1>21. CASE CallCompile
  BY <1>21 DEF CallCompile
<1>22. CASE CompileReturns
  BY <1>22 DEF CompileReturns, Compiled, LastThread
<1>23. CASE CompileReturns0
  BY <1>23 DEF CompileReturns0, Exit
<1>24. QED
  BY <1>1, <1>2, <1>3, <1>4, <1>5, <1>6, <1>7, <1>8, <1>9, <1>10, <1>11, <1>12, <1>13, <1>14, <1>15, <1>16, <1>17, <1>18, <1>19, <1>20,
     <1>21, <1>22, <1>23
     DEF Next, MainStep, ThreadStep, ChildStep

LEMMA NextProgress == TypeOK /\ Progress /\ LinkAfterCompiles /\ [Next]_vars => Progress'
<1> SUFFICES ASSUME TypeOK /\ Progress /\ LinkAfterCompiles, [Next]_vars PROVE Progress'
  OBVIOUS
<1> USE DEF TypeOK, Progress, Thread, Child, Linker, LinkAfterCompiles, Unreaped, mainVars, procVars, Goto
<1>1. CASE CreateThread
  BY <1>1 DEF CreateThread, LastThread
<1>2. CASE CreateFails
  BY <1>2 DEF CreateFails, Exit
<1>3. CASE Join
  <2>1. tpc' = tpc /\ child' = child /\ kind' = kind /\ kind # "serial"
    BY <1>3 DEF Join
  <2>2. \A t \in Thread : t <= mi => tpc[t] = "finished"
    BY <1>3 DEF Join, Joined
  <2>3. CASE mi < NFiles
    BY <1>3, <2>1, <2>2, <2>3 DEF Join, LastThread
  <2>4. CASE mi = NFiles
    BY <1>3, <2>1, <2>2, <2>4 DEF Join, LastThread
  <2>5. QED
    BY <2>3, <2>4
<1>4. CASE getcount
  BY <1>4 DEF getcount
<1>5. CASE ForkLink
  BY <1>5 DEF ForkLink
<1>6. CASE ForkLinkFails
  BY <1>6 DEF ForkLinkFails, Exit
<1>7. CASE WaitAll
  BY <1>7 DEF WaitAll, Exit
<1>8. CASE LinkEnds
  BY <1>8 DEF LinkEnds
<1>9. ASSUME NEW t \in Thread, SetI(t) PROVE Progress'
  BY <1>9 DEF SetI
<1>10. ASSUME NEW t \in Thread, ForkGcc(t) PROVE Progress'
  BY <1>10 DEF ForkGcc
<1>11. ASSUME NEW t \in Thread, CompileFails(t) PROVE Progress'
  BY <1>11 DEF CompileFails
<1>12. ASSUME NEW t \in Thread, Collect(t) PROVE Progress'
  BY <1>12 DEF Collect, Collectable, AfterCompile
<1>13. ASSUME NEW t \in Thread, Lock(t) PROVE Progress'
  BY <1>13 DEF Lock, LockFree
<1>14. ASSUME NEW t \in Thread, Load(t) PROVE Progress'
  BY <1>14 DEF Load
<1>15. ASSUME NEW t \in Thread, Store(t) PROVE Progress'
  BY <1>15 DEF Store
<1>16. ASSUME NEW t \in Thread, Unlock(t) PROVE Progress'
  BY <1>16 DEF Unlock
<1>17. ASSUME NEW t \in Thread, ExecGcc(t) PROVE Progress'
  BY <1>17 DEF ExecGcc
<1>18. ASSUME NEW t \in Thread, ExecFails(t) PROVE Progress'
  BY <1>18 DEF ExecFails, ExecStatus
<1>19. ASSUME NEW t \in Thread, GccEnds(t) PROVE Progress'
  BY <1>19 DEF GccEnds
<1>20. CASE UNCHANGED vars
  BY <1>20 DEF vars
<1>21. CASE CallCompile
  BY <1>21 DEF CallCompile
<1>22. CASE CompileReturns
  <2>1. /\ child' = child /\ kind = "serial" /\ mpc = "join" /\ mi \in 1 .. NFiles
        /\ tpc' = [tpc EXCEPT ![mi] = "finished"]
        /\ mi' = (IF mi = NFiles THEN mi ELSE mi + 1)
        /\ mpc' = (IF mi = NFiles THEN "fork" ELSE "create")
    BY <1>22 DEF CompileReturns, LastThread
  <2>2. \A t \in Thread : t <= mi => tpc'[t] = "finished"
    BY <2>1
  <2>3. \A t \in Thread : tpc'[t] = "finished" \/ tpc'[t] = tpc[t]
    BY <2>1
  <2>4. \A t \in Thread : tpc'[t] \in {"none", "start", "compile"} => child'[t] = "none"
    BY <2>1, <2>3
  <2>5. mpc' = "fork" => \A t \in Thread : tpc'[t] = "finished"
    BY <2>1, <2>2
  <2>6. \A t \in Thread : t < mi' => tpc'[t] = "finished"
    BY <2>1, <2>2
  <2>7. mpc' = "create" => \A t \in Thread : t >= mi' => tpc'[t] = "none"
    BY <2>1
  <2>8. child'[Linker] = "none" /\ mpc' \in {"create", "fork"}
    BY <2>1
  <2>9. QED
    BY ONLY <2>4, <2>5, <2>6, <2>7, <2>8 DEF Progress
<1>23. CASE CompileReturns0
  BY <1>23 DEF CompileReturns0, Exit
<1>24. QED
  BY <1>1, <1>2, <1>3, <1>4, <1>5, <1>6, <1>7, <1>8, <1>9, <1>10, <1>11, <1>12, <1>13, <1>14, <1>15, <1>16, <1>17, <1>18, <1>19, <1>20,
     <1>21, <1>22, <1>23
     DEF Next, MainStep, ThreadStep, ChildStep

-----------------------------------------------------------------------------
(* Waiting threads and children to collect.                                *)

(* The children that compile() has forked and nobody has collected. *)
Uncollected == Unreaped \ {Linker}

(* While main is past the joins no thread waits, so nothing is uncollected. *)
LEMMA NothingUncollected ==
    ASSUME IInv, mpc \in {"getcount", "fork", "wait"}
    PROVE  Uncollected = {}
<1>1. Waiting = {}
  BY DEF IInv, Progress, Waiting
<1>2. Cardinality(Uncollected) = 0
  BY <1>1, FS_EmptySet DEF IInv, EveryWaiterHasAChild, Uncollected
<1>3. IsFiniteSet(Uncollected)
  BY ThreadFinite DEF Uncollected, Unreaped, Child
<1>4. QED
  BY <1>2, <1>3, FS_EmptySet

(* A step changes neither set, or adds a thread and its child, or takes a   *)
(* thread and a child, not necessarily its own, away.                       *)
LEMMA StepSets ==
    ASSUME IInv, [Next]_vars, mpc' # "exited"
    PROVE  \/ Waiting' = Waiting /\ Uncollected' = Uncollected
           \/ \E t \in Thread : /\ t \notin Waiting /\ t \notin Uncollected
                                /\ Waiting' = Waiting \cup {t}
                                /\ Uncollected' = Uncollected \cup {t}
           \/ \E t \in Waiting, c \in Uncollected : /\ Waiting' = Waiting \ {t}
                                                    /\ Uncollected' = Uncollected \ {c}
<1> DEFINE Same == Waiting' = Waiting /\ Uncollected' = Uncollected
<1> USE DEF IInv, TypeOK, Thread, Child, Linker, Waiting, Uncollected, Unreaped, mainVars,
            procVars, Goto
<1>1. ASSUME CreateThread \/ CallCompile PROVE Same
  BY <1>1 DEF CreateThread, CallCompile, Progress
<1>2. ASSUME CreateFails \/ ForkLinkFails \/ CompileReturns0 PROVE Same
  BY <1>2 DEF CreateFails, ForkLinkFails, CompileReturns0, Exit
<1>3. ASSUME Join \/ getcount \/ CompileReturns \/ ForkLink \/ LinkEnds PROVE Same
  BY <1>3 DEF Join, getcount, CompileReturns, Compiled, ForkLink, LinkEnds, Progress
<1>4. ASSUME WaitAll PROVE Same
  <2>1. Uncollected = {}
    BY <1>4, NothingUncollected DEF WaitAll
  <2>2. \A c \in Thread : child[c] \notin {"forked", "gcc", "zombie"}
    <3> SUFFICES ASSUME NEW c \in Thread, child[c] \in {"forked", "gcc", "zombie"}
                 PROVE  c \in Uncollected
      BY <2>1
    <3> QED
      OBVIOUS
  <2>3. mpc' = mpc /\ tpc' = tpc
    BY <1>4 DEF WaitAll, Exit
  <2>4. \A c \in Thread : child'[c] = child[c]
    BY <1>4, <2>2 DEF WaitAll, Exit
  <2>5. Waiting' = Waiting
    BY <2>3
  <2>6. Uncollected' = Uncollected
    BY <2>4
  <2>7. QED
    BY <2>5, <2>6
<1>5. ASSUME NEW t \in Thread, ForkGcc(t)
      PROVE  /\ t \notin Waiting /\ t \notin Uncollected
             /\ Waiting' = Waiting \cup {t}
             /\ Uncollected' = Uncollected \cup {t}
  BY <1>5 DEF ForkGcc, Progress
<1>6. ASSUME NEW t \in Thread, Collect(t)
      PROVE  \E c \in Uncollected : /\ t \in Waiting
                                    /\ Waiting' = Waiting \ {t}
                                    /\ Uncollected' = Uncollected \ {c}
  <2>1. PICK c \in Collectable(t) : /\ child' = [child EXCEPT ![c] = "reaped"]
                                    /\ Goto(t, IF status[c] = 0 THEN AfterCompile ELSE "finished")
    BY <1>6 DEF Collect
  <2>2. c \in Uncollected
    BY <1>6, <2>1 DEF Collect, Collectable, Progress
  <2>3. Waiting' = Waiting \ {t} /\ t \in Waiting
    BY <1>6, <2>1 DEF Collect, AfterCompile
  <2>4. Uncollected' = Uncollected \ {c}
    BY <2>1, <2>2
  <2>5. QED
    BY <2>2, <2>3, <2>4
<1>7. ASSUME NEW t \in Thread, ThreadStep(t), ~ ForkGcc(t), ~ Collect(t) PROVE Same
  <2>1. CASE CompileFails(t) \/ Lock(t) \/ Load(t)
    BY <2>1 DEF CompileFails, Lock, Load
  <2>2. CASE SetI(t) \/ Store(t) \/ Unlock(t)
    BY <2>2 DEF SetI, Store, Unlock
  <2>3. QED
    BY <1>7, <2>1, <2>2 DEF ThreadStep
<1>8. ASSUME NEW t \in Thread, ChildStep(t) PROVE Same
  BY <1>8 DEF ChildStep, ExecGcc, ExecFails, GccEnds
<1>9. ASSUME UNCHANGED vars PROVE Same
  BY <1>9 DEF vars
<1>10. ASSUME NEW t \in Thread, ForkGcc(t)
       PROVE  \E t1 \in Thread : /\ t1 \notin Waiting /\ t1 \notin Uncollected
                                 /\ Waiting' = Waiting \cup {t1}
                                 /\ Uncollected' = Uncollected \cup {t1}
  BY ONLY <1>5, <1>10
<1>11. ASSUME NEW t \in Thread, Collect(t)
       PROVE  \E t1 \in Waiting, c \in Uncollected : /\ Waiting' = Waiting \ {t1}
                                                      /\ Uncollected' = Uncollected \ {c}
  BY ONLY <1>6, <1>11
<1>12. \/ Same
       \/ \E t \in Thread : ForkGcc(t)
       \/ \E t \in Thread : Collect(t)
  BY ONLY [Next]_vars, <1>1, <1>2, <1>3, <1>4, <1>7, <1>8, <1>9 DEF Next, MainStep
<1>13. QED
  BY ONLY <1>10, <1>11, <1>12

LEMMA NextEveryWaiter == IInv /\ [Next]_vars => EveryWaiterHasAChild'
<1> SUFFICES ASSUME IInv, [Next]_vars, mpc' # "exited"
             PROVE  Cardinality(Waiting') = Cardinality(Uncollected')
  BY DEF EveryWaiterHasAChild, Uncollected, Linker
<1>1. mpc # "exited"
  BY DEF Next, MainStep, CreateThread, CreateFails, Join, getcount, CallCompile,
         CompileReturns, CompileReturns0, ForkLink, ForkLinkFails, WaitAll, LinkEnds, ThreadStep, SetI, ForkGcc, CompileFails, Collect, Lock, Load, Store,
         Unlock, ChildStep, ExecGcc, ExecFails, GccEnds, vars, mainVars
<1>2. Cardinality(Waiting) = Cardinality(Uncollected)
  BY <1>1 DEF IInv, EveryWaiterHasAChild, Uncollected
<1>3. IsFiniteSet(Waiting) /\ IsFiniteSet(Uncollected)
  BY ThreadFinite DEF Waiting, Uncollected, Unreaped, Child
<1>4. CASE Waiting' = Waiting /\ Uncollected' = Uncollected
  BY <1>2, <1>4
<1>5. ASSUME NEW t \in Thread, t \notin Waiting, t \notin Uncollected,
             Waiting' = Waiting \cup {t}, Uncollected' = Uncollected \cup {t}
      PROVE  Cardinality(Waiting') = Cardinality(Uncollected')
  <2>1. Cardinality(Waiting') = Cardinality(Waiting) + 1
    BY <1>3, <1>5, FS_AddElement
  <2>2. Cardinality(Uncollected') = Cardinality(Uncollected) + 1
    BY <1>3, <1>5, FS_AddElement
  <2>3. QED
    BY <1>2, <2>1, <2>2
<1>6. ASSUME NEW t \in Waiting, NEW c \in Uncollected,
             Waiting' = Waiting \ {t}, Uncollected' = Uncollected \ {c}
      PROVE  Cardinality(Waiting') = Cardinality(Uncollected')
  <2>1. Cardinality(Waiting') = Cardinality(Waiting) - 1
    BY <1>3, <1>6, FS_RemoveElement
  <2>2. Cardinality(Uncollected') = Cardinality(Uncollected) - 1
    BY <1>3, <1>6, FS_RemoveElement
  <2>3. QED
    BY <1>2, <2>1, <2>2
<1>7. QED
  BY <1>4, <1>5, <1>6, StepSets

LEMMA NextLinkAfter == IInv /\ [Next]_vars => LinkAfterCompiles'
<1> SUFFICES ASSUME IInv, [Next]_vars, child'[Linker] # "none"
             PROVE  Unreaped' \subseteq {Linker}
  BY DEF LinkAfterCompiles, Linker
<1> USE DEF IInv, TypeOK, Thread, Child, Linker, Unreaped, mainVars, procVars
<1>1. CASE ForkLink
  BY <1>1, NothingUncollected DEF ForkLink, Uncollected
<1>2. CASE CreateThread \/ CreateFails \/ Join \/ getcount \/ ForkLinkFails
  BY <1>2 DEF CreateThread, CreateFails, Join, getcount, ForkLinkFails, LinkAfterCompiles
<1>9. CASE CallCompile \/ CompileReturns \/ CompileReturns0
  BY <1>9 DEF CallCompile, CompileReturns, CompileReturns0, LinkAfterCompiles
<1>3. CASE WaitAll
  BY <1>3 DEF WaitAll, LinkAfterCompiles, Progress
<1>4. CASE LinkEnds
  BY <1>4 DEF LinkEnds, LinkAfterCompiles
<1>5. ASSUME NEW t \in Thread, ThreadStep(t) PROVE Unreaped' \subseteq {Linker}
  <2>1. CASE ForkGcc(t)
    BY <2>1 DEF ForkGcc, Progress
  <2>2. CASE Collect(t)
    BY <2>2 DEF Collect, LinkAfterCompiles, Collectable
  <2>3. QED
    BY <1>5, <2>1, <2>2 DEF ThreadStep, SetI, CompileFails, Lock, Load, Store, Unlock,
                            LinkAfterCompiles
<1>6. ASSUME NEW t \in Thread, ChildStep(t) PROVE Unreaped' \subseteq {Linker}
  BY <1>6 DEF ChildStep, ExecGcc, ExecFails, GccEnds, LinkAfterCompiles
<1>7. CASE UNCHANGED vars
  BY <1>7 DEF vars, LinkAfterCompiles
<1>8. QED
  BY <1>1, <1>2, <1>3, <1>4, <1>5, <1>6, <1>7, <1>9 DEF Next, MainStep

LEMMA Invariant == Spec => []IInv
<1>1. IInv /\ [Next]_vars => IInv'
  BY NextType, NextProgress, NextEveryWaiter, NextLinkAfter DEF IInv
<1>2. QED
  BY <1>1, InitInv, PTL DEF Spec

(* The threads, their children and the counter keep their types, for every  *)
(* number of files.                                                         *)
THEOREM TypeCorrect == Spec => []TypeOK
<1>1. IInv => TypeOK
  BY DEF IInv
<1>2. QED
  BY <1>1, Invariant, PTL

(* There is always one uncollected child for every waiting thread. *)
THEOREM WaitersHaveChildren == Spec => []EveryWaiterHasAChild
<1>1. IInv => EveryWaiterHasAChild
  BY DEF IInv
<1>2. QED
  BY <1>1, Invariant, PTL

(* The linker never runs beside a gcc. *)
THEOREM LinkerRunsAlone == Spec => []LinkAfterCompiles
<1>1. IInv => LinkAfterCompiles
  BY DEF IInv
<1>2. QED
  BY <1>1, Invariant, PTL

-----------------------------------------------------------------------------
(* The counter.  A child that was collected with status 0 is paid for by    *)
(* an increment, made or still owed by the thread that collected it.        *)

Owing == {t \in Thread : tpc[t] \in {"lock", "load", "store"}}

Paid == {c \in Thread : child[c] = "reaped" /\ status[c] = 0}

Succeeded == {c \in Thread : child[c] \in {"zombie", "reaped"} /\ status[c] = 0}

Locking ==
    mpc # "exited" =>
      \A t \in Thread : /\ tpc[t] \in {"load", "store", "unlock"} <=> countlock = t
                        /\ tpc[t] = "store" => tmp[t] = count

Counted == kind = "count" /\ mpc # "exited" => count + Cardinality(Owing) = Cardinality(Paid)

Reported == kind = "count" /\ mpc \in {"fork", "wait"} => final = count

CountInv ==
    /\ IInv
    /\ Locking
    /\ Counted
    /\ Reported
    /\ objects \cup execFailed = Succeeded

LEMMA InitCount == Init => CountInv
<1> SUFFICES ASSUME Init PROVE CountInv
  OBVIOUS
<1>1. Owing = {} /\ Paid = {} /\ Succeeded = {}
  BY DEF Init, Owing, Paid, Succeeded, Thread, Child, Linker
<1>2. Counted
  BY <1>1, FS_EmptySet DEF Init, Counted
<1>3. Locking /\ Reported /\ objects \cup execFailed = Succeeded
  BY <1>1 DEF Init, Locking, Reported, Thread
<1>4. QED
  BY <1>2, <1>3, InitInv DEF CountInv

LEMMA NextLocking == TypeOK /\ Progress /\ Locking /\ [Next]_vars => Locking'
<1> SUFFICES ASSUME TypeOK, Progress, Locking, [Next]_vars, mpc' # "exited",
                    NEW u \in Thread
             PROVE  /\ tpc'[u] \in {"load", "store", "unlock"} <=> countlock' = u
                    /\ tpc'[u] = "store" => tmp'[u] = count'
  BY DEF Locking
<1> USE DEF TypeOK, Locking, Thread, mainVars, procVars, Goto
<1>1. CASE CreateThread \/ CallCompile
  BY <1>1 DEF CreateThread, CallCompile, Progress
<1>2. CASE CreateFails \/ ForkLinkFails \/ CompileReturns0
  BY <1>2 DEF CreateFails, ForkLinkFails, CompileReturns0, Exit
<1>3. CASE Join \/ getcount \/ CompileReturns \/ ForkLink \/ LinkEnds \/ WaitAll
  BY <1>3 DEF Join, getcount, CompileReturns, Compiled, ForkLink, LinkEnds, WaitAll, Exit
<1>4. ASSUME NEW t \in Thread, ThreadStep(t)
      PROVE  /\ tpc'[u] \in {"load", "store", "unlock"} <=> countlock' = u
             /\ tpc'[u] = "store" => tmp'[u] = count'
  <2>1. CASE SetI(t)
    BY <2>1 DEF SetI
  <2>2. CASE ForkGcc(t) \/ CompileFails(t)
    BY <2>2 DEF ForkGcc, CompileFails
  <2>3. CASE Collect(t)
    BY <2>3 DEF Collect, AfterCompile
  <2>4. CASE Lock(t)
    BY <2>4 DEF Lock, LockFree
  <2>5. CASE Load(t)
    BY <2>5 DEF Load
  <2>6. CASE Store(t)
    BY <2>6 DEF Store
  <2>7. CASE Unlock(t)
    BY <2>7 DEF Unlock
  <2>8. QED
    BY <1>4, <2>1, <2>2, <2>3, <2>4, <2>5, <2>6, <2>7 DEF ThreadStep
<1>5. ASSUME NEW t \in Thread, ChildStep(t)
      PROVE  /\ tpc'[u] \in {"load", "store", "unlock"} <=> countlock' = u
             /\ tpc'[u] = "store" => tmp'[u] = count'
  BY <1>5 DEF ChildStep, ExecGcc, ExecFails, GccEnds
<1>6. CASE UNCHANGED vars
  BY <1>6 DEF vars
<1>7. QED
  BY <1>1, <1>2, <1>3, <1>4, <1>5, <1>6 DEF Next, MainStep

LEMMA NextSucceeded ==
    IInv /\ objects \cup execFailed = Succeeded /\ [Next]_vars
      => objects' \cup execFailed' = Succeeded'
<1> SUFFICES ASSUME IInv, objects \cup execFailed = Succeeded, [Next]_vars
             PROVE  objects' \cup execFailed' = Succeeded'
  OBVIOUS
<1> USE DEF IInv, TypeOK, Thread, Child, Linker, Succeeded, mainVars, procVars
<1>1. CASE CreateThread \/ CreateFails \/ Join \/ getcount \/ ForkLinkFails
  BY <1>1 DEF CreateThread, CreateFails, Join, getcount, ForkLinkFails
<1>8. CASE CallCompile \/ CompileReturns \/ CompileReturns0
  BY <1>8 DEF CallCompile, CompileReturns, CompileReturns0
<1>2. CASE ForkLink \/ LinkEnds
  BY <1>2 DEF ForkLink, LinkEnds
<1>3. CASE WaitAll
  BY <1>3 DEF WaitAll
<1>4. ASSUME NEW t \in Thread, ThreadStep(t) PROVE objects' \cup execFailed' = Succeeded'
  <2>1. CASE ForkGcc(t)
    BY <2>1 DEF ForkGcc, Progress
  <2>2. CASE Collect(t)
    BY <2>2 DEF Collect, Collectable
  <2>3. QED
    BY <1>4, <2>1, <2>2 DEF ThreadStep, SetI, CompileFails, Lock, Load, Store, Unlock
<1>5. ASSUME NEW t \in Thread, ChildStep(t) PROVE objects' \cup execFailed' = Succeeded'
  <2>1. CASE ExecGcc(t)
    BY <2>1 DEF ExecGcc
  <2>2. CASE ExecFails(t)
    BY <2>2 DEF ExecFails, ExecStatus
  <2>3. CASE GccEnds(t)
    BY <2>3 DEF GccEnds
  <2>4. QED
    BY <1>5, <2>1, <2>2, <2>3 DEF ChildStep
<1>6. CASE UNCHANGED vars
  BY <1>6 DEF vars
<1>7. QED
  BY <1>1, <1>2, <1>3, <1>4, <1>5, <1>6, <1>8 DEF Next, MainStep

(* One step of the account: nothing happens, a success is collected, a      *)
(* thread pays with an increment.                                           *)
LEMMA StepAccount ==
    ASSUME CountInv, [Next]_vars, kind = "count", mpc' # "exited"
    PROVE  \/ Owing' = Owing /\ Paid' = Paid /\ count' = count
           \/ \E t \in Thread, c \in Thread : /\ t \notin Owing /\ c \notin Paid
                                             /\ Owing' = Owing \cup {t}
                                             /\ Paid' = Paid \cup {c}
                                             /\ count' = count
           \/ \E t \in Owing : /\ Owing' = Owing \ {t}
                               /\ Paid' = Paid
                               /\ count' = count + 1
<1> DEFINE Same == Owing' = Owing /\ Paid' = Paid /\ count' = count
           Collected == \E t \in Thread, c \in Thread :
                          /\ t \notin Owing /\ c \notin Paid
                          /\ Owing' = Owing \cup {t}
                          /\ Paid' = Paid \cup {c}
                          /\ count' = count
           Paying == \E t \in Owing : /\ Owing' = Owing \ {t}
                                     /\ Paid' = Paid
                                     /\ count' = count + 1
<1> USE DEF CountInv, IInv, TypeOK, Thread, Child, Linker, Owing, Paid, mainVars, procVars, Goto
<1>0. IInv
  OBVIOUS
<1>1. ASSUME CreateThread \/ CallCompile PROVE Same
  BY <1>1 DEF CreateThread, CallCompile, Progress
<1>2. ASSUME CreateFails \/ ForkLinkFails \/ CompileReturns0 PROVE Same
  BY <1>2 DEF CreateFails, ForkLinkFails, CompileReturns0, Exit
<1>3. ASSUME Join \/ getcount \/ CompileReturns \/ ForkLink \/ LinkEnds PROVE Same
  BY <1>3 DEF Join, getcount, CompileReturns, Compiled, ForkLink, LinkEnds, Progress
<1>4. ASSUME WaitAll PROVE Same
  <2>1. Uncollected = {}
    BY <1>4, <1>0, NothingUncollected DEF WaitAll
  <2>2. ASSUME NEW c \in Thread PROVE child[c] # "zombie"
    <3> SUFFICES ASSUME child[c] = "zombie" PROVE c \in Uncollected
      BY <2>1
    <3> QED
      BY DEF Uncollected, Unreaped
  <2>3. \A c \in Thread : child'[c] = child[c]
    BY <1>4, <2>2 DEF WaitAll, Exit
  <2>4. mpc' = mpc /\ tpc' = tpc /\ status' = status /\ count' = count
    BY <1>4 DEF WaitAll, Exit
  <2>5. QED
    BY <2>3, <2>4
<1>5. ASSUME NEW t \in Thread, SetI(t) \/ CompileFails(t) \/ Lock(t) PROVE Same
  <2>1. CASE SetI(t)
    BY <2>1 DEF SetI
  <2>2. CASE CompileFails(t)
    BY <2>2 DEF CompileFails
  <2>3. CASE Lock(t)
    BY <2>3 DEF Lock
  <2>4. QED
    BY <1>5, <2>1, <2>2, <2>3
<1>6. ASSUME NEW t \in Thread, Load(t) \/ Unlock(t) PROVE Same
  BY <1>6 DEF Load, Unlock
<1>7. ASSUME NEW t \in Thread, ForkGcc(t) PROVE Same
  BY <1>7 DEF ForkGcc, Progress
<1>8. ASSUME NEW t \in Thread, Collect(t) PROVE Same \/ Collected
  <2>1. PICK c \in Collectable(t) : /\ child' = [child EXCEPT ![c] = "reaped"]
                                    /\ Goto(t, IF status[c] = 0 THEN AfterCompile ELSE "finished")
    BY <1>8 DEF Collect
  <2>2. c \in Thread /\ child[c] = "zombie"
    BY <1>8, <2>1 DEF Collect, Collectable, Progress
  <2>3. tpc[t] = "wait" /\ status' = status /\ count' = count
    BY <1>8 DEF Collect
  <2>4. CASE status[c] = 0
    <3>1. Owing' = Owing \cup {t} /\ t \notin Owing
      BY <2>1, <2>3, <2>4 DEF AfterCompile
    <3>2. Paid' = Paid \cup {c} /\ c \notin Paid
      BY <2>1, <2>2, <2>3, <2>4
    <3>3. QED
      BY <2>2, <2>3, <3>1, <3>2
  <2>5. CASE status[c] # 0
    BY <2>1, <2>2, <2>3, <2>5
  <2>6. QED
    BY <2>4, <2>5
<1>9. ASSUME NEW t \in Thread, Store(t) PROVE Paying
  BY <1>9 DEF Store, Locking
<1>10. ASSUME NEW t \in Thread, ChildStep(t) PROVE Same
  <2>1. CASE ExecGcc(t)
    BY <2>1 DEF ExecGcc
  <2>2. CASE ExecFails(t)
    BY <2>2 DEF ExecFails
  <2>3. CASE GccEnds(t)
    BY <2>3 DEF GccEnds
  <2>4. QED
    BY <1>10, <2>1, <2>2, <2>3 DEF ChildStep
<1>11. ASSUME UNCHANGED vars PROVE Same
  BY <1>11 DEF vars
<1>12. Same \/ Collected \/ Paying
  BY ONLY [Next]_vars, <1>1, <1>2, <1>3, <1>4, <1>5, <1>6, <1>7, <1>8, <1>9, <1>10, <1>11
     DEF Next, MainStep, ThreadStep
<1>13. QED
  BY ONLY <1>12

LEMMA NextCounted == CountInv /\ [Next]_vars => Counted'
<1> SUFFICES ASSUME CountInv, [Next]_vars, kind' = "count", mpc' # "exited"
             PROVE  count' + Cardinality(Owing') = Cardinality(Paid')
  BY DEF Counted
<1>1. kind = "count" /\ mpc # "exited"
  BY DEF Next, MainStep, CreateThread, CreateFails, Join, getcount, CallCompile,
         CompileReturns, CompileReturns0, ForkLink, ForkLinkFails, WaitAll, LinkEnds, ThreadStep, SetI, ForkGcc, CompileFails, Collect, Lock, Load, Store,
         Unlock, ChildStep, ExecGcc, ExecFails, GccEnds, vars, mainVars
<1>2. count + Cardinality(Owing) = Cardinality(Paid)
  BY <1>1 DEF CountInv, Counted
<1>3. /\ IsFiniteSet(Owing) /\ Cardinality(Owing) \in Nat
      /\ IsFiniteSet(Paid) /\ Cardinality(Paid) \in Nat
  BY ThreadFinite DEF Owing, Paid, Child
<1>4. count \in Nat
  BY DEF CountInv, IInv, TypeOK
<1>5. CASE Owing' = Owing /\ Paid' = Paid /\ count' = count
  BY <1>2, <1>5
<1>6. ASSUME NEW t \in Thread, NEW c \in Thread, t \notin Owing, c \notin Paid,
             Owing' = Owing \cup {t}, Paid' = Paid \cup {c}, count' = count
      PROVE  count' + Cardinality(Owing') = Cardinality(Paid')
  <2>1. Cardinality(Owing') = Cardinality(Owing) + 1
    BY <1>3, <1>6, FS_AddElement
  <2>2. Cardinality(Paid') = Cardinality(Paid) + 1
    BY <1>3, <1>6, FS_AddElement
  <2>3. QED
    BY <1>2, <1>3, <1>4, <1>6, <2>1, <2>2
<1>7. ASSUME NEW t \in Owing, Owing' = Owing \ {t}, Paid' = Paid, count' = count + 1
      PROVE  count' + Cardinality(Owing') = Cardinality(Paid')
  <2>1. Cardinality(Owing') = Cardinality(Owing) - 1
    BY <1>3, <1>7, FS_RemoveElement
  <2>2. QED
    BY <1>2, <1>3, <1>4, <1>7, <2>1
<1>8. QED
  BY <1>1, <1>5, <1>6, <1>7, StepAccount

LEMMA NextReported == CountInv /\ [Next]_vars => Reported'
<1> SUFFICES ASSUME CountInv, [Next]_vars, kind' = "count", mpc' \in {"fork", "wait"}
             PROVE  final' = count'
  BY DEF Reported
<1> USE DEF CountInv, IInv, TypeOK, Progress, Reported, mainVars, procVars
<1>1. ASSUME NEW t \in Thread, ThreadStep(t) PROVE final' = count'
  BY <1>1 DEF ThreadStep, SetI, ForkGcc, CompileFails, Collect, Lock, Load, Store, Unlock
<1>2. ASSUME NEW t \in Thread, ChildStep(t) PROVE final' = count'
  BY <1>2 DEF ChildStep, ExecGcc, ExecFails, GccEnds
<1>3. CASE MainStep
  BY <1>3 DEF MainStep, CreateThread, CreateFails, Join, getcount, CallCompile,
              CompileReturns, CompileReturns0, ForkLink, ForkLinkFails, WaitAll, Exit
<1>4. CASE LinkEnds \/ UNCHANGED vars
  BY <1>4 DEF LinkEnds, vars
<1>5. QED
  BY <1>1, <1>2, <1>3, <1>4 DEF Next

LEMMA CountInvariant == Spec => []CountInv
<1>1. CountInv /\ [Next]_vars => IInv'
  BY NextType, NextProgress, NextEveryWaiter, NextLinkAfter DEF IInv, CountInv
<1>2. CountInv /\ [Next]_vars => CountInv'
  BY <1>1, NextLocking, NextSucceeded, NextCounted, NextReported DEF CountInv, IInv
<1>3. QED
  BY <1>2, InitCount, PTL DEF Spec

(* makethread's count is the number of compiles whose process exited with   *)
(* status 0, whichever thread collected each of them.                       *)
THEOREM CountIsRight == Spec => []CountIsSuccesses
<1>1. CountInv => CountIsSuccesses
  <2> SUFFICES ASSUME CountInv, kind = "count", mpc \in {"fork", "wait"}
               PROVE  final = Cardinality(objects \cup execFailed)
    BY DEF CountIsSuccesses
  <2>1. Owing = {}
    BY DEF CountInv, IInv, Progress, Owing
  <2>2. Uncollected = {}
    BY NothingUncollected DEF CountInv
  <2>3. Paid = Succeeded
    BY <2>2 DEF Paid, Succeeded, Uncollected, Unreaped, Child, Thread, Linker
  <2>4. count + 0 = Cardinality(Paid)
    BY <2>1, FS_EmptySet DEF CountInv, Counted
  <2>5. final = count /\ count \in Nat
    BY DEF CountInv, Reported, IInv, TypeOK
  <2>6. QED
    BY <2>3, <2>4, <2>5 DEF CountInv
<1>2. QED
  BY <1>1, CountInvariant, PTL

-----------------------------------------------------------------------------
(* makeserial: only the file main is at has a child to collect, so that the *)
(* status compile() collects is its own child's, and a file main has gone   *)
(* past has been compiled.                                                  *)

Passed(t) ==
    \/ tpc[t] = "compiled"
    \/ mpc \in {"create", "join"} /\ t < mi
    \/ mpc \in {"fork", "wait"}

SerialInv ==
    /\ CountInv
    /\ kind = "serial" /\ mpc # "exited" =>
         \A t \in Thread : /\ t \in Unreaped => tpc[t] = "wait"
                           /\ Passed(t) => t \in Succeeded
    /\ SerialStopsAtFailure

LEMMA OneActive ==
    ASSUME IInv, kind = "serial", NEW t \in Thread, tpc[t] \notin {"none", "finished", "killed"}
    PROVE  mpc = "join" /\ t = mi
BY DEF IInv, TypeOK, Progress, Thread

LEMMA NextPassed ==
    ASSUME SerialInv, [Next]_vars, kind' = "serial", mpc' # "exited", NEW u \in Thread
    PROVE  /\ u \in Unreaped' => tpc'[u] = "wait"
           /\ Passed(u)' => u \in Succeeded'
<1> DEFINE Goal == /\ u \in Unreaped' => tpc'[u] = "wait"
                   /\ Passed(u)' => u \in Succeeded'
<1>0. IInv /\ TypeOK /\ Progress
  BY DEF SerialInv, CountInv, IInv
<1>a. kind = "serial" /\ mpc # "exited"
  BY DEF Next, MainStep, CreateThread, CreateFails, Join, getcount, CallCompile,
         CompileReturns, CompileReturns0, ForkLink, ForkLinkFails, WaitAll, LinkEnds,
         ThreadStep, SetI, ForkGcc, CompileFails, Collect, Lock, Load, Store,
         Unlock, ChildStep, ExecGcc, ExecFails, GccEnds, vars, mainVars
<1>b. /\ u \in Unreaped => tpc[u] = "wait"
      /\ Passed(u) => u \in Succeeded
  BY <1>a DEF SerialInv
<1> USE DEF TypeOK, Passed, Succeeded, Unreaped, Thread, Child, Linker, mainVars, procVars, Goto
<1>1. CASE CallCompile
  BY <1>0, <1>b, <1>1 DEF CallCompile, Progress
<1>2. CASE CompileReturns
  BY <1>0, <1>b, <1>2 DEF CompileReturns, Compiled, LastThread, Progress
<1>3. CASE ForkLink \/ LinkEnds
  <2>1. child'[u] = child[u] /\ status' = status /\ tpc' = tpc /\ mi' = mi
    <3>1. CASE ForkLink
      BY <1>0, <3>1 DEF ForkLink
    <3>2. CASE LinkEnds
      BY <1>0, <3>2 DEF LinkEnds
    <3>3. QED
      BY <1>3, <3>1, <3>2
  <2>2. mpc' = mpc \/ (mpc = "fork" /\ mpc' = "wait")
    BY <1>3 DEF ForkLink, LinkEnds
  <2>3. QED
    BY <1>b, <2>1, <2>2
<1>4. CASE WaitAll
  BY <1>0, <1>b, <1>4 DEF WaitAll, Exit
<1>5. CASE CreateThread \/ Join \/ CreateFails \/ ForkLinkFails \/ CompileReturns0
  BY <1>a, <1>5 DEF CreateThread, Join, CreateFails, ForkLinkFails, CompileReturns0, Exit
<1>12. CASE getcount
  BY <1>0, <1>a, <1>12 DEF getcount, Progress
<1>6. ASSUME NEW t \in Thread, ForkGcc(t) \/ CompileFails(t) PROVE Goal
  <2>1. CASE ForkGcc(t)
    BY <1>0, <1>b, <2>1 DEF ForkGcc, Progress
  <2>2. CASE CompileFails(t)
    BY <1>0, <1>b, <2>2 DEF CompileFails
  <2>3. QED
    BY <1>6, <2>1, <2>2
<1>7. ASSUME NEW t \in Thread, Collect(t) PROVE Goal
  <2>1. PICK c \in Collectable(t) : /\ child' = [child EXCEPT ![c] = "reaped"]
                                    /\ tpc' = [tpc EXCEPT ![t] = IF status[c] = 0 THEN AfterCompile ELSE "finished"]
    BY <1>7 DEF Collect
  <2>2. mpc = "join" /\ t = mi
    BY <1>0, <1>a, <1>7, OneActive DEF Collect
  <2>3. c \in Thread /\ child[c] = "zombie"
    BY <1>0, <2>1, <2>2 DEF Collectable, Progress
  <2>4. tpc[c] = "wait"
    BY <1>a, <2>3 DEF SerialInv
  <2>5. c = t
    BY <1>0, <1>a, <2>2, <2>3, <2>4, OneActive
  <2>6. mpc' = mpc /\ mi' = mi /\ status' = status /\ tpc[t] = "wait"
    BY <1>7 DEF Collect
  <2>7. CASE u = t
    BY <1>0, <2>1, <2>2, <2>3, <2>5, <2>6, <2>7
  <2>8. CASE u # t
    BY <1>0, <1>b, <2>1, <2>2, <2>3, <2>5, <2>6, <2>8
  <2>9. QED
    BY <2>7, <2>8
<1>8. ASSUME NEW t \in Thread, SetI(t) \/ Lock(t) \/ Load(t) \/ Store(t) \/ Unlock(t) PROVE Goal
  <2>1. mpc' = mpc /\ mi' = mi /\ child' = child /\ status' = status
    BY <1>8 DEF SetI, Lock, Load, Store, Unlock
  <2>2. \A v \in Thread : tpc'[v] = tpc[v] \/ (tpc[v] # "wait" /\ tpc'[v] # "compiled")
    BY <1>0, <1>8 DEF SetI, Lock, Load, Store, Unlock
  <2>3. QED
    BY <1>b, <2>1, <2>2
<1>9. ASSUME NEW t \in Thread, ChildStep(t) PROVE Goal
  <2>1. tpc' = tpc /\ mpc' = mpc /\ mi' = mi /\ t \in Unreaped
    BY <1>9 DEF ChildStep, ExecGcc, ExecFails, GccEnds
  <2>2. u \in Unreaped' => u \in Unreaped
    BY <1>0, <1>9 DEF ChildStep, ExecGcc, ExecFails, GccEnds
  <2>3. u \in Succeeded => u \in Succeeded'
    BY <1>0, <1>9 DEF ChildStep, ExecGcc, ExecFails, GccEnds
  <2>4. QED
    BY <1>b, <2>1, <2>2, <2>3
<1>10. CASE UNCHANGED vars
  BY <1>b, <1>10 DEF vars
<1>11. QED
  BY <1>1, <1>2, <1>3, <1>4, <1>5, <1>6, <1>7, <1>8, <1>9, <1>10, <1>12
     DEF Next, MainStep, ThreadStep

LEMMA NextStops == SerialInv /\ [Next]_vars => SerialStopsAtFailure'
<1> SUFFICES ASSUME SerialInv, [Next]_vars, kind' = "serial",
                    NEW c \in Child, child'[c] # "none",
                    NEW u \in Thread, c = Linker \/ u < c
             PROVE  u \in objects' \cup execFailed'
  BY DEF SerialStopsAtFailure, Thread, Child, Linker
<1>0. IInv /\ TypeOK /\ Progress
  BY DEF SerialInv, CountInv, IInv
<1>a. /\ kind = "serial"
      /\ objects \cup execFailed \subseteq objects' \cup execFailed'
  BY DEF Next, MainStep, CreateThread, CreateFails, Join, getcount, CallCompile,
         CompileReturns, CompileReturns0, ForkLink, ForkLinkFails, WaitAll, LinkEnds,
         ThreadStep, SetI, ForkGcc, CompileFails, Collect, Lock, Load, Store,
         Unlock, ChildStep, ExecGcc, ExecFails, GccEnds, vars, mainVars, procVars
<1>b. objects \cup execFailed = Succeeded
  BY DEF SerialInv, CountInv
<1>c. CASE child[c] # "none"
  BY <1>a, <1>c DEF SerialInv, SerialStopsAtFailure, Thread, Child, Linker
<1>1. CASE ForkLink
  <2>1. mpc = "fork"
    BY <1>1 DEF ForkLink
  <2>2. u \in Succeeded
    BY <1>a, <2>1 DEF SerialInv, Passed
  <2>3. QED
    BY <1>a, <1>b, <2>2
<1>2. ASSUME NEW t \in Thread, ForkGcc(t), child[c] = "none" PROVE u \in objects' \cup execFailed'
  <2>1. mpc = "join" /\ t = mi
    BY <1>0, <1>a, <1>2, OneActive DEF ForkGcc
  <2>2. c = t
    BY <1>0, <1>2 DEF ForkGcc, TypeOK, Thread, Child
  <2>3. u < mi
    BY <2>1, <2>2 DEF Thread, Linker
  <2>4. u \in Succeeded
    BY <1>a, <2>1, <2>3 DEF SerialInv, Passed
  <2>5. QED
    BY <1>a, <1>b, <2>4
<1>3. CASE child[c] = "none" /\ ~ ForkLink /\ ~ \E t \in Thread : ForkGcc(t)
  <2>1. child'[c] = "none"
    BY <1>0, <1>3 DEF Next, MainStep, CreateThread, CreateFails, Join, getcount, CallCompile,
         CompileReturns, CompileReturns0, ForkLinkFails, WaitAll, LinkEnds,
         ThreadStep, SetI, CompileFails, Collect, Collectable, Lock, Load, Store,
         Unlock, ChildStep, ExecGcc, ExecFails, GccEnds, vars, procVars, TypeOK
  <2>2. QED
    BY <2>1
<1>4. QED
  BY <1>c, <1>1, <1>2, <1>3

(* makeserial compiles no file, and links nothing, behind one that failed.  *)
THEOREM SerialStops == Spec => []SerialStopsAtFailure
<1>1. Init => SerialInv
  <2> SUFFICES ASSUME Init PROVE SerialInv
    OBVIOUS
  <2>1. \A t \in Thread : ~ Passed(t) /\ t \notin Unreaped
    BY DEF Init, Passed, Unreaped, Thread, Child
  <2>2. SerialStopsAtFailure
    BY DEF Init, SerialStopsAtFailure
  <2>3. QED
    BY <2>1, <2>2, InitCount DEF SerialInv
<1>2. SerialInv /\ [Next]_vars => CountInv'
  <2>1. CountInv /\ [Next]_vars => IInv'
    BY NextType, NextProgress, NextEveryWaiter, NextLinkAfter DEF IInv, CountInv
  <2>2. QED
    BY <2>1, NextLocking, NextSucceeded, NextCounted, NextReported DEF SerialInv, CountInv, IInv
<1>3. SerialInv /\ [Next]_vars => SerialInv'
  BY <1>2, NextPassed, NextStops DEF SerialInv
<1>4. SerialInv => SerialStopsAtFailure
  BY DEF SerialInv
<1>5. QED
  BY <1>1, <1>3, <1>4, PTL DEF Spec

-----------------------------------------------------------------------------
(* makethreadreturn: a 0 in the static i was put there by a thread whose   *)
(* r_wait returned a status 0, or by nobody, before any thread ran.  A      *)
(* thread that main can join has run.                                       *)

SomeSuccess == \E c \in Thread : child[c] = "reaped" /\ status[c] = 0

ZeroInv ==
    /\ IInv
    /\ kind = "return" /\ mpc # "exited" =>
         /\ (\E t \in Thread : tpc[t] \in {"lock", "load", "store", "unlock"}) => SomeSuccess
         /\ i = 0 => SomeSuccess \/ \A t \in Thread : tpc[t] \in {"none", "start"}
         /\ (mpc = "join" /\ mi > 1) \/ mpc \in {"fork", "wait"} =>
              (final = 0 => SomeSuccess)

(* What has been collected stays collected, with its status. *)
LEMMA SuccessStays == IInv /\ SomeSuccess /\ [Next]_vars => SomeSuccess'
<1> SUFFICES ASSUME IInv, [Next]_vars, NEW c \in Thread, child[c] = "reaped", status[c] = 0
             PROVE  child'[c] = "reaped" /\ status'[c] = 0
  BY DEF SomeSuccess
<1> USE DEF IInv, TypeOK, Thread, Child, Linker, mainVars, procVars
<1>1. CASE MainStep \/ LinkEnds
  <2>1. CASE CreateThread \/ CreateFails \/ Join \/ getcount
    BY <2>1 DEF CreateThread, CreateFails, Join, getcount
  <2>2. CASE CallCompile \/ CompileReturns \/ CompileReturns0
    BY <2>2 DEF CallCompile, CompileReturns, CompileReturns0
  <2>3. CASE ForkLink \/ ForkLinkFails \/ LinkEnds
    <3>1. CASE ForkLink
      BY <3>1 DEF ForkLink, Progress
    <3>2. CASE ForkLinkFails
      BY <3>2 DEF ForkLinkFails
    <3>3. CASE LinkEnds
      BY <3>3 DEF LinkEnds
    <3>4. QED
      BY <2>3, <3>1, <3>2, <3>3
  <2>4. CASE WaitAll
    BY <2>4 DEF WaitAll
  <2>5. QED
    BY <1>1, <2>1, <2>2, <2>3, <2>4 DEF MainStep
<1>2. ASSUME NEW t \in Thread, ThreadStep(t) PROVE child'[c] = "reaped" /\ status'[c] = 0
  <2>1. CASE ForkGcc(t)
    BY <2>1 DEF ForkGcc, Progress
  <2>2. CASE Collect(t)
    BY <2>2 DEF Collect, Collectable
  <2>3. CASE SetI(t) \/ CompileFails(t) \/ Lock(t)
    BY <2>3 DEF SetI, CompileFails, Lock
  <2>4. CASE Load(t) \/ Store(t) \/ Unlock(t)
    BY <2>4 DEF Load, Store, Unlock
  <2>5. QED
    BY <1>2, <2>1, <2>2, <2>3, <2>4 DEF ThreadStep
<1>3. ASSUME NEW t \in Thread, ChildStep(t) PROVE child'[c] = "reaped" /\ status'[c] = 0
  BY <1>3 DEF ChildStep, ExecGcc, ExecFails, GccEnds
<1>4. CASE UNCHANGED vars
  BY <1>4 DEF vars
<1>5. QED
  BY <1>1, <1>2, <1>3, <1>4 DEF Next

(* A thread counts, and main has read a 0, only after a success. *)
LEMMA NextZero ==
    ASSUME ZeroInv, [Next]_vars, kind' = "return", mpc' # "exited", ~ SomeSuccess'
    PROVE  /\ \A t \in Thread : tpc'[t] \notin {"lock", "load", "store", "unlock"}
           /\ i' = 0 => \A t \in Thread : tpc'[t] \in {"none", "start"}
           /\ (mpc' = "join" /\ mi' > 1) \/ mpc' \in {"fork", "wait"} => final' # 0
<1> DEFINE Goal == /\ \A t \in Thread : tpc'[t] \notin {"lock", "load", "store", "unlock"}
                   /\ i' = 0 => \A t \in Thread : tpc'[t] \in {"none", "start"}
                   /\ (mpc' = "join" /\ mi' > 1) \/ mpc' \in {"fork", "wait"} => final' # 0
<1>1. IInv /\ TypeOK /\ Progress
  BY DEF ZeroInv, IInv
<1>2. ~ SomeSuccess
  BY <1>1, SuccessStays
<1>3. kind = "return" /\ mpc # "exited"
  BY DEF Next, MainStep, CreateThread, CreateFails, Join, getcount, CallCompile,
         CompileReturns, CompileReturns0, ForkLink, ForkLinkFails, WaitAll, LinkEnds,
         ThreadStep, SetI, ForkGcc, CompileFails, Collect, Lock, Load, Store,
         Unlock, ChildStep, ExecGcc, ExecFails, GccEnds, vars, mainVars
<1>4. /\ \A t \in Thread : tpc[t] \notin {"lock", "load", "store", "unlock"}
      /\ i = 0 => \A t \in Thread : tpc[t] \in {"none", "start"}
      /\ (mpc = "join" /\ mi > 1) \/ mpc \in {"fork", "wait"} => final # 0
  BY <1>2, <1>3 DEF ZeroInv
<1> USE DEF TypeOK, Thread, mainVars, procVars, Goto
<1>5. CASE CreateThread
  BY <1>1, <1>3, <1>4, <1>5 DEF CreateThread, LastThread
<1>6. CASE Join
  BY <1>1, <1>3, <1>4, <1>6 DEF Join, Joined, LastThread
<1>7. CASE ForkLink \/ WaitAll \/ LinkEnds
  BY <1>4, <1>7 DEF ForkLink, WaitAll, LinkEnds, Exit
<1>8. CASE CreateFails \/ ForkLinkFails \/ CallCompile \/ CompileReturns \/ CompileReturns0 \/ getcount
  BY <1>1, <1>3, <1>8 DEF CreateFails, ForkLinkFails, CallCompile, CompileReturns,
                          CompileReturns0, getcount, Exit, Progress
<1>9. ASSUME NEW t \in Thread, Collect(t) PROVE Goal
  <2>1. PICK c \in Collectable(t) : /\ child' = [child EXCEPT ![c] = "reaped"]
                                    /\ tpc' = [tpc EXCEPT ![t] = IF status[c] = 0 THEN AfterCompile ELSE "finished"]
    BY <1>9 DEF Collect
  <2>2. tpc[t] = "wait" /\ UNCHANGED <<mainVars, status, i>>
    BY <1>9 DEF Collect
  <2>3. c \in Thread /\ child[c] = "zombie"
    BY <1>1, <1>3, <2>1, <2>2 DEF Collectable, Progress, Child, Linker
  <2>4. child'[c] = "reaped"
    BY <1>1, <2>1, <2>3 DEF Child
  <2>5. status[c] # 0
    BY <2>2, <2>3, <2>4 DEF SomeSuccess
  <2>6. QED
    BY <1>1, <1>4, <2>1, <2>2, <2>5
<1>10. ASSUME NEW t \in Thread, SetI(t) \/ ForkGcc(t) \/ CompileFails(t) PROVE Goal
  BY <1>1, <1>4, <1>10 DEF SetI, ForkGcc, CompileFails
<1>11. ASSUME NEW t \in Thread, Lock(t) \/ Load(t) \/ Store(t) \/ Unlock(t) PROVE Goal
  BY <1>4, <1>11 DEF Lock, Load, Store, Unlock
<1>12. ASSUME NEW t \in Thread, ChildStep(t) PROVE Goal
  BY <1>4, <1>12 DEF ChildStep, ExecGcc, ExecFails, GccEnds
<1>13. CASE UNCHANGED vars
  BY <1>4, <1>13 DEF vars
<1>14. QED
  BY <1>5, <1>6, <1>7, <1>8, <1>9, <1>10, <1>11, <1>12, <1>13 DEF Next, MainStep, ThreadStep

(* When makethreadreturn links although its last answer was 0, or rather    *)
(* because of it, some compile had succeeded, whichever file's it was.      *)
THEOREM ZeroIsASuccess == Spec => []ZeroHasSuccess
<1>1. Init => ZeroInv
  <2> SUFFICES ASSUME Init PROVE ZeroInv
    OBVIOUS
  <2>1. mpc = "create" /\ \A t \in Thread : tpc[t] = "none"
    BY DEF Init
  <2>2. QED
    BY <2>1, InitInv DEF ZeroInv
<1>2. ZeroInv /\ [Next]_vars => ZeroInv'
  <2>1. ZeroInv /\ [Next]_vars => IInv'
    BY NextType, NextProgress, NextEveryWaiter, NextLinkAfter DEF IInv, ZeroInv
  <2>2. QED
    BY <2>1, NextZero DEF ZeroInv
<1>3. ZeroInv => ZeroHasSuccess
  BY DEF ZeroInv, ZeroHasSuccess, SomeSuccess
<1>4. QED
  BY <1>1, <1>2, <1>3, PTL DEF Spec

-----------------------------------------------------------------------------
(* No run is without end and none stops before main has returned.           *)

(* What is still before main, before a thread and before a child process.   *)
MainLeft ==
    IF mpc = "create" \/ (mpc = "join" /\ kind = "serial") THEN NFiles + 4
    ELSE IF mpc = "join" THEN NFiles - mi + 5
    ELSE IF mpc = "getcount" THEN 4
    ELSE IF mpc = "fork" THEN 3
    ELSE IF mpc = "wait" THEN 2
    ELSE 0

ThreadRank(l) ==
    CASE l = "none" -> 9
      [] l = "start" -> 8
      [] l = "compile" -> 7
      [] l = "wait" -> 6
      [] l = "lock" -> 5
      [] l = "load" -> 4
      [] l = "store" -> 3
      [] l \in {"unlock", "compiled"} -> 2
      [] l = "finished" -> 1
      [] l = "killed" -> 0

ThreadLeft(t) == ThreadRank(tpc[t])

ChildRank(l) ==
    CASE l = "none" -> 4
      [] l = "forked" -> 3
      [] l = "gcc" -> 2
      [] l = "zombie" -> 1
      [] l = "reaped" -> 0

ChildLeft(c) == ChildRank(child[c])

(* It is a natural number everywhere. *)
LeftIsNatural ==
    /\ \A t \in Thread : ThreadLeft(t) \in Nat
    /\ \A c \in Child : ChildLeft(c) \in Nat
    /\ MainLeft \in Nat

(* A step takes something from what is left, and adds nothing anywhere.     *)
NoneGoesBack ==
    /\ MainLeft' <= MainLeft
    /\ \A t \in Thread : ThreadLeft(t)' <= ThreadLeft(t)
    /\ \A c \in Child : ChildLeft(c)' <= ChildLeft(c)

OneGoesOn ==
    \/ MainLeft' < MainLeft
    \/ \E t \in Thread : ThreadLeft(t)' < ThreadLeft(t)
    \/ \E c \in Child : ChildLeft(c)' < ChildLeft(c)

(* The guards of MainStep, of ThreadStep(t), and of ChildStep and LinkEnds. *)
MainCan ==
    \/ mpc \in {"create", "fork"}
    \/ mpc = "join" /\ kind # "serial" /\ Joined /\ (kind = "return" => countlock = 0)
    \/ mpc = "join" /\ kind = "serial" /\ tpc[mi] \in {"compiled", "finished"}
    \/ mpc = "getcount" /\ countlock = 0
    \/ mpc = "wait" /\ (Unreaped = {} \/ \E c \in Child : child[c] = "zombie")

ThreadCan(t) ==
    \/ tpc[t] \in {"start", "compile", "load", "store", "unlock"}
    \/ tpc[t] = "wait" /\ Collectable(t) # {}
    \/ tpc[t] = "lock" /\ LockFree

ChildCan(c) == child[c] = "forked" \/ (c # Linker /\ child[c] = "gcc")

(* Until main has returned, main, a thread or a process can take a step.    *)
NeverStuck ==
    mpc # "exited" =>
        \/ MainCan
        \/ \E t \in Thread : ThreadCan(t)
        \/ \E c \in Child : ChildCan(c)

(* main has still to create the thread, or to compile the file. *)
ToCome(t) ==
    \/ mpc = "create" /\ t >= mi
    \/ mpc = "join" /\ kind = "serial" /\ t # mi

(* Until then no thread is killed, and a thread that is joined was created. *)
Underway ==
    mpc # "exited" =>
      \A t \in Thread :
        /\ tpc[t] # "killed"
        /\ tpc[t] = "compiled" => kind = "serial"
        /\ tpc[t] = "none" => ToCome(t)

LEMMA InitUnderway == Init => Underway
<1> SUFFICES ASSUME Init, NEW t \in Thread
             PROVE  tpc[t] = "none" /\ mpc = "create" /\ t >= mi
  BY DEF Underway, ToCome
<1>1. mi = 1 /\ t >= 1
  BY DEF Init, Thread
<1>2. QED
  BY <1>1 DEF Init

LEMMA NextUnderway == IInv /\ Underway /\ [Next]_vars => Underway'
<1> SUFFICES ASSUME IInv, Underway, [Next]_vars, mpc' # "exited", NEW u \in Thread
             PROVE  /\ tpc'[u] # "killed"
                    /\ tpc'[u] = "compiled" => kind' = "serial"
                    /\ tpc'[u] = "none" => ToCome(u)'
  BY DEF Underway
<1> DEFINE Goal == /\ tpc'[u] # "killed"
                   /\ tpc'[u] = "compiled" => kind' = "serial"
                   /\ tpc'[u] = "none" => ToCome(u)'
<1> USE DEF IInv, TypeOK, Underway, ToCome, Thread, mainVars, procVars, Goto
<1>1. CASE CreateThread
  BY <1>1 DEF CreateThread, LastThread, Progress
<1>2. CASE CreateFails \/ ForkLinkFails \/ CompileReturns0
  BY <1>2 DEF CreateFails, ForkLinkFails, CompileReturns0, Exit
<1>3. CASE Join \/ getcount \/ ForkLink \/ LinkEnds
  BY <1>3 DEF Join, getcount, ForkLink, LinkEnds
<1>4. CASE WaitAll
  BY <1>4 DEF WaitAll, Exit
<1>5. CASE CallCompile
  BY <1>5 DEF CallCompile
<1>6. CASE CompileReturns
  <2>1. mi \in 1 .. NFiles /\ \A t \in Thread : t < mi => tpc[t] = "finished"
    BY <1>6 DEF CompileReturns, Progress
  <2>2. tpc' = [tpc EXCEPT ![mi] = "finished"] /\ kind' = "serial"
    BY <1>6 DEF CompileReturns
  <2>3. \A t \in Thread : t <= mi => tpc'[t] = "finished"
    BY <2>1, <2>2
  <2>4. CASE mi = NFiles
    BY <2>2, <2>3, <2>4
  <2>5. CASE mi # NFiles
    <3>1. mpc' = "create" /\ mi' = mi + 1
      BY <1>6, <2>5 DEF CompileReturns, LastThread
    <3>2. u > mi => u >= mi'
      BY <2>1, <3>1
    <3>3. mpc # "exited" /\ tpc \in [Thread -> {"none", "start", "compile", "wait", "lock", "load", "store",
                                               "unlock", "compiled", "finished", "killed"}]
      BY <1>6 DEF CompileReturns
    <3>5. tpc[u] # "killed"
      BY <3>3
    <3>6. CASE u = mi
      BY <2>2, <3>1, <3>2, <3>3, <3>6
    <3>7. CASE u # mi
      <4>1. tpc'[u] = tpc[u]
        BY <2>2, <3>3, <3>7
      <4>2. u < mi => tpc'[u] = "finished"
        BY <2>3
      <4>3. u > mi \/ u < mi
        BY <2>1, <3>7
      <4>4. QED
        BY <2>2, <3>1, <3>2, <3>5, <4>1, <4>2, <4>3
    <3>4. QED
      BY <3>6, <3>7
  <2>6. QED
    BY <2>4, <2>5
<1>7. ASSUME NEW t \in Thread, ThreadStep(t) PROVE Goal
  <2>1. CASE SetI(t) \/ ForkGcc(t) \/ CompileFails(t)
    BY <2>1 DEF SetI, ForkGcc, CompileFails
  <2>2. CASE Collect(t)
    BY <2>2 DEF Collect, AfterCompile
  <2>3. CASE Lock(t) \/ Load(t) \/ Store(t) \/ Unlock(t)
    BY <2>3 DEF Lock, Load, Store, Unlock
  <2>4. QED
    BY <1>7, <2>1, <2>2, <2>3 DEF ThreadStep
<1>8. ASSUME NEW t \in Thread, ChildStep(t) PROVE Goal
  BY <1>8 DEF ChildStep, ExecGcc, ExecFails, GccEnds
<1>9. CASE UNCHANGED vars
  BY <1>9 DEF vars
<1>10. QED
  BY <1>1, <1>2, <1>3, <1>4, <1>5, <1>6, <1>7, <1>8, <1>9 DEF Next, MainStep

LEMMA UnderwayInvariant == Spec => [](CountInv /\ Underway)
<1>1. CountInv /\ Underway /\ [Next]_vars => Underway'
  BY NextUnderway DEF CountInv
<1>2. QED
  BY <1>1, InitUnderway, CountInvariant, PTL DEF Spec

(* A thread that waits has somebody to wait for: there are as many          *)
(* uncollected children as waiting threads.                                 *)
LEMMA WaiterGoesOn ==
    ASSUME IInv, mpc # "exited", NEW t \in Thread, tpc[t] = "wait"
    PROVE  (\E u \in Thread : ThreadCan(u)) \/ \E c \in Child : ChildCan(c)
<1>1. t \in Waiting /\ Waiting \subseteq Child
  BY DEF Waiting, Thread, Child
<1>2. IsFiniteSet(Waiting) /\ Cardinality(Waiting) # 0
  BY <1>1, ThreadFinite, FS_EmptySet
<1>3. Unreaped \ {Linker} # {}
  BY <1>2, FS_EmptySet DEF IInv, EveryWaiterHasAChild
<1>4. PICK c \in Unreaped : c # Linker
  BY <1>3
<1>5. c \in Child /\ child[c] \in {"forked", "gcc", "zombie"}
  BY <1>4 DEF Unreaped
<1>6. CASE child[c] = "zombie"
  BY <1>5, <1>6 DEF ThreadCan, Collectable
<1>7. QED
  BY <1>4, <1>5, <1>6 DEF ChildCan

(* Who holds the lock lets go of it, and the others need nothing but that   *)
(* or a child: only main is left, which waits for nobody who has not ended. *)
LEMMA SomebodyCan == CountInv /\ Underway => NeverStuck
<1> SUFFICES ASSUME CountInv, Underway, mpc # "exited",
                    \A t \in Thread : ~ ThreadCan(t),
                    \A c \in Child : ~ ChildCan(c)
             PROVE  MainCan
  BY DEF NeverStuck
<1> USE DEF CountInv
<1>1. \A t \in Thread : tpc[t] # "wait"
  BY WaiterGoesOn
<1>2. countlock = 0
  BY DEF Locking, ThreadCan, IInv, TypeOK, Thread
<1>3. \A t \in Thread : tpc[t] \in {"none", "compiled", "finished"}
  BY <1>1, <1>2 DEF ThreadCan, LockFree, Underway, IInv, TypeOK
<1>4. mi \in Thread /\ mpc \in {"create", "join", "getcount", "fork", "wait"}
  BY DEF IInv, TypeOK
<1>5. CASE mpc = "join" /\ kind # "serial"
  BY <1>2, <1>3, <1>4, <1>5 DEF MainCan, Joined, Underway, ToCome
<1>6. CASE mpc = "join" /\ kind = "serial"
  BY <1>3, <1>4, <1>6 DEF MainCan, Underway, ToCome
<1>7. CASE mpc = "wait"
  <2>1. \A c \in Unreaped : c \in Child /\ child[c] \in {"forked", "gcc", "zombie"}
    BY DEF Unreaped
  <2>2. \A c \in Unreaped : child[c] = "zombie"
    BY <2>1 DEF ChildCan, IInv, Progress
  <2>3. QED
    BY <1>7, <2>1, <2>2 DEF MainCan
<1>8. CASE mpc \in {"create", "getcount", "fork"}
  BY <1>2, <1>8 DEF MainCan
<1>9. QED
  BY <1>4, <1>5, <1>6, <1>7, <1>8

(* As long as main has not returned, main, one of its threads or one of its *)
(* processes can go on: the waits for children, the lock and the joins      *)
(* never leave everyone waiting.                                            *)
THEOREM NobodyIsStuck == Spec => []NeverStuck
  BY SomebodyCan, UnderwayInvariant, PTL

LEMMA Ranks ==
    /\ ThreadRank("none") = 9 /\ ThreadRank("start") = 8 /\ ThreadRank("compile") = 7
    /\ ThreadRank("wait") = 6 /\ ThreadRank("lock") = 5 /\ ThreadRank("load") = 4
    /\ ThreadRank("store") = 3 /\ ThreadRank("unlock") = 2 /\ ThreadRank("compiled") = 2
    /\ ThreadRank("finished") = 1 /\ ThreadRank("killed") = 0
    /\ ChildRank("none") = 4 /\ ChildRank("forked") = 3 /\ ChildRank("gcc") = 2
    /\ ChildRank("zombie") = 1 /\ ChildRank("reaped") = 0
  BY DEF ThreadRank, ChildRank

(* A step of one thread, of one process, of main alone. *)
LEMMA RanksAreNumbers ==
    ASSUME TypeOK
    PROVE  LeftIsNatural
<1> USE DEF LeftIsNatural
<1>1. \A t \in Thread : ThreadLeft(t) \in Nat
  BY Ranks DEF TypeOK, ThreadLeft
<1>2. \A c \in Child : ChildLeft(c) \in Nat
  BY Ranks DEF TypeOK, ChildLeft
<1>3. MainLeft \in Nat
  <2>1. mi \in 1 .. NFiles /\ NFiles \in Nat
    BY DEF TypeOK, Thread
  <2>2. mpc \in {"create", "join", "getcount", "fork", "wait", "exited"}
    BY DEF TypeOK
  <2>3. QED
    BY <2>1, <2>2 DEF MainLeft
<1>4. QED
  BY <1>1, <1>2, <1>3

LEMMA MainStays ==
    ASSUME mpc' = mpc, mi' = mi, kind' = kind
    PROVE  MainLeft' = MainLeft
  BY DEF MainLeft

LEMMA ThreadsStay == tpc' = tpc => \A t \in Thread : ThreadLeft(t)' = ThreadLeft(t)
  BY DEF ThreadLeft

LEMMA ChildrenStay == child' = child => \A c \in Child : ChildLeft(c)' = ChildLeft(c)
  BY DEF ChildLeft

LEMMA OneThreadGoes ==
    ASSUME TypeOK, NEW t \in Thread, NEW l, Goto(t, l),
           ThreadRank(l) \in Nat, ThreadRank(l) < ThreadRank(tpc[t])
    PROVE  /\ \A u \in Thread : ThreadLeft(u)' <= ThreadLeft(u)
           /\ ThreadLeft(t)' \in Nat /\ ThreadLeft(t)' < ThreadLeft(t)
<1>1. tpc'[t] = l /\ \A u \in Thread : u # t => tpc'[u] = tpc[u]
  BY DEF Goto, TypeOK
<1>2. ThreadLeft(t)' = ThreadRank(l) /\ \A u \in Thread : u # t => ThreadLeft(u)' = ThreadLeft(u)
  BY <1>1 DEF ThreadLeft
<1>3. QED
  BY <1>2, RanksAreNumbers DEF ThreadLeft, LeftIsNatural

ChildTo(c, l) == child' = [child EXCEPT ![c] = l]

LEMMA OneChildGoes ==
    ASSUME TypeOK, NEW c \in Child, NEW l, ChildTo(c, l),
           ChildRank(l) \in Nat, ChildRank(l) < ChildRank(child[c])
    PROVE  /\ \A d \in Child : ChildLeft(d)' <= ChildLeft(d)
           /\ ChildLeft(c)' < ChildLeft(c)
<1>1. child'[c] = l /\ \A d \in Child : d # c => child'[d] = child[d]
  BY DEF TypeOK, ChildTo
<1>2. ChildLeft(c)' = ChildRank(l) /\ \A d \in Child : d # c => ChildLeft(d)' = ChildLeft(d)
  BY <1>1 DEF ChildLeft
<1>3. QED
  BY <1>2, RanksAreNumbers DEF ChildLeft, LeftIsNatural

(* main returns. *)
LEMMA AllEnd ==
    ASSUME TypeOK, Exit, mpc # "exited"
    PROVE  /\ MainLeft' \in Nat /\ MainLeft' < MainLeft
           /\ \A t \in Thread : ThreadLeft(t)' <= ThreadLeft(t)
<1>1. MainLeft' = 0
  BY DEF Exit, MainLeft
<1>2. MainLeft > 0
  <2>1. mi \in 1 .. NFiles /\ NFiles \in Nat
    BY DEF TypeOK, Thread
  <2>2. mpc \in {"create", "join", "getcount", "fork", "wait"}
    BY DEF TypeOK
  <2>3. QED
    BY <2>1, <2>2 DEF MainLeft
<1>3. ASSUME NEW t \in Thread PROVE ThreadLeft(t)' <= ThreadLeft(t)
  <2>1. tpc'[t] = IF tpc[t] = "finished" THEN "finished" ELSE "killed"
    BY DEF Exit
  <2>2. CASE tpc[t] = "finished"
    BY <2>1, <2>2, RanksAreNumbers DEF ThreadLeft, LeftIsNatural
  <2>3. CASE tpc[t] # "finished"
    BY <2>1, <2>3, Ranks, RanksAreNumbers DEF ThreadLeft, LeftIsNatural
  <2>4. QED
    BY <2>2, <2>3
<1>4. QED
  BY <1>1, <1>2, <1>3

(* Main goes on when it creates or calls for no one, or when it is done.    *)
LEMMA MainGoes ==
    ASSUME IInv, Join \/ getcount \/ ForkLink
    PROVE  MainLeft' \in Nat /\ MainLeft' < MainLeft
<1>1. mi \in 1 .. NFiles /\ NFiles \in Nat /\ NFiles > 0
  BY DEF IInv, TypeOK, Thread
<1>2. CASE Join
  <2>1. MainLeft = NFiles - mi + 5
    BY <1>2 DEF Join, MainLeft
  <2>2. CASE mi < NFiles
    <3>1. mpc' = "join" /\ mi' = mi + 1 /\ kind' # "serial"
      BY <1>1, <1>2, <2>2 DEF Join, LastThread
    <3>2. QED
      BY <1>1, <2>1, <3>1 DEF MainLeft
  <2>3. CASE mi = NFiles
    <3>1. mpc' \in {"getcount", "fork"}
      BY <1>1, <1>2, <2>3 DEF Join, LastThread
    <3>2. QED
      BY <1>1, <2>1, <3>1 DEF MainLeft
  <2>4. QED
    BY <1>1, <2>2, <2>3
<1>3. CASE getcount
  BY <1>3 DEF getcount, MainLeft
<1>4. CASE ForkLink
  BY <1>4 DEF ForkLink, MainLeft
<1>5. QED
  BY <1>2, <1>3, <1>4

(* While main creates or compiles it is as far as before, but not farther   *)
(* away.                                                                    *)
LEMMA MainNotBack ==
    ASSUME IInv, CreateThread \/ CallCompile \/ CompileReturns
    PROVE  MainLeft' \in Nat /\ MainLeft' <= MainLeft
<1>1. mi \in 1 .. NFiles /\ NFiles \in Nat /\ NFiles > 0
  BY DEF IInv, TypeOK, Thread
<1>2. MainLeft = NFiles + 4
  BY DEF CreateThread, CallCompile, CompileReturns, MainLeft
<1>3. CASE CreateThread
  <2>1. \/ mpc' = "create"
        \/ mpc' = "join" /\ mi' = 1 /\ kind' # "serial"
    BY <1>3 DEF CreateThread, LastThread
  <2>2. QED
    BY <1>1, <1>2, <2>1 DEF MainLeft
<1>4. CASE CallCompile
  <2>1. mpc' = "join" /\ kind' = "serial"
    BY <1>4 DEF CallCompile
  <2>2. QED
    BY <1>1, <1>2, <2>1 DEF MainLeft
<1>5. CASE CompileReturns
  <2>1. mpc' \in {"create", "fork"}
    BY <1>5 DEF CompileReturns
  <2>2. QED
    BY <1>1, <1>2, <2>1 DEF MainLeft
<1>6. QED
  BY <1>3, <1>4, <1>5

LEMMA EachStepCounts == IInv /\ [Next]_vars => [NoneGoesBack /\ OneGoesOn]_vars
<1> SUFFICES ASSUME IInv, Next PROVE NoneGoesBack /\ OneGoesOn
  OBVIOUS
<1> DEFINE Goal == NoneGoesBack /\ OneGoesOn
<1>0. TypeOK /\ Progress /\ mi \in Thread /\ Linker \in Child /\ Thread \subseteq Child
  BY DEF IInv, TypeOK, Child
<1>n. /\ \A t \in Thread : ThreadLeft(t) \in Nat
      /\ \A c \in Child : ChildLeft(c) \in Nat
      /\ MainLeft \in Nat
  BY <1>0, RanksAreNumbers DEF LeftIsNatural
<1> USE DEF NoneGoesBack, OneGoesOn
<1>1. CASE CreateThread
  <2>1. tpc[mi] = "none" /\ child' = child
    BY <1>0, <1>1 DEF CreateThread, Progress, procVars, Thread
  <2>2. PICK l \in {"start", "compile"} : Goto(mi, l)
    BY <1>1 DEF CreateThread, Goto
  <2>3. ThreadRank(l) \in Nat /\ ThreadRank(l) < ThreadRank(tpc[mi])
    BY <2>1, <2>2, Ranks
  <2>4. QED
    BY <1>0, <1>1, <1>n, <2>1, <2>2, <2>3, OneThreadGoes, MainNotBack, ChildrenStay
<1>2. CASE CreateFails \/ ForkLinkFails \/ CompileReturns0
  <2>1. child' = child /\ Exit /\ mpc # "exited"
    BY <1>2 DEF CreateFails, ForkLinkFails, CompileReturns0, procVars
  <2>2. QED
    BY <1>0, <1>n, <2>1, AllEnd, ChildrenStay
<1>3. CASE Join \/ getcount
  <2>1. child' = child /\ tpc' = tpc
    BY <1>3 DEF Join, getcount, procVars
  <2>2. QED
    BY <1>3, <1>n, <2>1, MainGoes, ThreadsStay, ChildrenStay
<1>5. CASE ForkLink
  <2>1. child[Linker] = "none" /\ tpc' = tpc /\ ChildTo(Linker, "forked")
    BY <1>0, <1>5 DEF ForkLink, Progress, ChildTo
  <2>2. \A c \in Child : ChildLeft(c)' <= ChildLeft(c)
    BY <1>0, <2>1, Ranks, OneChildGoes
  <2>3. QED
    BY <1>5, <1>n, <2>1, <2>2, MainGoes, ThreadsStay
<1>6. CASE LinkEnds
  <2>1. child[Linker] = "forked" /\ ChildTo(Linker, "zombie")
    BY <1>6 DEF LinkEnds, ChildTo
  <2>2. tpc' = tpc /\ MainLeft' = MainLeft
    BY <1>6, MainStays DEF LinkEnds, mainVars
  <2>3. QED
    BY <1>0, <1>n, <2>1, <2>2, Ranks, OneChildGoes, ThreadsStay
<1>7. CASE WaitAll
  <2>1. CASE Exit /\ child' = child
    BY <1>0, <1>7, <1>n, <2>1, AllEnd, ChildrenStay DEF WaitAll
  <2>2. ASSUME NEW c \in Child, child[c] = "zombie", ChildTo(c, "reaped"),
               mpc' = mpc, tpc' = tpc
        PROVE  Goal
    <3>1. MainLeft' = MainLeft
      BY <1>7, <2>2, MainStays DEF WaitAll
    <3>2. QED
      BY <1>0, <1>n, <2>2, <3>1, Ranks, OneChildGoes, ThreadsStay
  <2>3. QED
    BY <1>7, <2>1, <2>2 DEF WaitAll, ChildTo
<1>8. CASE CallCompile
  <2>1. tpc[mi] = "none" /\ child' = child /\ Goto(mi, "compile")
    BY <1>0, <1>8 DEF CallCompile, Progress, procVars, Thread, Goto
  <2>2. QED
    BY <1>0, <1>8, <1>n, <2>1, Ranks, OneThreadGoes, MainNotBack, ChildrenStay
<1>9. CASE CompileReturns
  <2>1. tpc[mi] = "compiled" /\ child' = child /\ Goto(mi, "finished")
    BY <1>9 DEF CompileReturns, Compiled, procVars, Goto
  <2>2. QED
    BY <1>0, <1>9, <1>n, <2>1, Ranks, OneThreadGoes, MainNotBack, ChildrenStay
<1>10. ASSUME NEW t \in Thread, ThreadStep(t) PROVE Goal
  <2>1. MainLeft' = MainLeft
    BY <1>10, MainStays
       DEF ThreadStep, SetI, ForkGcc, CompileFails, Collect, Lock, Load, Store, Unlock, mainVars
  <2>2. \/ child' = child
        \/ \E c \in Child : \/ child[c] = "none" /\ ChildTo(c, "forked")
                            \/ child[c] = "zombie" /\ ChildTo(c, "reaped")
    <3>1. CASE ForkGcc(t)
      <4>1. t \in Child /\ child[t] = "none"
        BY <1>0, <3>1 DEF ForkGcc, Progress, Thread, Child
      <4>2. ChildTo(t, "forked")
        BY <3>1 DEF ForkGcc, ChildTo
      <4>3. QED
        BY <4>1, <4>2
    <3>2. CASE Collect(t)
      BY <3>2 DEF Collect, Collectable, ChildTo
    <3>3. CASE SetI(t) \/ CompileFails(t) \/ Lock(t) \/ Load(t) \/ Store(t) \/ Unlock(t)
      BY <3>3 DEF SetI, CompileFails, Lock, Load, Store, Unlock, procVars
    <3>4. QED
      BY <1>10, <3>1, <3>2, <3>3 DEF ThreadStep
  <2>3. \A c \in Child : ChildLeft(c)' <= ChildLeft(c)
    BY <1>0, <1>n, <2>2, Ranks, OneChildGoes, ChildrenStay
  <2>4. \E l : /\ Goto(t, l)
              /\ ThreadRank(l) \in Nat /\ ThreadRank(l) < ThreadRank(tpc[t])
    <3>1. CASE SetI(t) \/ ForkGcc(t) \/ CompileFails(t)
      BY <3>1, Ranks DEF SetI, ForkGcc, CompileFails
    <3>2. CASE Collect(t)
      BY <3>2, Ranks DEF Collect, AfterCompile
    <3>3. CASE Lock(t) \/ Load(t) \/ Store(t) \/ Unlock(t)
      BY <3>3, Ranks DEF Lock, Load, Store, Unlock
    <3>4. QED
      BY <1>10, <3>1, <3>2, <3>3 DEF ThreadStep
  <2>5. QED
    BY <1>0, <1>n, <2>1, <2>3, <2>4, OneThreadGoes
<1>14. ASSUME NEW t \in Thread, ChildStep(t) PROVE Goal
  <2>1. MainLeft' = MainLeft /\ tpc' = tpc
    BY <1>14, MainStays DEF ChildStep, ExecGcc, ExecFails, GccEnds, mainVars
  <2>2. \E l : /\ ChildTo(t, l)
              /\ ChildRank(l) \in Nat /\ ChildRank(l) < ChildRank(child[t])
    BY <1>14, Ranks DEF ChildStep, ExecGcc, ExecFails, GccEnds, ChildTo
  <2>3. QED
    BY <1>0, <1>n, <2>1, <2>2, OneChildGoes, ThreadsStay
<1>15. QED
  BY <1>1, <1>2, <1>3, <1>5, <1>6, <1>7, <1>8, <1>9, <1>10, <1>14 DEF Next, MainStep

(* What is left of main, of each thread and of each process is a number     *)
(* that never grows, and every step makes one of them less: no run is       *)
(* without end.                                                             *)
THEOREM StepsRunOut ==
    Spec => []LeftIsNatural /\ [][NoneGoesBack /\ OneGoesOn]_vars
<1>1. IInv => LeftIsNatural
  BY RanksAreNumbers DEF IInv
<1>2. QED
  BY <1>1, EachStepCounts, Invariant, PTL DEF Spec
=============================================================================

---------------------------- MODULE ThreadSort ----------------------------
(***************************************************************************)
(* MultiThreadSortInC/MultiThreadSorting.c: main copies its arguments into *)
(* two halves, two threads sort a half each, main joins both, and a third  *)
(* thread merges the halves back into the whole array.                     *)
(*                                                                         *)
(* Arrays are functions on 0 .. n - 1, as in C.                            *)
(***************************************************************************)
EXTENDS Integers, FiniteSets

CONSTANTS
    Values,            \* the numbers that may be given
    MaxArgs,           \* the greatest number of arguments
    Faults             \* what may fail: "create", for pthread_create

ASSUME ValuesAssumption == Values \subseteq Int
ASSUME MaxArgsAssumption == MaxArgs \in Nat \ {0}

VARIABLES
    args,              \* the numbers given
    mpc,               \* main: "create1", "create2", "join1", "join2", "create3",
                       \* "join3", "printed", "failed"
    num,               \* num[1], num[2]: intFirstHalf and intSecondHalf
    spc,               \* the sorting threads: "none", "sort", "done", "killed"
    si, sj,            \* their loop variables i and j
    intArray,          \* integerArray
    gpc,               \* the merging thread: "none", "merge", "done"
    l, i, j            \* its indices

sortVars == <<num, spc, si, sj>>
mergeVars == <<intArray, gpc, l, i, j>>
vars == <<args, mpc, num, spc, si, sj, intArray, gpc, l, i, j>>

Sorter == {1, 2}

Indices(n) == 0 .. n - 1

(* The number of arguments, and the lengths of the halves. *)
argsLength == Cardinality(DOMAIN args)

amount(t) == IF t = 1 THEN argsLength \div 2 ELSE argsLength - argsLength \div 2

(* main has allocated and filled its arrays. *)
Init ==
    /\ \E n \in 1 .. MaxArgs : args \in [Indices(n) -> Values]
    /\ mpc = "create1"
    /\ num = [t \in Sorter |->
                [k \in Indices(amount(t)) |-> args[IF t = 1 THEN k ELSE k + amount(1)]]]
    /\ spc = [t \in Sorter |-> "none"]
    /\ si = [t \in Sorter |-> 0]
    /\ sj = [t \in Sorter |-> 1]
    /\ intArray = args
    /\ gpc = "none"
    /\ l = 0 /\ i = 0 /\ j = 0

-----------------------------------------------------------------------------
(* main *)

(* main returns and the process ends, whatever its threads do. *)
Fails ==
    /\ mpc' = "failed"
    /\ spc' = [t \in Sorter |-> IF spc[t] = "sort" THEN "killed" ELSE spc[t]]
    /\ UNCHANGED <<args, num, si, sj, mergeVars>>

CreateSorter(t) ==
    /\ mpc = IF t = 1 THEN "create1" ELSE "create2"
    /\ spc' = [spc EXCEPT ![t] = "sort"]
    /\ mpc' = IF t = 1 THEN "create2" ELSE "join1"
    /\ UNCHANGED <<args, num, si, sj, mergeVars>>

(* Mutant: the second half is not waited for. *)
JoinSorter_First(t) ==
    /\ mpc = IF t = 1 THEN "join1" ELSE "join2"
    /\ spc[1] = "done"
    /\ mpc' = IF t = 1 THEN "join2" ELSE "create3"
    /\ UNCHANGED <<args, sortVars, mergeVars>>

JoinSorter(t) ==
    /\ mpc = IF t = 1 THEN "join1" ELSE "join2"
    /\ spc[t] = "done"
    /\ mpc' = IF t = 1 THEN "join2" ELSE "create3"
    /\ UNCHANGED <<args, sortVars, mergeVars>>

LastIndex == argsLength - 1

CreateMerger ==
    /\ mpc = "create3"
    /\ gpc' = "merge"
    /\ l' = LastIndex
    /\ i' = amount(1) - 1
    /\ j' = amount(2) - 1
    /\ mpc' = "join3"
    /\ UNCHANGED <<args, sortVars, intArray>>

CreateFails ==
    /\ mpc \in {"create1", "create2", "create3"}
    /\ "create" \in Faults
    /\ Fails

JoinMerger ==
    /\ mpc = "join3"
    /\ gpc = "done"
    /\ mpc' = "printed"
    /\ UNCHANGED <<args, sortVars, mergeVars>>

-----------------------------------------------------------------------------
(* SortingThread, in thread t. *)

Swapped(a, p, q) == [a EXCEPT ![p] = a[q], ![q] = a[p]]

(* Mutant: the outer loop ends one element early. *)
InOuterLoop_Early(t) == si[t] < amount(t) - 2

InOuterLoop(t) == si[t] < amount(t) - 1

(* One turn of the inner loop. *)
Compare(t) ==
    /\ spc[t] = "sort"
    /\ InOuterLoop(t)
    /\ sj[t] < amount(t)
    /\ num' = [num EXCEPT ![t] = IF @[si[t]] > @[sj[t]] THEN Swapped(@, si[t], sj[t]) ELSE @]
    /\ sj' = [sj EXCEPT ![t] = @ + 1]
    /\ UNCHANGED <<args, mpc, spc, si, mergeVars>>

(* Mutant: i is not incremented. *)
NextRow_Same(t) ==
    /\ spc[t] = "sort"
    /\ InOuterLoop(t)
    /\ sj[t] >= amount(t)
    /\ sj' = [sj EXCEPT ![t] = si[t] + 1]
    /\ UNCHANGED <<args, mpc, num, spc, si, mergeVars>>

(* The next turn of the outer loop. *)
NextRow(t) ==
    /\ spc[t] = "sort"
    /\ InOuterLoop(t)
    /\ sj[t] >= amount(t)
    /\ si' = [si EXCEPT ![t] = @ + 1]
    /\ sj' = [sj EXCEPT ![t] = si[t] + 2]
    /\ UNCHANGED <<args, mpc, num, spc, mergeVars>>

SorterReturns(t) ==
    /\ spc[t] = "sort"
    /\ ~ InOuterLoop(t)
    /\ spc' = [spc EXCEPT ![t] = "done"]
    /\ UNCHANGED <<args, mpc, num, si, sj, mergeVars>>

-----------------------------------------------------------------------------
(* MergeTwoItems *)

(* Mutant: what is left of the first half is not copied. *)
TakesFirst_WhileBoth == i >= 0 /\ j >= 0 /\ num[1][i] > num[2][j]

(* The element stored next is the first half's. *)
TakesFirst == i >= 0 /\ (j >= 0 => num[1][i] > num[2][j])

TakesSecond == j >= 0 /\ (i >= 0 => num[1][i] <= num[2][j])

MergeFirst ==
    /\ gpc = "merge"
    /\ TakesFirst
    /\ intArray' = [intArray EXCEPT ![l] = num[1][i]]
    /\ i' = i - 1
    /\ l' = l - 1
    /\ UNCHANGED <<args, mpc, sortVars, gpc, j>>

MergeSecond ==
    /\ gpc = "merge"
    /\ TakesSecond
    /\ intArray' = [intArray EXCEPT ![l] = num[2][j]]
    /\ j' = j - 1
    /\ l' = l - 1
    /\ UNCHANGED <<args, mpc, sortVars, gpc, i>>

MergerReturns ==
    /\ gpc = "merge"
    /\ ~ TakesFirst /\ ~ TakesSecond
    /\ gpc' = "done"
    /\ UNCHANGED <<args, mpc, sortVars, intArray, l, i, j>>

MainStep ==
    \/ \E t \in Sorter : CreateSorter(t) \/ JoinSorter(t)
    \/ CreateMerger \/ CreateFails \/ JoinMerger

SorterStep(t) == Compare(t) \/ NextRow(t) \/ SorterReturns(t)

MergerStep == MergeFirst \/ MergeSecond \/ MergerReturns

Next == MainStep \/ (\E t \in Sorter : SorterStep(t)) \/ MergerStep

(* The kernel schedules main and the threads. *)
Spec ==
    /\ Init
    /\ [][Next]_vars
    /\ WF_vars(MainStep)
    /\ WF_vars(MergerStep)
    /\ \A t \in Sorter : WF_vars(SorterStep(t))

-----------------------------------------------------------------------------
Sorted(a, n) == \A p, q \in Indices(n) : p <= q => a[p] <= a[q]

Occurrences(a, n, v) == Cardinality({k \in Indices(n) : a[k] = v})

TypeOK ==
    /\ mpc \in {"create1", "create2", "join1", "join2", "create3", "join3", "printed", "failed"}
    /\ \A t \in Sorter : num[t] \in [Indices(amount(t)) -> Int]
    /\ spc \in [Sorter -> {"none", "sort", "done", "killed"}]
    /\ si \in [Sorter -> Nat] /\ sj \in [Sorter -> Nat]
    /\ intArray \in [Indices(argsLength) -> Int]
    /\ gpc \in {"none", "merge", "done"}
    /\ l \in Int /\ i \in Int /\ j \in Int

(* The merging thread and a sorting thread never use a half at once, and     *)
(* the merge begins on two sorted halves.                                    *)
MergesSortedHalves ==
    gpc # "none" => \A t \in Sorter : spc[t] = "done" /\ Sorted(num[t], amount(t))

(* Each store of the merge is into the array, and leaves as many cells below *)
(* it as there are numbers still to be stored: the last store is at 0.       *)
MergeFits == gpc # "none" => l = i + j + 1 /\ l < argsLength /\ l >= -1

(* Nothing but the two joins keeps the merge from halves that are not ready, *)
(* and nothing but its three indices keeps it inside the array.             *)
MergeSafe == MergesSortedHalves /\ MergeFits

(* What main prints is sorted, ...                                           *)
PrintsSorted == mpc = "printed" => Sorted(intArray, argsLength)

(* ... and has every number as often as the arguments have it.               *)
PrintsArguments ==
    mpc = "printed" =>
      \A v \in Values : Occurrences(intArray, argsLength, v) = Occurrences(args, argsLength, v)

(* main returns: both loops of each thread end.                              *)
Returns == <>(mpc \in {"printed", "failed"})
=============================================================================

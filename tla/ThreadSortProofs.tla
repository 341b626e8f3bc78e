-------------------------- MODULE ThreadSortProofs --------------------------
(***************************************************************************)
(* Proofs about ThreadSort, for any number of any integers: the merge      *)
(* begins on sorted halves, and what main prints is sorted and has every   *)
(* number as often as the arguments have it; until then some thread can    *)
(* take a step, and the steps run out.                                     *)
(***************************************************************************)
EXTENDS ThreadSort, FiniteSetTheorems, FunctionTheorems, TLAPS

USE ValuesAssumption, MaxArgsAssumption

(* The types, with what the lengths of the halves are. *)
TypeInv ==
    /\ argsLength \in Nat \ {0}
    /\ mpc \in {"create1", "create2", "join1", "join2", "create3", "join3", "printed", "failed"}
    /\ num \in [Sorter -> UNION {[Indices(n) -> Int] : n \in Nat}]
    /\ \A t \in Sorter : num[t] \in [Indices(amount(t)) -> Int]
    /\ spc \in [Sorter -> {"none", "sort", "done", "killed"}]
    /\ si \in [Sorter -> Nat]
    /\ sj \in [Sorter -> Nat]
    /\ intArray \in [Indices(argsLength) -> Int]
    /\ gpc \in {"none", "merge", "done"}
    /\ l \in Int /\ i \in Int /\ j \in Int

(* Which threads main has created and joined. *)
Joins ==
    /\ mpc = "create1" => spc[1] = "none"
    /\ mpc \in {"create1", "create2"} => spc[2] = "none"
    /\ mpc \in {"join2", "create3", "join3", "printed"} => spc[1] = "done"
    /\ mpc \in {"create3", "join3", "printed"} => spc[2] = "done"
    /\ mpc \notin {"join3", "printed"} => gpc = "none"
    /\ mpc = "printed" => gpc = "done"

(* The elements below si are in their places, and element si is the least   *)
(* of those compared with it.                                               *)
Placed(t) ==
    \A p, q \in Indices(amount(t)) : p < si[t] /\ p < q => num[t][p] <= num[t][q]

Least(t) ==
    \A q \in Indices(amount(t)) : si[t] < q /\ q < sj[t] => num[t][si[t]] <= num[t][q]

Sorting(t) ==
    /\ spc[t] = "none" => si[t] = 0 /\ sj[t] = 1
    /\ spc[t] = "sort" =>
         /\ Placed(t)
         /\ InOuterLoop(t) => si[t] < sj[t] /\ sj[t] <= amount(t) /\ Least(t)
    /\ spc[t] = "done" => Sorted(num[t], amount(t))

(* The cells above l are sorted and not less than anything still to come. *)
Merged ==
    /\ \A p, q \in Indices(argsLength) : l < p /\ p <= q => intArray[p] <= intArray[q]
    /\ \A p \in Indices(argsLength), k \in Indices(amount(1)) :
         l < p /\ k <= i => num[1][k] <= intArray[p]
    /\ \A p \in Indices(argsLength), k \in Indices(amount(2)) :
         l < p /\ k <= j => num[2][k] <= intArray[p]

Merging ==
    gpc # "none" =>
      /\ l = i + j + 1
      /\ -1 <= i /\ i < amount(1)
      /\ -1 <= j /\ j < amount(2)
      /\ Merged
      /\ gpc = "done" => l = -1

IInv == TypeInv /\ Joins /\ (\A t \in Sorter : Sorting(t)) /\ Merging

LEMMA Amounts ==
    ASSUME argsLength \in Nat \ {0}
    PROVE  /\ \A t \in Sorter : amount(t) \in Nat
           /\ amount(1) + amount(2) = argsLength
  BY DEF amount, Sorter

LEMMA SameArgs ==
    ASSUME args' = args
    PROVE  argsLength' = argsLength /\ \A t \in Sorter : amount(t)' = amount(t)
  BY DEF argsLength, amount

LEMMA ArgsConstant == [Next]_vars => args' = args
  BY DEF Next, MainStep, CreateSorter, JoinSorter, CreateMerger, CreateFails, Fails, JoinMerger,
         SorterStep, Compare, NextRow, SorterReturns, MergerStep, MergeFirst, MergeSecond,
         MergerReturns, vars

LEMMA InitInv == Init => IInv
<1> SUFFICES ASSUME Init PROVE IInv
  OBVIOUS
<1>1. PICK n \in 1 .. MaxArgs : args \in [Indices(n) -> Values]
  BY DEF Init
<1>2. argsLength = n /\ n \in Nat \ {0}
  BY <1>1, FS_Interval DEF argsLength, Indices
<1>3. args \in [Indices(argsLength) -> Int]
  BY <1>1, <1>2
<1>4. \A t \in Sorter : amount(t) \in Nat
  BY <1>2, Amounts
<1>5. \A t \in Sorter : num[t] \in [Indices(amount(t)) -> Int]
  <2> SUFFICES ASSUME NEW t \in Sorter, NEW k \in Indices(amount(t))
               PROVE  (IF t = 1 THEN k ELSE k + amount(1)) \in Indices(argsLength)
    BY <1>3 DEF Init
  <2>1. QED
    BY <1>2, <1>4, Amounts DEF Indices, Sorter
<1>6. TypeInv
  <2>1. num \in [Sorter -> UNION {[Indices(n1) -> Int] : n1 \in Nat}]
    BY <1>4, <1>5 DEF Init
  <2>2. QED
    BY <1>2, <1>3, <1>5, <2>1 DEF TypeInv, Init
<1>7. Joins /\ Merging /\ \A t \in Sorter : Sorting(t)
  BY DEF Init, Joins, Merging, Sorting, Sorter
<1>8. QED
  BY <1>6, <1>7 DEF IInv

(* One turn of the inner loop leaves a half of the same length, in order    *)
(* below si, with the least so far at si.                                   *)
LEMMA CompareHalf ==
    ASSUME TypeInv, NEW t \in Sorter, Sorting(t), Compare(t)
    PROVE  /\ num'[t] \in [Indices(amount(t)) -> Int]
           /\ \A u \in Sorter : u # t => num'[u] = num[u]
           /\ \A p, q \in Indices(amount(t)) :
                p < si[t] /\ p < q => num'[t][p] <= num'[t][q]
           /\ \A q \in Indices(amount(t)) :
                si[t] < q /\ q < sj[t] + 1 => num'[t][si[t]] <= num'[t][q]
<1> DEFINE a == num[t]
           b == num'[t]
           m == amount(t)
           x == si[t]
           y == sj[t]
<1>1. /\ m \in Nat /\ x \in Nat /\ y \in Nat /\ a \in [Indices(m) -> Int]
  BY Amounts DEF TypeInv
<1>2. x < y /\ y < m /\ x < m - 1
  BY DEF Compare, Sorting, InOuterLoop
<1>3. x \in Indices(m) /\ y \in Indices(m)
  BY <1>1, <1>2 DEF Indices
<1>4. /\ \A p, q \in Indices(m) : p < x /\ p < q => a[p] <= a[q]
      /\ \A q \in Indices(m) : x < q /\ q < y => a[x] <= a[q]
  BY DEF Compare, Sorting, Placed, Least
<1>5. /\ b = IF a[x] > a[y] THEN Swapped(a, x, y) ELSE a
      /\ \A u \in Sorter : u # t => num'[u] = num[u]
  BY DEF Compare, TypeInv
<1> HIDE DEF a, b, m, x, y
<1>6. CASE a[x] > a[y]
  <2>1. b = [a EXCEPT ![x] = a[y], ![y] = a[x]]
    BY <1>5, <1>6 DEF Swapped
  <2>2. b \in [Indices(m) -> Int] /\ b[x] = a[y] /\ b[y] = a[x]
    BY <1>1, <1>2, <1>3, <2>1
  <2>3. \A k \in Indices(m) : k # x /\ k # y => b[k] = a[k]
    BY <1>1, <2>1
  <2>4. ASSUME NEW p \in Indices(m), NEW q \in Indices(m), p < x, p < q PROVE b[p] <= b[q]
    <3>1. b[p] = a[p] /\ a[p] <= a[q] /\ a[p] <= a[x] /\ a[p] <= a[y]
      BY <1>1, <1>2, <1>3, <1>4, <2>3, <2>4 DEF Indices
    <3>2. QED
      BY <2>2, <2>3, <3>1
  <2>5. ASSUME NEW q \in Indices(m), x < q, q < y + 1 PROVE b[x] <= b[q]
    <3>1. CASE q = y
      BY <1>1, <1>3, <1>6, <2>2, <3>1
    <3>2. CASE q < y
      <4>1. b[q] = a[q] /\ a[x] <= a[q]
        BY <1>1, <1>4, <2>3, <2>5, <3>2 DEF Indices
      <4>2. QED
        BY <1>1, <1>3, <1>6, <2>2, <4>1
    <3>3. QED
      BY <1>1, <2>5, <3>1, <3>2 DEF Indices
  <2>6. QED
    BY <1>5, <2>2, <2>4, <2>5 DEF b, m, x, y
<1>7. CASE ~ (a[x] > a[y])
  <2>1. b = a
    BY <1>5, <1>7
  <2>2. a[x] <= a[y]
    BY <1>1, <1>3, <1>7
  <2>3. \A q \in Indices(m) : x < q /\ q < y + 1 => a[x] <= a[q]
    BY <1>1, <1>4, <2>2 DEF Indices
  <2>4. QED
    BY <1>1, <1>4, <1>5, <2>1, <2>3 DEF a, b, m, x, y
<1>8. QED
  BY <1>6, <1>7

(* A store of an integer leaves an array of integers, of the same length.   *)
LEMMA StoreType ==
    ASSUME NEW S, NEW a \in [S -> Int], NEW m, NEW v \in Int
    PROVE  [a EXCEPT ![m] = v] \in [S -> Int]
  OBVIOUS

LEMMA NextType == IInv /\ [Next]_vars => TypeInv'
<1> SUFFICES ASSUME IInv, [Next]_vars PROVE TypeInv'
  OBVIOUS
<1>1. /\ argsLength' = argsLength /\ argsLength \in Nat
      /\ \A t \in Sorter : amount(t)' = amount(t) /\ amount(t) \in Nat
  BY ArgsConstant, SameArgs, Amounts DEF IInv, TypeInv
<1> USE DEF IInv, TypeInv, sortVars, mergeVars
<1>2. ASSUME NEW t \in Sorter, CreateSorter(t) \/ JoinSorter(t) PROVE TypeInv'
  BY <1>1, <1>2 DEF CreateSorter, JoinSorter
<1>3. CASE CreateMerger
  BY <1>1, <1>3 DEF CreateMerger, LastIndex, Sorter
<1>4. CASE CreateFails \/ JoinMerger
  BY <1>1, <1>4 DEF CreateFails, Fails, JoinMerger
<1>5. ASSUME NEW t \in Sorter, Compare(t) PROVE TypeInv'
  <2>1. num' \in [Sorter -> UNION {[Indices(n) -> Int] : n \in Nat}]
    <3>1. num' = [num EXCEPT ![t] = num'[t]]
      BY <1>5 DEF Compare
    <3>2. num'[t] \in [Indices(amount(t)) -> Int]
      BY <1>5, CompareHalf
    <3>3. QED
      BY <1>1, <3>1, <3>2
  <2>2. \A u \in Sorter : num'[u] \in [Indices(amount(u)) -> Int]
    BY <1>5, CompareHalf
  <2>3. QED
    BY <1>1, <1>5, <2>1, <2>2 DEF Compare
<1>6. ASSUME NEW t \in Sorter, NextRow(t) \/ SorterReturns(t) PROVE TypeInv'
  BY <1>1, <1>6 DEF NextRow, SorterReturns
<1>7. CASE MergeFirst
  <2>1. i \in Indices(amount(1)) /\ 1 \in Sorter
    BY <1>1, <1>7 DEF MergeFirst, TakesFirst, Merging, Sorter, Indices
  <2>2. num[1][i] \in Int
    BY <2>1
  <2>3. intArray' \in [Indices(argsLength) -> Int] /\ l' \in Int /\ i' \in Int
    <3>1. intArray' = [intArray EXCEPT ![l] = num[1][i]] /\ l' = l - 1 /\ i' = i - 1
      BY <1>7 DEF MergeFirst
    <3>2. intArray \in [Indices(argsLength) -> Int] /\ l \in Int /\ i \in Int
      OBVIOUS
    <3>3. QED
      BY <2>2, <3>1, <3>2, StoreType
  <2>4. QED
    BY <1>1, <1>7, <2>3 DEF MergeFirst
<1>8. CASE MergeSecond
  <2>1. j \in Indices(amount(2)) /\ 2 \in Sorter
    BY <1>1, <1>8 DEF MergeSecond, TakesSecond, Merging, Sorter, Indices
  <2>2. num[2][j] \in Int
    BY <2>1
  <2>3. intArray' \in [Indices(argsLength) -> Int] /\ l' \in Int /\ j' \in Int
    <3>1. intArray' = [intArray EXCEPT ![l] = num[2][j]] /\ l' = l - 1 /\ j' = j - 1
      BY <1>8 DEF MergeSecond
    <3>2. intArray \in [Indices(argsLength) -> Int] /\ l \in Int /\ j \in Int
      OBVIOUS
    <3>3. QED
      BY <2>2, <3>1, <3>2, StoreType
  <2>4. QED
    BY <1>1, <1>8, <2>3 DEF MergeSecond
<1>9. CASE MergerReturns
  BY <1>1, <1>9 DEF MergerReturns
<1>10. CASE UNCHANGED vars
  BY <1>1, <1>10 DEF vars
<1>11. QED
  BY <1>2, <1>3, <1>4, <1>5, <1>6, <1>7, <1>8, <1>9, <1>10
     DEF Next, MainStep, SorterStep, MergerStep

LEMMA NextJoins == IInv /\ [Next]_vars => Joins'
<1> SUFFICES ASSUME IInv, [Next]_vars PROVE Joins'
  OBVIOUS
<1> USE DEF IInv, TypeInv, Joins, Sorter, sortVars, mergeVars
<1>1. ASSUME NEW t \in Sorter, CreateSorter(t) \/ JoinSorter(t) PROVE Joins'
  BY <1>1 DEF CreateSorter, JoinSorter
<1>2. CASE CreateMerger \/ CreateFails \/ JoinMerger
  BY <1>2 DEF CreateMerger, CreateFails, Fails, JoinMerger
<1>3. ASSUME NEW t \in Sorter, SorterStep(t) PROVE Joins'
  BY <1>3 DEF SorterStep, Compare, NextRow, SorterReturns
<1>4. CASE MergerStep \/ UNCHANGED vars
  BY <1>4 DEF MergerStep, MergeFirst, MergeSecond, MergerReturns, vars
<1>5. QED
  BY <1>1, <1>2, <1>3, <1>4 DEF Next, MainStep

LEMMA NextSorting == IInv /\ [Next]_vars => \A t \in Sorter : Sorting(t)'
<1> SUFFICES ASSUME IInv, [Next]_vars, NEW u \in Sorter PROVE Sorting(u)'
  OBVIOUS
<1>1. /\ amount(u)' = amount(u) /\ amount(u) \in Nat
      /\ num[u] \in [Indices(amount(u)) -> Int]
      /\ si[u] \in Nat /\ sj[u] \in Nat
  BY ArgsConstant, SameArgs, Amounts DEF IInv, TypeInv
<1>2. Sorting(u)
  BY DEF IInv
<1> USE DEF Sorting, Placed, Least, InOuterLoop
<1>3. ASSUME num'[u] = num[u], si'[u] = si[u], sj'[u] = sj[u],
             spc'[u] \in {spc[u], "killed"}
      PROVE  Sorting(u)'
  BY <1>1, <1>2, <1>3 DEF Sorted
<1>4. ASSUME NEW t \in Sorter, CreateSorter(t) PROVE Sorting(u)'
  <2>1. CASE t = u
    <3>1. spc[u] = "none" /\ num' = num /\ si' = si /\ sj' = sj
      BY <1>4, <2>1 DEF CreateSorter, IInv, Joins, Sorter, sortVars
    <3>2. spc'[u] = "sort"
      BY <1>4, <2>1 DEF CreateSorter, IInv, TypeInv
    <3>3. QED
      BY <1>1, <1>2, <3>1, <3>2 DEF Indices
  <2>2. CASE t # u
    BY <1>3, <1>4, <2>2 DEF CreateSorter, IInv, TypeInv
  <2>3. QED
    BY <2>1, <2>2
<1>5. ASSUME NEW t \in Sorter, JoinSorter(t) PROVE Sorting(u)'
  BY <1>3, <1>5 DEF JoinSorter, sortVars
<1>6. CASE CreateMerger \/ JoinMerger \/ MergerStep
  BY <1>3, <1>6
     DEF CreateMerger, JoinMerger, MergerStep, MergeFirst, MergeSecond, MergerReturns, sortVars
<1>7. CASE CreateFails
  BY <1>3, <1>7 DEF CreateFails, Fails
<1>8. ASSUME NEW t \in Sorter, t # u, SorterStep(t) PROVE Sorting(u)'
  BY <1>3, <1>8 DEF SorterStep, Compare, NextRow, SorterReturns, IInv, TypeInv
<1>9. CASE Compare(u)
  <2>1. /\ \A p, q \in Indices(amount(u)) :
              p < si[u] /\ p < q => num'[u][p] <= num'[u][q]
        /\ \A q \in Indices(amount(u)) :
              si[u] < q /\ q < sj[u] + 1 => num'[u][si[u]] <= num'[u][q]
    BY <1>2, <1>9, CompareHalf DEF IInv
  <2>2. /\ si' = si /\ spc' = spc /\ sj'[u] = sj[u] + 1 /\ sj[u] < amount(u)
        /\ spc[u] = "sort" /\ si[u] < sj[u]
    BY <1>2, <1>9 DEF Compare, IInv, TypeInv
  <2>3. QED
    BY <1>1, <2>1, <2>2
<1>10. CASE NextRow(u)
  <2>1. /\ num' = num /\ spc' = spc /\ spc[u] = "sort"
        /\ si'[u] = si[u] + 1 /\ sj'[u] = si[u] + 2
        /\ si[u] < amount(u) - 1 /\ sj[u] >= amount(u)
    BY <1>10 DEF NextRow, IInv, TypeInv
  <2>2. \A p, q \in Indices(amount(u)) : p < si[u] + 1 /\ p < q => num[u][p] <= num[u][q]
    BY <1>1, <1>2, <2>1 DEF Indices
  <2>3. QED
    BY <1>1, <2>1, <2>2 DEF Indices
<1>11. CASE SorterReturns(u)
  <2>1. num' = num /\ spc'[u] = "done" /\ spc[u] = "sort" /\ ~ (si[u] < amount(u) - 1)
    BY <1>11 DEF SorterReturns, IInv, TypeInv
  <2>2. ASSUME NEW p \in Indices(amount(u)), NEW q \in Indices(amount(u)), p <= q
        PROVE  num[u][p] <= num[u][q]
    <3>1. CASE p = q
      <4>1. num[u][p] \in Int
        BY <1>1
      <4>2. QED
        BY <3>1, <4>1
    <3>2. CASE p < q
      <4>1. p < si[u]
        BY <1>1, <2>1, <3>2 DEF Indices
      <4>2. QED
        BY <1>2, <2>1, <3>2, <4>1
    <3>3. QED
      BY <1>1, <2>2, <3>1, <3>2 DEF Indices
  <2>3. QED
    BY <1>1, <2>1, <2>2 DEF Sorted
<1>12. CASE UNCHANGED vars
  BY <1>3, <1>12 DEF vars
<1>13. QED
  BY <1>4, <1>5, <1>6, <1>7, <1>8, <1>9, <1>10, <1>11, <1>12 DEF Next, MainStep, SorterStep

(* A store at l of a value v leaves the cells above l - 1 sorted, when v is  *)
(* not greater than what is stored above l.                                  *)
LEMMA StoreSorted ==
    ASSUME NEW n \in Nat, NEW a \in [Indices(n) -> Int], NEW m \in Indices(n), NEW v \in Int,
           \A p, q \in Indices(n) : m < p /\ p <= q => a[p] <= a[q],
           \A p \in Indices(n) : m < p => v <= a[p],
           NEW b, b = [a EXCEPT ![m] = v]
    PROVE  /\ \A p, q \in Indices(n) : m - 1 < p /\ p <= q => b[p] <= b[q]
           /\ b[m] = v
           /\ \A p \in Indices(n) : p # m => b[p] = a[p]
<1>1. b[m] = v /\ \A p \in Indices(n) : p # m => b[p] = a[p]
  OBVIOUS
<1>2. ASSUME NEW p \in Indices(n), NEW q \in Indices(n), m - 1 < p, p <= q PROVE b[p] <= b[q]
  <2>1. CASE q = m
    BY <1>1, <1>2, <2>1 DEF Indices
  <2>2. CASE q # m /\ p = m
    BY <1>1, <1>2, <2>2 DEF Indices
  <2>3. CASE q # m /\ p # m
    BY <1>1, <1>2, <2>3 DEF Indices
  <2>4. QED
    BY <2>1, <2>2, <2>3
<1>3. QED
  BY <1>1, <1>2

LEMMA NextMerging == IInv /\ [Next]_vars => Merging'
<1> SUFFICES ASSUME IInv, [Next]_vars PROVE Merging'
  OBVIOUS
<1>1. /\ argsLength' = argsLength /\ argsLength \in Nat \ {0}
      /\ amount(1)' = amount(1) /\ amount(1) \in Nat
      /\ amount(2)' = amount(2) /\ amount(2) \in Nat
      /\ amount(1) + amount(2) = argsLength
  BY ArgsConstant, SameArgs, Amounts DEF IInv, TypeInv, Sorter
<1>2. /\ num[1] \in [Indices(amount(1)) -> Int]
      /\ num[2] \in [Indices(amount(2)) -> Int]
      /\ intArray \in [Indices(argsLength) -> Int]
      /\ i \in Int /\ j \in Int /\ l \in Int
  BY DEF IInv, TypeInv, Sorter
<1>3. ASSUME UNCHANGED <<num, intArray, gpc, l, i, j>> PROVE Merging'
  BY <1>1, <1>3 DEF IInv, Merging, Merged
<1>4. gpc # "none" =>
        /\ spc[1] = "done" /\ spc[2] = "done"
        /\ Sorted(num[1], amount(1)) /\ Sorted(num[2], amount(2))
  BY DEF IInv, TypeInv, Joins, Sorting, Sorter
<1>5. ASSUME NEW t \in Sorter, CreateSorter(t) \/ JoinSorter(t) PROVE Merging'
  BY <1>3, <1>5 DEF CreateSorter, JoinSorter, sortVars, mergeVars
<1>6. CASE CreateMerger
  <2>1. gpc' = "merge" /\ l' = argsLength - 1 /\ i' = amount(1) - 1 /\ j' = amount(2) - 1
    BY <1>6 DEF CreateMerger, LastIndex
  <2>2. Merged'
    BY <1>1, <2>1 DEF Merged, Indices
  <2>3. QED
    BY <1>1, <2>1, <2>2 DEF Merging
<1>7. CASE CreateFails \/ JoinMerger
  BY <1>3, <1>7 DEF CreateFails, Fails, JoinMerger, sortVars, mergeVars
<1>8. ASSUME NEW t \in Sorter, SorterStep(t) PROVE Merging'
  <2>1. gpc = "none" /\ gpc' = gpc
    BY <1>4, <1>8
       DEF SorterStep, Compare, NextRow, SorterReturns, mergeVars, IInv, TypeInv, Sorter
  <2>2. QED
    BY <2>1 DEF Merging
<1>9. CASE MergeFirst
  <2>1. /\ gpc = "merge" /\ gpc' = gpc /\ num' = num /\ j' = j
        /\ i >= 0 /\ i' = i - 1 /\ l' = l - 1
        /\ l = i + j + 1 /\ i < amount(1) /\ -1 <= j /\ j < amount(2)
        /\ j >= 0 => num[1][i] > num[2][j]
        /\ Merged
    BY <1>2, <1>9 DEF MergeFirst, TakesFirst, sortVars, IInv, Merging
  <2>2. i \in Indices(amount(1)) /\ l \in Indices(argsLength) /\ num[1][i] \in Int
    <3>1. i \in Indices(amount(1)) /\ l \in Indices(argsLength)
      <4>1. i \in 0 .. amount(1) - 1
        BY <1>1, <1>2, <2>1
      <4>2. l \in 0 .. argsLength - 1
        BY <1>1, <1>2, <2>1
      <4>3. QED
        BY <4>1, <4>2 DEF Indices
    <3>2. QED
      BY <1>2, <3>1
  <2> DEFINE v == num[1][i]
  <2>3. intArray' = [intArray EXCEPT ![l] = v]
    BY <1>9 DEF MergeFirst
  <2>4. \A p \in Indices(argsLength) : l < p => v <= intArray[p]
    BY <1>2, <2>1, <2>2 DEF Merged
  <2>5. /\ \A p, q \in Indices(argsLength) : l < p /\ p <= q => intArray[p] <= intArray[q]
        /\ \A p \in Indices(argsLength), k \in Indices(amount(2)) :
             l < p /\ k <= j => num[2][k] <= intArray[p]
        /\ \A p \in Indices(argsLength), k \in Indices(amount(1)) :
             l < p /\ k <= i => num[1][k] <= intArray[p]
    BY <2>1 DEF Merged
  <2>6. \A k \in Indices(amount(1)) : k <= i => num[1][k] <= v
    BY <1>4, <2>1, <2>2 DEF Sorted
  <2>7. \A k \in Indices(amount(2)) : k <= j => num[2][k] <= v
    <3>1. ASSUME NEW k \in Indices(amount(2)), k <= j PROVE num[2][k] <= v
      <4>1. j \in Indices(amount(2)) /\ j >= 0
        BY <1>1, <1>2, <2>1, <3>1 DEF Indices
      <4>2. num[2][k] <= num[2][j] /\ num[2][j] < v
        BY <1>2, <1>4, <2>1, <2>2, <3>1, <4>1 DEF Sorted
      <4>3. num[2][k] \in Int /\ num[2][j] \in Int
        BY <1>2, <4>1
      <4>4. QED
        BY <2>2, <4>2, <4>3
    <3>2. QED
      BY <3>1
  <2> HIDE DEF v
  <2>8. v \in Int
    BY <2>2 DEF v
  <2>9. /\ \A p, q \in Indices(argsLength) : l - 1 < p /\ p <= q => intArray'[p] <= intArray'[q]
        /\ intArray'[l] = v
        /\ \A p \in Indices(argsLength) : p # l => intArray'[p] = intArray[p]
    BY <1>1, <1>2, <2>2, <2>3, <2>4, <2>5, <2>8, StoreSorted
  <2>10. ASSUME NEW p \in Indices(argsLength), NEW k \in Indices(amount(1)), l - 1 < p, k <= i - 1
         PROVE  num[1][k] <= intArray'[p]
    BY <1>2, <2>5, <2>6, <2>9, <2>10 DEF Indices
  <2>11. ASSUME NEW p \in Indices(argsLength), NEW k \in Indices(amount(2)), l - 1 < p, k <= j
         PROVE  num[2][k] <= intArray'[p]
    BY <1>2, <2>5, <2>7, <2>9, <2>11 DEF Indices
  <2>12. Merged'
    BY <1>1, <2>1, <2>9, <2>10, <2>11 DEF Merged
  <2>13. QED
    BY <1>1, <1>2, <2>1, <2>12 DEF Merging
<1>10. CASE MergeSecond
  <2>1. /\ gpc = "merge" /\ gpc' = gpc /\ num' = num /\ i' = i
        /\ j >= 0 /\ j' = j - 1 /\ l' = l - 1
        /\ l = i + j + 1 /\ j < amount(2) /\ -1 <= i /\ i < amount(1)
        /\ i >= 0 => num[1][i] <= num[2][j]
        /\ Merged
    BY <1>2, <1>10 DEF MergeSecond, TakesSecond, sortVars, IInv, Merging
  <2>2. j \in Indices(amount(2)) /\ l \in Indices(argsLength) /\ num[2][j] \in Int
    <3>1. j \in Indices(amount(2)) /\ l \in Indices(argsLength)
      <4>1. /\ amount(1) \in Nat /\ amount(2) \in Nat /\ amount(1) + amount(2) = argsLength
            /\ i \in Int /\ j \in Int /\ l \in Int
        BY <1>1, <1>2
      <4>2. QED
        BY ONLY <2>1, <4>1 DEF Indices
    <3>2. QED
      BY <1>2, <3>1
  <2> DEFINE v == num[2][j]
  <2>3. intArray' = [intArray EXCEPT ![l] = v]
    BY <1>10 DEF MergeSecond
  <2>4. \A p \in Indices(argsLength) : l < p => v <= intArray[p]
    BY <1>2, <2>1, <2>2 DEF Merged
  <2>5. /\ \A p, q \in Indices(argsLength) : l < p /\ p <= q => intArray[p] <= intArray[q]
        /\ \A p \in Indices(argsLength), k \in Indices(amount(2)) :
             l < p /\ k <= j => num[2][k] <= intArray[p]
        /\ \A p \in Indices(argsLength), k \in Indices(amount(1)) :
             l < p /\ k <= i => num[1][k] <= intArray[p]
    BY <2>1 DEF Merged
  <2>6. \A k \in Indices(amount(2)) : k <= j => num[2][k] <= v
    BY <1>4, <2>1, <2>2 DEF Sorted
  <2>7. \A k \in Indices(amount(1)) : k <= i => num[1][k] <= v
    <3>1. ASSUME NEW k \in Indices(amount(1)), k <= i PROVE num[1][k] <= v
      <4>1. i \in Indices(amount(1)) /\ i >= 0
        BY <1>1, <1>2, <2>1, <3>1 DEF Indices
      <4>2. num[1][k] <= num[1][i] /\ num[1][i] <= v
        BY <1>2, <1>4, <2>1, <2>2, <3>1, <4>1 DEF Sorted
      <4>3. num[1][k] \in Int /\ num[1][i] \in Int
        BY <1>2, <4>1
      <4>4. QED
        BY <2>2, <4>2, <4>3
    <3>2. QED
      BY <3>1
  <2> HIDE DEF v
  <2>8. v \in Int
    BY <2>2 DEF v
  <2>9. /\ \A p, q \in Indices(argsLength) : l - 1 < p /\ p <= q => intArray'[p] <= intArray'[q]
        /\ intArray'[l] = v
        /\ \A p \in Indices(argsLength) : p # l => intArray'[p] = intArray[p]
    BY <1>1, <1>2, <2>2, <2>3, <2>4, <2>5, <2>8, StoreSorted
  <2>10. ASSUME NEW p \in Indices(argsLength), NEW k \in Indices(amount(2)), l - 1 < p, k <= j - 1
         PROVE  num[2][k] <= intArray'[p]
    BY <1>2, <2>5, <2>6, <2>9, <2>10 DEF Indices
  <2>11. ASSUME NEW p \in Indices(argsLength), NEW k \in Indices(amount(1)), l - 1 < p, k <= i
         PROVE  num[1][k] <= intArray'[p]
    BY <1>2, <2>5, <2>7, <2>9, <2>11 DEF Indices
  <2>12. Merged'
    BY <1>1, <2>1, <2>9, <2>10, <2>11 DEF Merged
  <2>13. QED
    BY <1>1, <1>2, <2>1, <2>12 DEF Merging
<1>11. CASE MergerReturns
  <2>1. /\ UNCHANGED <<num, intArray, l, i, j>> /\ gpc = "merge" /\ gpc' = "done"
        /\ l = i + j + 1 /\ -1 <= i /\ i < amount(1) /\ -1 <= j /\ j < amount(2) /\ Merged
    BY <1>11 DEF MergerReturns, sortVars, IInv, Merging
  <2>2. ~ TakesFirst /\ ~ TakesSecond
    BY <1>11 DEF MergerReturns
  <2>3. i = -1 /\ j = -1
    <3>1. CASE i >= 0 /\ j >= 0
      <4>1. i \in Indices(amount(1)) /\ j \in Indices(amount(2))
        <5>1. amount(1) \in Nat /\ amount(2) \in Nat /\ i \in Int /\ j \in Int
          BY <1>1, <1>2
        <5>2. QED
          BY ONLY <2>1, <3>1, <5>1 DEF Indices
      <4>2. num[1][i] \in Int /\ num[2][j] \in Int
        BY <1>2, <4>1
      <4>3. QED
        BY <2>2, <3>1, <4>2 DEF TakesFirst, TakesSecond
    <3>2. QED
      BY <1>2, <2>1, <2>2, <3>1 DEF TakesFirst, TakesSecond
  <2>4. Merged'
    BY <1>1, <2>1 DEF Merged
  <2>5. QED
    BY <1>1, <1>2, <2>1, <2>3, <2>4 DEF Merging
<1>12. CASE UNCHANGED vars
  BY <1>3, <1>12 DEF vars
<1>13. QED
  BY <1>5, <1>6, <1>7, <1>8, <1>9, <1>10, <1>11, <1>12 DEF Next, MainStep, MergerStep

LEMMA Invariance == Spec => []IInv
<1>1. IInv /\ [Next]_vars => IInv'
  BY NextType, NextJoins, NextSorting, NextMerging DEF IInv
<1>2. QED
  BY InitInv, <1>1, PTL DEF Spec

(* The halves and the array keep their lengths, and the threads their       *)
(* states.                                                                  *)
THEOREM TypeCorrect == Spec => []TypeOK
<1>1. IInv => TypeOK
  BY DEF IInv, TypeInv, TypeOK
<1>2. QED
  BY <1>1, Invariance, PTL

(* The merge begins when both sorting threads have returned, on two sorted  *)
(* halves: what the joins at MultiThreadSorting.c:133 are for.               *)
THEOREM MergesSorted == Spec => []MergesSortedHalves
<1>1. IInv => MergesSortedHalves
  BY DEF IInv, TypeInv, Joins, Sorting, MergesSortedHalves, Sorter
<1>2. QED
  BY Invariance, <1>1, PTL

(* MergeTwoItems never stores outside integerArray, and ends with l at -1.  *)
THEOREM StaysInArray == Spec => []MergeFits
<1>1. IInv => MergeFits
  <2> SUFFICES ASSUME IInv, gpc # "none" PROVE l = i + j + 1 /\ l < argsLength /\ l >= -1
    BY DEF MergeFits
  <2>1. amount(1) \in Nat /\ amount(2) \in Nat /\ amount(1) + amount(2) = argsLength
    BY Amounts DEF IInv, TypeInv, Sorter
  <2>2. QED
    BY <2>1 DEF IInv, TypeInv, Merging
<1>2. QED
  BY Invariance, <1>1, PTL

(* The merge has two sorted halves to itself, and stays inside the array.   *)
THEOREM MergeIsSafe == Spec => []MergeSafe
<1>1. MergesSortedHalves /\ MergeFits => MergeSafe
  BY DEF MergeSafe
<1>2. QED
  BY <1>1, MergesSorted, StaysInArray, PTL

(* What main prints is sorted, for any number of any integers.              *)
THEOREM OutputSorted == Spec => []PrintsSorted
<1>1. IInv => PrintsSorted
  <2> SUFFICES ASSUME IInv, mpc = "printed" PROVE Sorted(intArray, argsLength)
    BY DEF PrintsSorted
  <2>1. gpc = "done" /\ l = -1 /\ Merged
    BY DEF IInv, Joins, Merging
  <2>2. QED
    BY <2>1 DEF Merged, Sorted, Indices
<1>2. QED
  BY Invariance, <1>1, PTL

-----------------------------------------------------------------------------
(* The numbers.  Sorting a half exchanges its numbers, and merging takes    *)
(* them from the halves and puts them into the array one by one: none is    *)
(* lost and none is stored twice.                                           *)

Tally(a, K, v) == Cardinality({k \in K : a[k] = v})

(* Both halves have the numbers of the arguments. *)
Kept ==
    \A v \in Values :
      Occurrences(num[1], amount(1), v) + Occurrences(num[2], amount(2), v)
        = Occurrences(args, argsLength, v)

(* What is stored, and what is still to come from the halves. *)
Stored(v) ==
    Tally(intArray, l + 1 .. argsLength - 1, v)
      + Occurrences(num[1], i + 1, v) + Occurrences(num[2], j + 1, v)

NInv ==
    /\ IInv
    /\ Kept
    /\ gpc # "none" => \A v \in Values : Stored(v) = Occurrences(args, argsLength, v)

LEMMA TallyAdds ==
    ASSUME NEW a, NEW K, IsFiniteSet(K), NEW m, m \notin K, NEW v
    PROVE  /\ Tally(a, K, v) \in Nat
           /\ Tally(a, K \cup {m}, v) = Tally(a, K, v) + (IF a[m] = v THEN 1 ELSE 0)
<1> DEFINE S == {k \in K : a[k] = v}
<1>1. IsFiniteSet(S) /\ Cardinality(S) \in Nat /\ m \notin S
  BY FS_Subset, FS_CardinalityType
<1>2. {k \in K \cup {m} : a[k] = v} = IF a[m] = v THEN S \cup {m} ELSE S
  OBVIOUS
<1> HIDE DEF S
<1>3. Cardinality(S \cup {m}) = Cardinality(S) + 1
  BY <1>1, FS_AddElement
<1>4. Tally(a, K, v) = Cardinality(S)
  BY DEF Tally, S
<1>5. Tally(a, K \cup {m}, v) = IF a[m] = v THEN Cardinality(S \cup {m}) ELSE Cardinality(S)
  BY <1>2 DEF Tally
<1>6. QED
  BY <1>1, <1>3, <1>4, <1>5

LEMMA TallySame ==
    ASSUME NEW a, NEW b, NEW K, \A k \in K : a[k] = b[k], NEW v
    PROVE  Tally(a, K, v) = Tally(b, K, v)
<1>1. {k \in K : a[k] = v} = {k \in K : b[k] = v}
  OBVIOUS
<1>2. QED
  BY <1>1 DEF Tally

(* Exchanging two elements changes no count. *)
LEMMA TallySwaps ==
    ASSUME NEW a, NEW b, NEW K, IsFiniteSet(K), NEW x \in K, NEW y \in K, x # y,
           b[x] = a[y], b[y] = a[x], \A k \in K \ {x, y} : b[k] = a[k], NEW v
    PROVE  Tally(b, K, v) = Tally(a, K, v)
<1> DEFINE R == K \ {x, y}
           Q == R \cup {x}
<1>1. K = Q \cup {y} /\ x \notin R /\ y \notin Q
  OBVIOUS
<1>2. IsFiniteSet(R) /\ IsFiniteSet(Q)
  BY FS_Subset, FS_AddElement
<1>3. Tally(b, R, v) = Tally(a, R, v)
  BY TallySame
<1> HIDE DEF R, Q
<1>4. \A c : /\ Tally(c, R, v) \in Nat
             /\ Tally(c, R \cup {x}, v) = Tally(c, R, v) + (IF c[x] = v THEN 1 ELSE 0)
             /\ Tally(c, Q \cup {y}, v) = Tally(c, Q, v) + (IF c[y] = v THEN 1 ELSE 0)
  BY <1>1, <1>2, TallyAdds
<1>5. Q = R \cup {x}
  BY DEF Q
<1>6. \A c : Tally(c, K, v) = Tally(c, R, v) + (IF c[x] = v THEN 1 ELSE 0) + (IF c[y] = v THEN 1 ELSE 0)
  BY <1>1, <1>4, <1>5
<1>7. QED
  BY <1>3, <1>4, <1>6

(* One element more at the end of an array, and at the front of what is     *)
(* stored.                                                                  *)
LEMMA OccurrencesGrow ==
    ASSUME NEW a, NEW n \in Nat, NEW v
    PROVE  /\ Occurrences(a, n, v) \in Nat
           /\ Occurrences(a, n + 1, v) = Occurrences(a, n, v) + (IF a[n] = v THEN 1 ELSE 0)
<1>1. Indices(n + 1) = Indices(n) \cup {n} /\ n \notin Indices(n) /\ IsFiniteSet(Indices(n))
  BY FS_Interval DEF Indices
<1>2. \A m \in Nat : Occurrences(a, m, v) = Tally(a, Indices(m), v)
  BY DEF Occurrences, Tally
<1>3. QED
  BY <1>1, <1>2, TallyAdds

LEMMA StoredGrows ==
    ASSUME NEW n \in Nat, NEW m \in Indices(n), NEW a, NEW b, NEW w, b[m] = w,
           \A k \in m + 1 .. n - 1 : a[k] = b[k], NEW v
    PROVE  /\ Tally(a, m + 1 .. n - 1, v) \in Nat
           /\ Tally(b, m .. n - 1, v)
                = Tally(a, m + 1 .. n - 1, v) + (IF w = v THEN 1 ELSE 0)
<1>1. m \in Int /\ m \in 0 .. n - 1
  BY DEF Indices
<1>2. PICK K : K = m + 1 .. n - 1
  OBVIOUS
<1>3. m .. n - 1 = K \cup {m} /\ m \notin K
  BY <1>1, <1>2 DEF Indices
<1>4. IsFiniteSet(K)
  <2>1. m + 1 \in Int /\ n - 1 \in Int
    BY <1>1
  <2>2. QED
    BY <1>2, <2>1, FS_Interval
<1>5. \A k \in K : a[k] = b[k]
  BY <1>2
<1>6. Tally(a, K, v) = Tally(b, K, v)
  BY <1>5, TallySame
<1>7. Tally(b, K, v) \in Nat /\ Tally(b, K \cup {m}, v) = Tally(b, K, v) + (IF b[m] = v THEN 1 ELSE 0)
  BY <1>3, <1>4, TallyAdds
<1>8. QED
  BY <1>2, <1>3, <1>5, <1>6, <1>7

(* The halves that main fills. *)
Halved(a, b, m, c, n) ==
    /\ \A k \in Indices(m) : b[k] = a[k]
    /\ \A k \in Indices(n) : c[k] = a[k + m]

LEMMA HalvesCount ==
    ASSUME NEW m \in Nat, NEW n \in Nat, NEW a, NEW b, NEW c, Halved(a, b, m, c, n), NEW v
    PROVE  Occurrences(b, m, v) + Occurrences(c, n, v) = Occurrences(a, m + n, v)
<1> DEFINE A == {k \in Indices(m) : a[k] = v}
           B == {k \in m .. m + n - 1 : a[k] = v}
           C == {k \in Indices(n) : c[k] = v}
           f == [k \in C |-> k + m]
<1>0. /\ \A k \in Indices(m) : b[k] = a[k]
      /\ \A k \in Indices(n) : c[k] = a[k + m]
  BY DEF Halved
<1>1. IsFiniteSet(A) /\ IsFiniteSet(B) /\ IsFiniteSet(C)
  <2>1. IsFiniteSet(Indices(m)) /\ IsFiniteSet(m .. m + n - 1) /\ IsFiniteSet(Indices(n))
    BY FS_Interval DEF Indices
  <2>2. QED
    BY <2>1, FS_Subset
<1>2. f \in Bijection(C, B)
  <2>1. \A k \in C : k \in Int /\ k + m \in B
    <3>1. ASSUME NEW k \in Indices(n), c[k] = v PROVE k \in Int /\ k + m \in B
      <4>1. k \in Int /\ k + m \in m .. m + n - 1
        BY DEF Indices
      <4>2. QED
        BY <1>0, <3>1, <4>1
    <3>2. QED
      BY <3>1
  <2>2. \A q \in B : q - m \in C /\ (q - m) + m = q
    <3>1. ASSUME NEW q \in m .. m + n - 1, a[q] = v PROVE q - m \in C /\ (q - m) + m = q
      <4>1. q - m \in Indices(n) /\ (q - m) + m = q
        BY DEF Indices
      <4>2. c[q - m] = a[(q - m) + m]
        BY <1>0, <4>1
      <4>3. QED
        BY <3>1, <4>1, <4>2
    <3>2. QED
      BY <3>1
  <2> HIDE DEF B, C
  <2>3. f \in [C -> B] /\ \A k \in C : f[k] = k + m
    BY <2>1
  <2> HIDE DEF f
  <2>4. \A p, q \in C : f[p] = f[q] => p = q
    <3>1. ASSUME NEW p \in C, NEW q \in C, f[p] = f[q] PROVE p = q
      <4>1. p + m = q + m
        BY <2>3, <3>1
      <4>2. p \in Int /\ q \in Int
        BY <2>1
      <4>3. QED
        BY <4>1, <4>2
    <3>2. QED
      BY <3>1
  <2>5. \A q \in B : \E p \in C : f[p] = q
    BY <2>2, <2>3
  <2>6. QED
    BY <2>3, <2>4, <2>5, Fun_IsBij
<1>3. Cardinality(B) = Cardinality(C)
  BY <1>1, <1>2, FS_Bijection DEF ExistsBijection
<1>4. A \cap B = {} /\ A \cup B = {k \in Indices(m + n) : a[k] = v}
  BY DEF Indices
<1>5. A = {k \in Indices(m) : b[k] = v}
  BY <1>0
<1> HIDE DEF A, B, C, f
<1>6. Cardinality(A \cup B) = Cardinality(A) + Cardinality(B)
  <2>1. Cardinality(A) \in Nat /\ Cardinality(B) \in Nat
    BY <1>1, FS_CardinalityType
  <2>2. Cardinality(A \cup B) = Cardinality(A) + Cardinality(B) - Cardinality({})
    BY <1>1, <1>4, FS_Union
  <2>3. QED
    BY <2>1, <2>2, FS_EmptySet
<1>7. QED
  BY <1>3, <1>4, <1>5, <1>6 DEF Occurrences, C

LEMMA NInvInitially == Init => NInv
<1> SUFFICES ASSUME Init, NEW v \in Values
             PROVE  Occurrences(num[1], amount(1), v) + Occurrences(num[2], amount(2), v)
                      = Occurrences(args, argsLength, v)
  BY InitInv DEF NInv, Kept, Init
<1>1. /\ amount(1) \in Nat /\ amount(2) \in Nat /\ amount(1) + amount(2) = argsLength
  BY InitInv, Amounts DEF IInv, TypeInv, Sorter
<1>2. /\ \A k \in Indices(amount(1)) : num[1][k] = args[k]
      /\ \A k \in Indices(amount(2)) : num[2][k] = args[k + amount(1)]
  BY DEF Init, Sorter
<1>3. PICK m, n, a, b, c :
        /\ m \in Nat /\ n \in Nat
        /\ m = amount(1) /\ n = amount(2) /\ a = args /\ b = num[1] /\ c = num[2]
  BY <1>1
<1>4. m \in Nat /\ n \in Nat /\ Halved(a, b, m, c, n)
  BY <1>2, <1>3 DEF Halved
<1>5. Occurrences(b, m, v) + Occurrences(c, n, v) = Occurrences(a, m + n, v)
  BY ONLY <1>4, HalvesCount
<1>6. QED
  BY <1>1, <1>3, <1>5

(* A turn of the inner loop keeps the numbers of its half. *)
LEMMA CompareKeeps ==
    ASSUME TypeInv, NEW t \in Sorter, Sorting(t), Compare(t), NEW v
    PROVE  Occurrences(num'[t], amount(t), v) = Occurrences(num[t], amount(t), v)
<1>1. PICK m, a : m \in Nat /\ m = amount(t) /\ a = num[t] /\ a \in [Indices(m) -> Int]
  BY Amounts DEF TypeInv
<1>2. PICK x \in Indices(m), y \in Indices(m) : x = si[t] /\ y = sj[t] /\ x # y
  BY <1>1 DEF Compare, Sorting, InOuterLoop, TypeInv, Indices
<1>3. PICK b : b = num'[t] /\ b = IF a[x] > a[y] THEN Swapped(a, x, y) ELSE a
  BY <1>1, <1>2 DEF Compare, TypeInv
<1>4. CASE a[x] > a[y]
  <2>1. b[x] = a[y] /\ b[y] = a[x] /\ \A k \in Indices(m) \ {x, y} : b[k] = a[k]
    BY <1>1, <1>2, <1>3, <1>4 DEF Swapped
  <2>2. IsFiniteSet(Indices(m))
    BY <1>1, FS_Interval DEF Indices
  <2>3. Tally(b, Indices(m), v) = Tally(a, Indices(m), v)
    BY <1>2, <2>1, <2>2, TallySwaps
  <2>4. QED
    BY <1>1, <1>3, <2>3 DEF Tally, Occurrences
<1>5. CASE ~ (a[x] > a[y])
  BY <1>1, <1>3, <1>5
<1>6. QED
  BY <1>4, <1>5

LEMMA NInvKept == NInv /\ [Next]_vars => NInv'
<1> SUFFICES ASSUME NInv, [Next]_vars PROVE NInv'
  OBVIOUS
<1>1. IInv /\ IInv'
  BY NextType, NextJoins, NextSorting, NextMerging DEF NInv, IInv
<1>2. /\ argsLength' = argsLength /\ argsLength \in Nat \ {0} /\ args' = args
      /\ amount(1)' = amount(1) /\ amount(1) \in Nat
      /\ amount(2)' = amount(2) /\ amount(2) \in Nat
      /\ amount(1) + amount(2) = argsLength
  BY <1>1, ArgsConstant, SameArgs, Amounts DEF IInv, TypeInv, Sorter
<1>3. gpc # "none" => spc[1] = "done" /\ spc[2] = "done"
  BY <1>1 DEF IInv, TypeInv, Joins
<1>4. Kept
  BY DEF NInv
<1>5. ASSUME num' = num, UNCHANGED <<intArray, l, i, j>>, gpc' # "none" => gpc # "none"
      PROVE  NInv'
  BY <1>1, <1>2, <1>5 DEF NInv, Kept, Stored
<1>6. ASSUME gpc' # "none", num' = num,
             \A v \in Values : Stored(v)' = Occurrences(args, argsLength, v)
      PROVE  NInv'
  BY <1>1, <1>2, <1>4, <1>6 DEF NInv, Kept
<1>7. ASSUME NEW t \in Sorter, CreateSorter(t) \/ JoinSorter(t) PROVE NInv'
  BY <1>5, <1>7 DEF CreateSorter, JoinSorter, sortVars, mergeVars
<1>8. CASE CreateFails \/ JoinMerger
  BY <1>5, <1>8 DEF CreateFails, Fails, JoinMerger, sortVars, mergeVars
<1>9. CASE CreateMerger
  <2>1. /\ gpc' = "merge" /\ num' = num /\ intArray' = intArray
        /\ l' = argsLength - 1 /\ i' = amount(1) - 1 /\ j' = amount(2) - 1
    BY <1>9 DEF CreateMerger, LastIndex, sortVars
  <2>2. ASSUME NEW v \in Values PROVE Stored(v)' = Occurrences(args, argsLength, v)
    <3>1. l' + 1 .. argsLength - 1 = {} /\ i' + 1 = amount(1) /\ j' + 1 = amount(2)
      BY <1>2, <2>1
    <3>2. Tally(intArray', {}, v) = 0
      BY FS_EmptySet DEF Tally
    <3>3. Occurrences(num[1], amount(1), v) \in Nat /\ Occurrences(num[2], amount(2), v) \in Nat
      BY <1>2, OccurrencesGrow
    <3>4. Stored(v)' = 0 + Occurrences(num[1], amount(1), v) + Occurrences(num[2], amount(2), v)
      BY <1>2, <2>1, <3>1, <3>2 DEF Stored
    <3>5. QED
      BY <1>4, <3>3, <3>4 DEF Kept
  <2>3. QED
    BY <1>6, <2>1, <2>2
<1>10. CASE \E t \in Sorter : Compare(t)
  <2>1. PICK t \in Sorter : Compare(t)
    BY <1>10
  <2>2. /\ \A u \in Sorter : u # t => num'[u] = num[u]
        /\ \A v : Occurrences(num'[t], amount(t), v) = Occurrences(num[t], amount(t), v)
    BY <1>1, <2>1, CompareHalf, CompareKeeps DEF IInv
  <2>3. \A u \in Sorter, v \in Values :
          Occurrences(num'[u], amount(u), v) = Occurrences(num[u], amount(u), v)
    BY <2>2
  <2>4. Kept'
    BY <1>2, <1>4, <2>3 DEF Kept, Sorter
  <2>5. gpc' = "none"
    BY <1>3, <2>1 DEF Compare, mergeVars, Sorter
  <2>6. QED
    BY <1>1, <2>4, <2>5 DEF NInv
<1>11. ASSUME NEW t \in Sorter, NextRow(t) \/ SorterReturns(t) PROVE NInv'
  BY <1>5, <1>11 DEF NextRow, SorterReturns, mergeVars
<1>12. gpc # "none" =>
        /\ l = i + j + 1 /\ l \in Int
        /\ i \in Int /\ -1 <= i /\ i < amount(1)
        /\ j \in Int /\ -1 <= j /\ j < amount(2)
        /\ \A v \in Values : Stored(v) = Occurrences(args, argsLength, v)
  BY <1>1 DEF IInv, TypeInv, Merging, NInv
<1>13. intArray \in [Indices(argsLength) -> Int]
  BY <1>1 DEF IInv, TypeInv
<1>14. ASSUME NEW t \in Sorter, NEW k \in Nat, gpc = "merge", gpc' = gpc, num' = num, l' = l - 1,
              l \in Indices(argsLength), intArray' = [intArray EXCEPT ![l] = num[t][k]],
              NEW v \in Values
       PROVE  /\ Tally(intArray', l' + 1 .. argsLength - 1, v)
                   + Occurrences(num[t], k, v)
                 = Tally(intArray, l + 1 .. argsLength - 1, v) + Occurrences(num[t], k + 1, v)
              /\ Tally(intArray', l' + 1 .. argsLength - 1, v) \in Nat
              /\ Tally(intArray, l + 1 .. argsLength - 1, v) \in Nat
  <2>1. PICK a, b, w, m, n :
          /\ n \in Nat /\ m \in Indices(n)
          /\ a = intArray /\ b = intArray' /\ w = num[t][k] /\ m = l /\ n = argsLength
    BY <1>2, <1>14
  <2>2. b[m] = w /\ \A x \in m + 1 .. n - 1 : a[x] = b[x]
    BY <1>13, <1>14, <2>1 DEF Indices
  <2>3. /\ Tally(a, m + 1 .. n - 1, v) \in Nat
        /\ Tally(b, m .. n - 1, v) = Tally(a, m + 1 .. n - 1, v) + (IF w = v THEN 1 ELSE 0)
    BY <2>1, <2>2, StoredGrows
  <2>4. l' + 1 = m
    BY <1>14, <2>1 DEF Indices
  <2>5. /\ Occurrences(num[t], k, v) \in Nat
        /\ Occurrences(num[t], k + 1, v) = Occurrences(num[t], k, v) + (IF w = v THEN 1 ELSE 0)
    BY <2>1, OccurrencesGrow
  <2>6. QED
    BY <2>1, <2>3, <2>4, <2>5
<1>15. ASSUME NEW t \in Sorter, NEW k \in Int PROVE \A v : k >= -1 => Occurrences(num[t], k + 1, v) \in Nat
  BY OccurrencesGrow
<1>16. CASE MergeFirst
  <2>1. /\ gpc = "merge" /\ gpc' = gpc /\ num' = num /\ j' = j
        /\ i >= 0 /\ i' = i - 1 /\ l' = l - 1
        /\ intArray' = [intArray EXCEPT ![l] = num[1][i]]
    BY <1>16 DEF MergeFirst, TakesFirst, sortVars
  <2>2. i \in Nat /\ l \in Indices(argsLength) /\ i' + 1 = i
    BY <1>2, <1>12, <2>1 DEF Indices
  <2>3. ASSUME NEW v \in Values PROVE Stored(v)' = Occurrences(args, argsLength, v)
    <3>1. /\ Tally(intArray', l' + 1 .. argsLength - 1, v) + Occurrences(num[1], i, v)
               = Tally(intArray, l + 1 .. argsLength - 1, v) + Occurrences(num[1], i + 1, v)
          /\ Tally(intArray', l' + 1 .. argsLength - 1, v) \in Nat
          /\ Tally(intArray, l + 1 .. argsLength - 1, v) \in Nat
      BY <1>14, <2>1, <2>2 DEF Sorter
    <3>2. /\ Occurrences(num[1], i + 1, v) \in Nat /\ Occurrences(num[1], i, v) \in Nat
          /\ Occurrences(num[2], j + 1, v) \in Nat
      BY <1>12, <1>15, <2>1, <2>2, OccurrencesGrow DEF Sorter
    <3>3. Stored(v)' = Tally(intArray', l' + 1 .. argsLength - 1, v)
                         + Occurrences(num[1], i, v) + Occurrences(num[2], j + 1, v)
      BY <1>2, <2>1, <2>2 DEF Stored
    <3>4. Stored(v)' = Stored(v)
      BY <3>1, <3>2, <3>3 DEF Stored
    <3>5. QED
      BY <1>12, <2>1, <3>4
  <2>4. QED
    BY <1>6, <2>1, <2>3
<1>17. CASE MergeSecond
  <2>1. /\ gpc = "merge" /\ gpc' = gpc /\ num' = num /\ i' = i
        /\ j >= 0 /\ j' = j - 1 /\ l' = l - 1
        /\ intArray' = [intArray EXCEPT ![l] = num[2][j]]
    BY <1>17 DEF MergeSecond, TakesSecond, sortVars
  <2>2. j \in Nat /\ l \in Indices(argsLength) /\ j' + 1 = j
    BY <1>2, <1>12, <2>1 DEF Indices
  <2>3. ASSUME NEW v \in Values PROVE Stored(v)' = Occurrences(args, argsLength, v)
    <3>1. /\ Tally(intArray', l' + 1 .. argsLength - 1, v) + Occurrences(num[2], j, v)
               = Tally(intArray, l + 1 .. argsLength - 1, v) + Occurrences(num[2], j + 1, v)
          /\ Tally(intArray', l' + 1 .. argsLength - 1, v) \in Nat
          /\ Tally(intArray, l + 1 .. argsLength - 1, v) \in Nat
      BY <1>14, <2>1, <2>2 DEF Sorter
    <3>2. /\ Occurrences(num[2], j + 1, v) \in Nat /\ Occurrences(num[2], j, v) \in Nat
          /\ Occurrences(num[1], i + 1, v) \in Nat
      BY <1>12, <1>15, <2>1, <2>2, OccurrencesGrow DEF Sorter
    <3>3. Stored(v)' = Tally(intArray', l' + 1 .. argsLength - 1, v)
                         + Occurrences(num[1], i + 1, v) + Occurrences(num[2], j, v)
      BY <1>2, <2>1, <2>2 DEF Stored
    <3>4. Stored(v) = Tally(intArray, l + 1 .. argsLength - 1, v)
                        + Occurrences(num[1], i + 1, v) + Occurrences(num[2], j + 1, v)
      BY DEF Stored
    <3>5. Stored(v)' = Stored(v)
      BY <3>1, <3>2, <3>3, <3>4
    <3>6. QED
      BY <1>12, <2>1, <3>5
  <2>4. QED
    BY <1>6, <2>1, <2>3
<1>18. CASE MergerReturns
  BY <1>5, <1>18 DEF MergerReturns, sortVars
<1>19. CASE UNCHANGED vars
  BY <1>5, <1>19 DEF vars
<1>20. QED
  BY <1>7, <1>8, <1>9, <1>10, <1>11, <1>16, <1>17, <1>18, <1>19
     DEF Next, MainStep, SorterStep, MergerStep

(* What main prints has every number as often as the arguments have it: no  *)
(* exchange of a sorting thread and no store of the merge loses a number or *)
(* stores it twice (MultiThreadSorting.c:28-36, 52-71).                     *)
THEOREM OutputComplete == Spec => []PrintsArguments
<1>1. NInv => PrintsArguments
  <2> SUFFICES ASSUME NInv, mpc = "printed", NEW v \in Values
               PROVE  Occurrences(intArray, argsLength, v) = Occurrences(args, argsLength, v)
    BY DEF PrintsArguments
  <2>1. gpc = "done" /\ l = -1 /\ i = -1 /\ j = -1
    BY DEF NInv, IInv, TypeInv, Joins, Merging
  <2>2. Stored(v) = Occurrences(args, argsLength, v)
    BY <2>1 DEF NInv
  <2>3. \A a : Occurrences(a, 0, v) = 0
    <3>1. Indices(0) = {}
      BY DEF Indices
    <3>2. QED
      BY <3>1, FS_EmptySet DEF Occurrences
  <2>4. Tally(intArray, 0 .. argsLength - 1, v) = Occurrences(intArray, argsLength, v)
    BY DEF Tally, Occurrences, Indices
  <2>5. Occurrences(intArray, argsLength, v) \in Nat
    BY OccurrencesGrow DEF NInv, IInv, TypeInv
  <2>6. QED
    BY <2>1, <2>2, <2>3, <2>4, <2>5 DEF Stored
<1>2. QED
  BY NInvInitially, NInvKept, <1>1, PTL DEF Spec
-----------------------------------------------------------------------------
(* Both loops of each thread, and main, run out, and none stops before main *)
(* has returned.                                                            *)

(* What is still before main and before the merging thread, ... *)
MainLeft ==
    IF mpc = "create1" THEN 6
    ELSE IF mpc = "create2" THEN 5
    ELSE IF mpc = "join1" THEN 4
    ELSE IF mpc = "join2" THEN 3
    ELSE IF mpc = "create3" THEN 2
    ELSE IF mpc = "join3" THEN 1
    ELSE 0

MergerLeft ==
    IF gpc = "none" THEN argsLength + 2
    ELSE IF gpc = "merge" THEN l + 2
    ELSE 0

(* ... and before a sorting thread: rows of comparisons, turns of the row.  *)
SorterLeft(t) ==
    IF spc[t] = "none" THEN 2
    ELSE IF spc[t] = "sort" THEN 1
    ELSE 0

RowsLeft(t) == IF InOuterLoop(t) THEN amount(t) - 1 - si[t] ELSE 0

TurnsLeft(t) == IF sj[t] <= amount(t) THEN amount(t) - sj[t] ELSE 0

(* A new row begins with more turns than the last one had left: the rows     *)
(* come before the turns.                                                   *)
SorterStays(t) == UNCHANGED <<SorterLeft(t), RowsLeft(t), TurnsLeft(t)>>

SorterGoesOn(t) ==
    \/ SorterLeft(t)' < SorterLeft(t)
    \/ SorterLeft(t)' = SorterLeft(t) /\ RowsLeft(t)' < RowsLeft(t)
    \/ /\ SorterLeft(t)' = SorterLeft(t) /\ RowsLeft(t)' = RowsLeft(t)
       /\ TurnsLeft(t)' < TurnsLeft(t)

(* It is a natural number everywhere. *)
LeftIsNatural ==
    /\ MainLeft \in Nat /\ MergerLeft \in Nat
    /\ \A t \in Sorter : SorterLeft(t) \in Nat /\ RowsLeft(t) \in Nat /\ TurnsLeft(t) \in Nat

(* A step takes something from what is left, and adds nothing anywhere.     *)
NoneGoesBack ==
    /\ MainLeft' <= MainLeft
    /\ MergerLeft' <= MergerLeft
    /\ \A t \in Sorter : SorterStays(t) \/ SorterGoesOn(t)

OneGoesOn ==
    \/ MainLeft' < MainLeft
    \/ MergerLeft' < MergerLeft
    \/ \E t \in Sorter : SorterGoesOn(t)

(* The guards of MainStep, of SorterStep(t) and of MergerStep. *)
MainCan ==
    \/ mpc \in {"create1", "create2", "create3"}
    \/ mpc = "join1" /\ spc[1] = "done"
    \/ mpc = "join2" /\ spc[2] = "done"
    \/ mpc = "join3" /\ gpc = "done"

SorterCan(t) ==
    /\ spc[t] = "sort"
    /\ \/ InOuterLoop(t) /\ sj[t] < amount(t)
       \/ InOuterLoop(t) /\ sj[t] >= amount(t)
       \/ ~ InOuterLoop(t)

MergerCan ==
    /\ gpc = "merge"
    /\ TakesFirst \/ TakesSecond \/ (~ TakesFirst /\ ~ TakesSecond)

(* Until main has returned, main or a thread can take a step. *)
NeverStuck ==
    mpc \notin {"printed", "failed"} =>
      MainCan \/ (\E t \in Sorter : SorterCan(t)) \/ MergerCan

(* Until main has failed, a thread it waits for is there and is not killed. *)
Started ==
    mpc # "failed" =>
      /\ \A t \in Sorter : spc[t] # "killed"
      /\ mpc \notin {"create1"} => spc[1] # "none"
      /\ mpc \notin {"create1", "create2"} => spc[2] # "none"
      /\ mpc = "join3" => gpc # "none"

LEMMA NextStarted == IInv /\ Started /\ [Next]_vars => Started'
<1> SUFFICES ASSUME IInv, Started, [Next]_vars, mpc' # "failed" PROVE Started'
  BY DEF Started
<1>0. /\ spc \in [Sorter -> {"none", "sort", "done", "killed"}]
      /\ mpc # "failed"
  BY DEF IInv, TypeInv, Next, MainStep, CreateSorter, JoinSorter, CreateMerger, CreateFails, Fails,
         JoinMerger, SorterStep, Compare, NextRow, SorterReturns, MergerStep, MergeFirst,
         MergeSecond, MergerReturns, vars
<1> USE DEF Started, Sorter, sortVars, mergeVars
<1>1. ASSUME NEW t \in Sorter, CreateSorter(t) \/ JoinSorter(t) PROVE Started'
  BY <1>0, <1>1 DEF CreateSorter, JoinSorter
<1>2. CASE CreateMerger \/ CreateFails \/ JoinMerger
  BY <1>0, <1>2 DEF CreateMerger, CreateFails, Fails, JoinMerger
<1>3. ASSUME NEW t \in Sorter, SorterStep(t) PROVE Started'
  BY <1>0, <1>3 DEF SorterStep, Compare, NextRow, SorterReturns
<1>4. CASE MergerStep \/ UNCHANGED vars
  BY <1>0, <1>4 DEF MergerStep, MergeFirst, MergeSecond, MergerReturns, vars
<1>5. QED
  BY <1>1, <1>2, <1>3, <1>4 DEF Next, MainStep

LEMMA SomebodyCan == IInv /\ Started => NeverStuck
<1> SUFFICES ASSUME IInv, Started, mpc \notin {"printed", "failed"}
             PROVE  MainCan \/ (\E t \in Sorter : SorterCan(t)) \/ MergerCan
  BY DEF NeverStuck
<1>1. CASE mpc \in {"create1", "create2", "create3"}
  BY <1>1 DEF MainCan
<1>2. ASSUME NEW t \in Sorter, mpc = IF t = 1 THEN "join1" ELSE "join2"
      PROVE  MainCan \/ SorterCan(t)
  <2>1. spc[t] \in {"sort", "done"}
    BY <1>2 DEF IInv, TypeInv, Started, Sorter
  <2>2. CASE spc[t] = "done"
    BY <1>2, <2>2 DEF MainCan, Sorter
  <2>3. CASE spc[t] = "sort"
    <3>1. sj[t] < amount(t) \/ sj[t] >= amount(t)
      BY Amounts DEF IInv, TypeInv
    <3>2. QED
      BY <2>3, <3>1 DEF SorterCan
  <2>4. QED
    BY <2>1, <2>2, <2>3
<1>3. CASE mpc = "join3"
  BY <1>3 DEF IInv, TypeInv, Started, MainCan, MergerCan
<1>4. QED
  BY <1>1, <1>2, <1>3 DEF IInv, TypeInv, Sorter

(* Until main has printed or failed, main, a sorting thread or the merging  *)
(* thread can take a step: a join is never of a thread that was not         *)
(* created, and a thread that was created can always go on or return.       *)
THEOREM NobodyIsStuck == Spec => []NeverStuck
<1>1. Init => IInv /\ Started
  <2>1. Init => Started
    BY DEF Init, Started, Sorter
  <2>2. QED
    BY <2>1, InitInv
<1>2. IInv /\ Started /\ [Next]_vars => (IInv /\ Started)'
  BY NextType, NextJoins, NextSorting, NextMerging, NextStarted DEF IInv
<1>3. QED
  BY <1>1, <1>2, SomebodyCan, PTL DEF Spec

LEMMA LeftAreNumbers == IInv => LeftIsNatural
<1> SUFFICES ASSUME IInv PROVE LeftIsNatural
  OBVIOUS
<1>1. MainLeft \in Nat
  BY DEF MainLeft
<1>2. MergerLeft \in Nat
  BY DEF MergerLeft, IInv, TypeInv, Merging
<1>3. ASSUME NEW t \in Sorter PROVE SorterLeft(t) \in Nat /\ RowsLeft(t) \in Nat /\ TurnsLeft(t) \in Nat
  BY Amounts DEF SorterLeft, RowsLeft, TurnsLeft, InOuterLoop, IInv, TypeInv
<1>4. QED
  BY <1>1, <1>2, <1>3 DEF LeftIsNatural

LEMMA SorterSame ==
    ASSUME NEW t \in Sorter, amount(t)' = amount(t),
           spc'[t] = spc[t], si'[t] = si[t], sj'[t] = sj[t]
    PROVE  SorterStays(t)
  BY DEF SorterStays, SorterLeft, RowsLeft, TurnsLeft, InOuterLoop

LEMMA EachStepCounts == IInv /\ Next => NoneGoesBack /\ OneGoesOn
<1> SUFFICES ASSUME IInv, Next PROVE NoneGoesBack /\ OneGoesOn
  OBVIOUS
<1> DEFINE Goal == NoneGoesBack /\ OneGoesOn
<1>1. /\ argsLength' = argsLength /\ argsLength \in Nat
      /\ \A t \in Sorter : /\ amount(t)' = amount(t) /\ amount(t) \in Nat
                           /\ si[t] \in Nat /\ sj[t] \in Nat
      /\ spc \in [Sorter -> {"none", "sort", "done", "killed"}]
      /\ si \in [Sorter -> Nat] /\ sj \in [Sorter -> Nat]
  BY ArgsConstant, SameArgs, Amounts DEF IInv, TypeInv
<1>2. /\ MainLeft \in Nat /\ MergerLeft \in Nat
      /\ MainLeft' \in Nat /\ MergerLeft' \in Int
  <2>1. MainLeft' \in Nat
    BY DEF MainLeft
  <2>2. MergerLeft' \in Int
    BY <1>1, NextType DEF MergerLeft, TypeInv
  <2>3. QED
    BY <2>1, <2>2, LeftAreNumbers DEF LeftIsNatural
<1>3. ASSUME UNCHANGED <<spc, si, sj>> PROVE \A t \in Sorter : SorterStays(t)
  BY <1>1, <1>3, SorterSame
<1>4. ASSUME UNCHANGED <<gpc, l>> PROVE MergerLeft' = MergerLeft
  BY <1>1, <1>4 DEF MergerLeft
<1>5. ASSUME mpc' = mpc PROVE MainLeft' = MainLeft
  BY <1>5 DEF MainLeft
<1>6. ASSUME NEW t \in Sorter, CreateSorter(t) PROVE Goal
  <2>1. MainLeft' < MainLeft
    BY <1>6 DEF CreateSorter, MainLeft, Sorter
  <2>2. MergerLeft' = MergerLeft
    BY <1>4, <1>6 DEF CreateSorter, mergeVars
  <2>3. ASSUME NEW u \in Sorter PROVE SorterStays(u) \/ SorterGoesOn(u)
    <3>1. CASE u = t
      <4>1. spc[t] = "none" /\ spc'[t] = "sort"
        BY <1>1, <1>6 DEF CreateSorter, IInv, Joins, Sorter
      <4>2. SorterLeft(t)' < SorterLeft(t)
        BY <4>1 DEF SorterLeft
      <4>3. QED
        BY <3>1, <4>2 DEF SorterGoesOn
    <3>2. CASE u # t
      <4>1. spc'[u] = spc[u] /\ si'[u] = si[u] /\ sj'[u] = sj[u]
        BY <1>1, <1>6, <3>2 DEF CreateSorter
      <4>2. QED
        BY <1>1, <4>1, SorterSame
    <3>3. QED
      BY <3>1, <3>2
  <2>4. QED
    BY <1>2, <2>1, <2>2, <2>3 DEF NoneGoesBack, OneGoesOn
<1>7. ASSUME NEW t \in Sorter, JoinSorter(t) PROVE Goal
  <2>1. MainLeft' < MainLeft
    BY <1>7 DEF JoinSorter, MainLeft, Sorter
  <2>2. QED
    BY <1>2, <1>3, <1>4, <1>7, <2>1 DEF JoinSorter, sortVars, mergeVars, NoneGoesBack, OneGoesOn
<1>8. CASE CreateMerger
  <2>1. gpc = "none" /\ gpc' = "merge" /\ l' = argsLength - 1
    BY <1>8 DEF CreateMerger, LastIndex, IInv, Joins
  <2>2. MergerLeft' < MergerLeft
    BY <1>1, <2>1 DEF MergerLeft
  <2>3. MainLeft' < MainLeft
    BY <1>8 DEF CreateMerger, MainLeft
  <2>4. QED
    BY <1>2, <1>3, <1>8, <2>2, <2>3 DEF CreateMerger, sortVars, NoneGoesBack, OneGoesOn
<1>9. CASE CreateFails
  <2>1. MainLeft' < MainLeft
    BY <1>9 DEF CreateFails, Fails, MainLeft
  <2>2. ASSUME NEW u \in Sorter PROVE SorterStays(u) \/ SorterGoesOn(u)
    <3>1. spc'[u] = (IF spc[u] = "sort" THEN "killed" ELSE spc[u]) /\ si' = si /\ sj' = sj
      BY <1>9 DEF CreateFails, Fails
    <3>2. CASE spc[u] = "sort"
      BY <3>1, <3>2 DEF SorterGoesOn, SorterLeft
    <3>3. CASE spc[u] # "sort"
      BY <1>1, <3>1, <3>3, SorterSame
    <3>4. QED
      BY <3>2, <3>3
  <2>3. QED
    BY <1>2, <1>4, <1>9, <2>1, <2>2 DEF CreateFails, Fails, mergeVars, NoneGoesBack, OneGoesOn
<1>10. CASE JoinMerger
  <2>1. MainLeft' < MainLeft
    BY <1>10 DEF JoinMerger, MainLeft
  <2>2. QED
    BY <1>2, <1>3, <1>4, <1>10, <2>1 DEF JoinMerger, sortVars, mergeVars, NoneGoesBack, OneGoesOn
<1>11. ASSUME NEW t \in Sorter, SorterStep(t) PROVE Goal
  <2>1. MainLeft' = MainLeft /\ MergerLeft' = MergerLeft
    BY <1>4, <1>5, <1>11 DEF SorterStep, Compare, NextRow, SorterReturns, mergeVars
  <2>2. ASSUME NEW u \in Sorter, u # t PROVE SorterStays(u)
    <3>1. spc'[u] = spc[u] /\ si'[u] = si[u] /\ sj'[u] = sj[u]
      BY <1>1, <1>11, <2>2 DEF SorterStep, Compare, NextRow, SorterReturns
    <3>2. QED
      BY <1>1, <3>1, SorterSame
  <2>3. SorterGoesOn(t)
    <3>1. CASE Compare(t)
      <4>1. spc' = spc /\ si' = si /\ sj'[t] = sj[t] + 1 /\ sj[t] < amount(t)
        BY <1>1, <3>1 DEF Compare
      <4>2. SorterLeft(t)' = SorterLeft(t) /\ RowsLeft(t)' = RowsLeft(t)
        BY <1>1, <4>1 DEF SorterLeft, RowsLeft, InOuterLoop
      <4>3. TurnsLeft(t)' < TurnsLeft(t)
        BY <1>1, <4>1 DEF TurnsLeft
      <4>4. QED
        BY <4>2, <4>3 DEF SorterGoesOn
    <3>2. CASE NextRow(t)
      <4>1. spc' = spc /\ si'[t] = si[t] + 1 /\ si[t] < amount(t) - 1
        BY <1>1, <3>2 DEF NextRow, InOuterLoop
      <4>2. SorterLeft(t)' = SorterLeft(t)
        BY <4>1 DEF SorterLeft
      <4>3. RowsLeft(t)' < RowsLeft(t)
        BY <1>1, <4>1 DEF RowsLeft, InOuterLoop
      <4>4. QED
        BY <4>2, <4>3 DEF SorterGoesOn
    <3>3. CASE SorterReturns(t)
      <4>1. spc[t] = "sort" /\ spc'[t] = "done"
        BY <1>1, <3>3 DEF SorterReturns
      <4>2. QED
        BY <4>1 DEF SorterGoesOn, SorterLeft
    <3>4. QED
      BY <1>11, <3>1, <3>2, <3>3 DEF SorterStep
  <2>4. QED
    BY <1>2, <2>1, <2>2, <2>3 DEF NoneGoesBack, OneGoesOn
<1>12. CASE MergerStep
  <2>1. UNCHANGED <<mpc, spc, si, sj>>
    BY <1>12 DEF MergerStep, MergeFirst, MergeSecond, MergerReturns, sortVars
  <2>2. MergerLeft' < MergerLeft
    <3>1. gpc = "merge" /\ l \in Int /\ l >= -1
      BY <1>12 DEF MergerStep, MergeFirst, MergeSecond, MergerReturns, IInv, TypeInv, Merging
    <3>2. \/ gpc' = "merge" /\ l' = l - 1
          \/ gpc' = "done"
      BY <1>12 DEF MergerStep, MergeFirst, MergeSecond, MergerReturns
    <3>3. QED
      BY <3>1, <3>2 DEF MergerLeft
  <2>3. QED
    BY <1>2, <1>3, <1>5, <2>1, <2>2 DEF NoneGoesBack, OneGoesOn
<1>13. QED
  BY <1>6, <1>7, <1>8, <1>9, <1>10, <1>11, <1>12 DEF Next, MainStep

(* Every step of main and of the threads brings the end nearer: main passes *)
(* a line, a thread makes one of the turns left of its loops, and none is    *)
(* added, except that a row of comparisons gone makes turns of the next.     *)
THEOREM StepsRunOut ==
    Spec => []LeftIsNatural /\ [][NoneGoesBack /\ OneGoesOn]_vars
<1>1. IInv /\ [Next]_vars => IInv'
  BY NextType, NextJoins, NextSorting, NextMerging DEF IInv
<1>2. IInv /\ [Next]_vars => [NoneGoesBack /\ OneGoesOn]_vars
  BY EachStepCounts
<1>3. QED
  BY InitInv, <1>1, <1>2, LeftAreNumbers, PTL DEF Spec
=============================================================================

-------------------------------- MODULE Sort --------------------------------
(***************************************************************************)
(* The sorts of muggle/c/dsaa/sort.c as functions of the array they are    *)
(* given.  An array is a function on 0 .. count - 1, an element a record   *)
(* with a key, which cmp compares, and an id, which tells elements with    *)
(* equal keys apart.                                                       *)
(***************************************************************************)
EXTENDS Integers, FiniteSets

CONSTANTS
  Keys,               \* a set of integers
  Counts,             \* the lengths of the arrays sorted, not 0
  QUICK_SORT_CUTOFF   \* 10 in the code; a smaller one partitions short arrays too

VARIABLES ptr, done   \* the array, and the functions that have sorted it

vars == <<ptr, done>>

\* The heap that muggle_heap_sort makes; of its module the loops are used, which are
\* functions of the array they are given.
Min == INSTANCE Heap WITH
  InitCapacity <- 1, MaxOps <- 0, nodes <- ptr, size <- 0, capacity <- 0, taken <- {},
  ops <- 0

Swap(a, i, j) == [a EXCEPT ![i] = a[j], ![j] = a[i]]

RECURSIVE Slide(_, _, _, _)
\* tmp goes down from j by steps of 'inc', past the greater elements, not below 'low'.
Slide(a, low, j, inc) ==
  IF j >= low + inc /\ a[j - inc].key > a[j].key
  THEN Slide(Swap(a, j, j - inc), low, j - inc, inc) ELSE a

RECURSIVE InsertFrom(_, _, _, _, _)
InsertFrom(a, low, i, high, inc) ==
  IF i > high THEN a ELSE InsertFrom(Slide(a, low, i, inc), low, i + 1, high, inc)

\* muggle_insertion_sort of the part low .. high.
InsertionSort(a, low, high) == InsertFrom(a, low, low + 1, high, 1)

RECURSIVE Shell(_, _, _)
Shell(a, n, inc) ==
  IF inc = 0 THEN a ELSE Shell(InsertFrom(a, 0, inc, n - 1, inc), n, inc \div 2)

\* muggle_shell_sort
ShellSort(a, n) == Shell(a, n, n \div 2)

RECURSIVE Heaped(_, _, _)
Heaped(h, a, n) == IF n = 0 THEN h ELSE Min!MoveUp(Heaped(h, a, n - 1), n, a[n - 1])

RECURSIVE Extracted(_, _, _, _)
Extracted(h, a, i, n) ==
  IF i = n THEN a
  ELSE Extracted(Min!Percolate(h, 1, n - i - 1, h[n - i]), [a EXCEPT ![i] = h[1]], i + 1, n)

\* muggle_heap_sort: all elements go into a heap and come out of it.
HeapSort(a, n) == Extracted(Heaped([i \in 1 .. n + 1 |-> a[0]], a, n), a, 0, n)

\* Is the next element of the merge the one at r?
TakeRight(a, l, center, r, right) == r <= right /\ (l > center \/ a[r].key < a[l].key)

RECURSIVE Merge(_, _, _, _, _, _, _)
\* The loops that merge a[l .. center] and a[r .. right] into arr from idx on.
Merge(a, arr, l, center, r, right, idx) ==
  IF idx > right THEN arr
  ELSE IF TakeRight(a, l, center, r, right)
  THEN Merge(a, [arr EXCEPT ![idx] = a[r]], l, center, r + 1, right, idx + 1)
  ELSE Merge(a, [arr EXCEPT ![idx] = a[l]], l + 1, center, r, right, idx + 1)

RECURSIVE MergeRecursive(_, _, _)
\* muggle_merge_sort_recursive
MergeRecursive(a, left, right) ==
  IF left >= right THEN a
  ELSE LET center == (left + right) \div 2
           b == MergeRecursive(MergeRecursive(a, left, center), center + 1, right)
       IN  Merge(b, b, left, center, center + 1, right, left)

\* muggle_merge_sort
MergeSort(a, n) == MergeRecursive(a, 0, n - 1)

\* muggle_quick_sort_median3: the pivot ends at right - 1.
Median3(a, left, right) ==
  LET center == (left + right) \div 2
      Order(b, i, j) == IF b[i].key > b[j].key THEN Swap(b, i, j) ELSE b
  IN  Swap(Order(Order(Order(a, left, center), left, right), center, right),
           center, right - 1)

RECURSIVE Partition(_, _, _, _)
\* The loop around the pivot: the array, and where i stops.
Partition(a, i, j, pivot) ==
  LET up == CHOOSE k \in i + 1 .. pivot : /\ ~(a[k].key < a[pivot].key)
                                          /\ \A m \in i + 1 .. k - 1 : a[m].key < a[pivot].key
      down == CHOOSE k \in 0 .. j - 1 : /\ ~(a[k].key > a[pivot].key)
                                        /\ \A m \in k + 1 .. j - 1 : a[m].key > a[pivot].key
  IN  IF up < down THEN Partition(Swap(a, up, down), up, down, pivot) ELSE <<a, up>>

\* Mutant: the pivot stays at the end.
PivotStays(a, left, right) ==
  LET p == Partition(Median3(a, left, right), left, right - 1, right - 1) IN p

\* Around the pivot, which is put back in its place.
Partitioned(a, left, right) ==
  LET p == Partition(Median3(a, left, right), left, right - 1, right - 1)
  IN  <<Swap(p[1], p[2], right - 1), p[2]>>

RECURSIVE QuickRecursive(_, _, _)
\* muggle_quick_sort_recursive
QuickRecursive(a, left, right) ==
  IF left + QUICK_SORT_CUTOFF <= right
  THEN LET p == Partitioned(a, left, right)
       IN  QuickRecursive(QuickRecursive(p[1], left, p[2] - 1), p[2] + 1, right)
  ELSE InsertionSort(a, left, right)

\* muggle_quick_sort
QuickSort(a, n) == QuickRecursive(a, 0, n - 1)

-----------------------------------------------------------------------------
Elements(n) == {[i \in 0 .. n - 1 |-> [key |-> f[i], id |-> i]] : f \in [0 .. n - 1 -> Keys]}

Init == ptr \in UNION {Elements(n) : n \in Counts} /\ done = "none"

Sorted(a, by) ==
  CASE by = "insertion" -> InsertionSort(a, 0, Cardinality(DOMAIN a) - 1)
    [] by = "shell" -> ShellSort(a, Cardinality(DOMAIN a))
    [] by = "heap" -> HeapSort(a, Cardinality(DOMAIN a))
    [] by = "merge" -> MergeSort(a, Cardinality(DOMAIN a))
    [] by = "quick" -> QuickSort(a, Cardinality(DOMAIN a))

Algorithms == {"insertion", "shell", "heap", "merge", "quick"}

Next ==
  /\ done = "none"
  /\ \E by \in Algorithms : ptr' = Sorted(ptr, by) /\ done' = by

Spec == Init /\ [][Next]_vars

-----------------------------------------------------------------------------
TypeOK ==
  /\ \E n \in Counts : DOMAIN ptr = 0 .. n - 1
  /\ done \in Algorithms \cup {"none"}

\* After a sort the array is in order, and it holds the elements it held before.
IsSorted ==
  done # "none" =>
    /\ \A i \in DOMAIN ptr : i > 0 => ptr[i - 1].key <= ptr[i].key
    /\ {ptr[i].id : i \in DOMAIN ptr} = DOMAIN ptr

\* Insertion sort and merge sort keep elements with equal keys in their order.
Stable ==
  done \in {"insertion", "merge"} =>
    \A i \in DOMAIN ptr : i > 0 /\ ptr[i - 1].key = ptr[i].key => ptr[i - 1].id < ptr[i].id
=============================================================================

-------------------------------- MODULE Heap --------------------------------
(***************************************************************************)
(* muggle_heap_t (muggle/c/dsaa/heap.c), a binary min-heap in an array     *)
(* that doubles.  Every entry has a value of its own, which tells entries  *)
(* with equal keys apart.                                                  *)
(***************************************************************************)
EXTENDS Integers, FiniteSets

CONSTANTS
  Keys,          \* a set of integers; cmp is their order
  InitCapacity,  \* the capacity given to init
  MaxOps         \* bound on the calls

VARIABLES nodes, size, capacity,
  taken,         \* history: the entries that extract returned
  ops

vars == <<nodes, size, capacity, taken, ops>>

NoEntry == [key |-> 0, value |-> 0]

-----------------------------------------------------------------------------
(* The loops, as functions of the array: where an entry comes to rest and  *)
(* what moves on its way.  The root is at 1, as in the code.               *)

\* The loop of muggle_heap_insert: parents greater than x move down from i on.
MoveUp(a, i, x) ==
  LET from[j \in 1 .. i] ==
        IF j = 1 \/ a[j \div 2].key <= x.key THEN [a EXCEPT ![j] = x]
        ELSE [from[j \div 2] EXCEPT ![j] = a[j \div 2]]
  IN  from[i]

\* The child of j with the smaller key in a heap of n entries.
SmallerChild(a, j, n) ==
  IF 2 * j # n /\ a[2 * j + 1].key < a[2 * j].key THEN 2 * j + 1 ELSE 2 * j


\* The loop of muggle_heap_extract: the smaller children move up from i on, until x
\* is smaller.
Percolate(a, i, n, x) ==
  LET from[j \in 1 .. n + 1] ==
        IF 2 * j > n \/ x.key < a[SmallerChild(a, j, n)].key THEN [a EXCEPT ![j] = x]
        ELSE [from[SmallerChild(a, j, n)] EXCEPT ![j] = a[SmallerChild(a, j, n)]]
  IN  from[i]

\* Mutant: the entry only goes down.
PlaceDown(a, i, n, x) == Percolate(a, i, n, x)

\* The loop of muggle_heap_remove moves x up or down from i.  It never does both: a
\* parent that has moved down is greater than x, a child that has moved up is not.
Place(a, i, n, x) ==
  IF i > 1 /\ x.key < a[i \div 2].key THEN MoveUp(a, i, x) ELSE Percolate(a, i, n, x)

-----------------------------------------------------------------------------
\* muggle_heap_init
Init ==
  /\ capacity = InitCapacity
  /\ nodes = [i \in 1 .. capacity |-> NoEntry]
  /\ size = 0 /\ taken = {} /\ ops = 0

Call == ops < MaxOps /\ ops' = ops + 1

\* muggle_heap_ensure_capacity copies the entries into a larger array.
Enlarged(c) == [i \in 1 .. c |-> IF i <= size THEN nodes[i] ELSE NoEntry]

\* muggle_heap_insert; without memory for the larger array it returns false.
Insert(k) ==
  /\ Call
  /\ LET full == capacity = size
         a == IF full THEN Enlarged(2 * capacity) ELSE nodes
     IN  /\ capacity' = IF full THEN 2 * capacity ELSE capacity
         /\ size' = size + 1
         /\ nodes' = MoveUp(a, size + 1, [key |-> k, value |-> ops + 1])
  /\ UNCHANGED taken

\* muggle_heap_extract: the last entry finds its place from the root on.
Extract ==
  /\ Call /\ size > 0
  /\ taken' = taken \cup {nodes[1]}
  /\ nodes' = Percolate(nodes, 1, size - 1, nodes[size])
  /\ size' = size - 1
  /\ UNCHANGED capacity

\* muggle_heap_remove of a node that find returned.  The key of the node is freed and
\* set to NULL first.  If it is the last node, its NULL key is compared with the key
\* of its parent; should the user's cmp say that it is smaller, the parent's entry is
\* copied over it and so becomes the entry that is placed.
Remove(i) ==
  /\ Call /\ i <= size
  /\ LET n == size - 1
         freed == [nodes EXCEPT ![i] = NoEntry]
         p == i \div 2
     IN  \/ /\ i # size
            /\ nodes' = Place(freed, i, n, nodes[size])
         \/ /\ i = size
            /\ nodes' = freed
         \/ /\ i = size /\ i > 1
            /\ nodes' = Place([freed EXCEPT ![i] = nodes[p]], p, n, nodes[p])
  /\ size' = size - 1
  /\ UNCHANGED <<capacity, taken>>

\* muggle_heap_clear
Cleared ==
  /\ nodes' = [i \in 1 .. capacity |-> IF i <= size THEN NoEntry ELSE nodes[i]]
  /\ size' = 0
  /\ UNCHANGED <<capacity, taken>>
Clear == Call /\ Cleared

\* muggle_heap_destroy clears, and frees the array: the last operation.
Destroy == ops < MaxOps /\ Cleared /\ ops' = MaxOps

Next ==
  \/ \E k \in Keys : Insert(k)
  \/ \E i \in 1 .. size : Remove(i)
  \/ Extract \/ Clear \/ Destroy

Spec == Init /\ [][Next]_vars

-----------------------------------------------------------------------------
TypeOK ==
  /\ nodes \in [1 .. capacity -> [key : Keys \cup {0}, value : 0 .. MaxOps]]
  /\ size \in 0 .. capacity
  /\ ops \in 0 .. MaxOps

\* "parent key less or equal to children's key" (heap.h:33), after any sequence of
\* insertions, extractions and removals.
HeapOrder == \A i \in 2 .. size : nodes[i \div 2].key <= nodes[i].key

-----------------------------------------------------------------------------
(* What a priority queue promises of the set of its entries.               *)

Content == {nodes[i] : i \in 1 .. size}

QueueInsert ==
  /\ \E e \in Content' : Content = Content' \ {e} /\ e \notin Content
  /\ UNCHANGED taken

QueueExtract ==
  \E e \in Content : /\ \A f \in Content : e.key <= f.key
                     /\ Content' = Content \ {e}
                     /\ taken' = taken \cup {e}

QueueRemove ==
  /\ \E e \in Content : Content' = Content \ {e}
  /\ UNCHANGED taken

QueueClear == Content' = {} /\ UNCHANGED taken

\* extract returns an entry with the smallest key; insert and remove add and take away
\* one entry, the others keep their values; growing the array loses none.
ImplementsQueue ==
  /\ Content = {} /\ taken = {}
  /\ [][QueueInsert \/ QueueExtract \/ QueueRemove \/ QueueClear]_<<Content, taken>>
=============================================================================

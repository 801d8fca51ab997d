----------------------------- MODULE ArrayList -----------------------------
(***************************************************************************)
(* muggle_array_list_t and muggle_stack_t (muggle/c/dsaa/array_list.c,     *)
(* stack.c): an array that doubles when it is full.                        *)
(***************************************************************************)
EXTENDS Integers, Sequences, SequencesExt

CONSTANTS
  InitCapacity,  \* the capacity given to init
  MaxSize,       \* bound on the number of elements
  MaxOps         \* bound on the calls

VARIABLES
  kind,          \* "list" or "stack": the struct and its functions; "none" once destroyed
  nodes, size, capacity,
  freed,         \* the data given to func_free, in order
  list,          \* history: the elements in the order they should have
  ops

vars == <<kind, nodes, size, capacity, freed, list, ops>>

\* What malloc leaves in a new array.
Garbage == 0

\* muggle_array_list_init, muggle_stack_init
Init ==
  /\ kind \in {"list", "stack"}
  /\ capacity = InitCapacity
  /\ nodes = [i \in 0 .. capacity - 1 |-> Garbage]
  /\ size = 0 /\ freed = <<>>
  /\ list = <<>> /\ ops = 0

Call == ops < MaxOps /\ ops' = ops + 1

\* muggle_array_list_get_index
GetIndex(index) ==
  IF index >= 0 THEN IF index >= size THEN -1 ELSE index
  ELSE IF -index > size THEN -1 ELSE size + index

\* Mutant: the last element is not copied.
EnsureShort ==
  IF size = capacity
  THEN [i \in 0 .. 2 * capacity - 1 |-> IF i < size - 1 THEN nodes[i] ELSE Garbage]
  ELSE nodes

\* muggle_array_list_ensure_capacity, muggle_stack_ensure_capacity of twice the
\* capacity, when the array is full.  Without memory the call that needs it fails.
Ensure ==
  IF size = capacity
  THEN [i \in 0 .. 2 * capacity - 1 |-> IF i < size THEN nodes[i] ELSE Garbage]
  ELSE nodes

\* a with d at idx and the elements from idx on one further.
Shifted(a, idx, d) ==
  [i \in DOMAIN a |-> IF i = idx THEN d ELSE IF i > idx /\ i <= size THEN a[i - 1] ELSE a[i]]

\* The place where insert (after = 0) or append (after = 1) puts an element, or -1.
Place(index, after) ==
  IF size = 0 THEN IF index \in {0, -1} THEN 0 ELSE -1
  ELSE IF GetIndex(index) < 0 THEN -1 ELSE GetIndex(index) + after

\* muggle_array_list_insert before, muggle_array_list_append after an index.  The array
\* grows before the index is looked at.
Add(index, after) ==
  /\ kind = "list" /\ size < MaxSize /\ Call
  /\ capacity' = IF size = capacity THEN 2 * capacity ELSE capacity
  /\ LET idx == Place(index, after) IN
     \/ /\ idx < 0
        /\ nodes' = Ensure
        /\ UNCHANGED <<size, list>>
     \/ /\ idx >= 0
        /\ nodes' = Shifted(Ensure, idx, ops + 1)
        /\ size' = size + 1
        /\ list' = InsertAt(list, 1 + (IF size = 0 THEN 0
                                       ELSE after + index + (IF index < 0 THEN size ELSE 0)),
                            ops + 1)
  /\ UNCHANGED <<kind, freed>>

\* muggle_array_list_remove
Remove_(index) ==
  /\ kind = "list" /\ Call
  /\ GetIndex(index) >= 0
  /\ freed' = Append(freed, nodes[GetIndex(index)])
  /\ nodes' = [i \in DOMAIN nodes |->
                 IF i >= GetIndex(index) /\ i < size - 1 THEN nodes[i + 1] ELSE nodes[i]]
  /\ size' = size - 1
  /\ list' = RemoveAt(list, 1 + index + (IF index < 0 THEN size ELSE 0))
  /\ UNCHANGED <<kind, capacity>>

\* muggle_stack_push
Push ==
  /\ kind = "stack" /\ size < MaxSize /\ Call
  /\ capacity' = IF size = capacity THEN 2 * capacity ELSE capacity
  /\ nodes' = [Ensure EXCEPT ![size] = ops + 1]
  /\ size' = size + 1
  /\ list' = Append(list, ops + 1)
  /\ UNCHANGED <<kind, freed>>

\* muggle_stack_pop
Pop ==
  /\ kind = "stack" /\ Call
  /\ size > 0
  /\ size' = size - 1
  /\ freed' = Append(freed, nodes[size - 1])
  /\ list' = Front(list)
  /\ UNCHANGED <<kind, nodes, capacity>>

\* muggle_array_list_clear, muggle_stack_clear
Clear ==
  /\ kind # "none" /\ Call
  /\ freed' = freed \o [i \in 1 .. size |-> nodes[i - 1]]
  /\ size' = 0
  /\ list' = <<>>
  /\ UNCHANGED capacity

\* muggle_array_list_destroy and muggle_stack_destroy clear, and free the array.
Destroy == Clear /\ kind' = "none" /\ nodes' = <<>>

\* What cmp sees of two elements.
Equal(d, e) == d % 2 = e % 2

\* muggle_array_list_find of d, from an index on.
Find(index, d) ==
  LET hits == {i \in GetIndex(index) .. size - 1 : Equal(nodes[i], d)}
  IN  IF GetIndex(index) < 0 \/ hits = {} THEN -1 ELSE Min(hits)

Next ==
  \/ \E index \in -size - 1 .. size, after \in {0, 1} : Add(index, after)
  \/ \E index \in -size .. size - 1 : Remove_(index)
  \/ Push \/ Pop
  \/ Clear /\ UNCHANGED <<kind, nodes>>
  \/ Destroy

Spec == Init /\ [][Next]_vars

-----------------------------------------------------------------------------
TypeOK ==
  /\ kind # "none" => nodes \in [0 .. capacity - 1 -> 0 .. MaxOps]
  /\ size \in 0 .. capacity
  /\ ops \in 0 .. MaxOps

\* The array holds the elements the calls ask for, in their order, for indices counted
\* from either end and across the growth of the array.
ArrayMatches ==
  [i \in 1 .. size |-> nodes[i - 1]] = list

\* find returns the first element equal to the one asked for, at or behind the index it
\* starts from; an index that counts from the end, or is outside, included.
FindsFirst ==
  kind = "list" => \A index \in -size - 1 .. size, d \in {0, 1} :
    LET start == 1 + index + (IF index < 0 THEN size ELSE 0)
        at == {i \in start .. size : Equal(list[i], d)}
    IN  Find(index, d) = IF start \notin 1 .. size \/ at = {} THEN -1 ELSE Min(at) - 1

\* No element is freed twice, or while the array holds it, and func_free never gets what
\* an array was before it was written.
FreedOnce ==
  /\ IsInjective(freed)
  /\ Range(freed) \cap (Range(list) \cup {Garbage}) = {}
=============================================================================

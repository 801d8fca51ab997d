----------------------------- MODULE LinkedList -----------------------------
(***************************************************************************)
(* muggle_linked_list_t and muggle_queue_t (muggle/c/dsaa/linked_list.c,   *)
(* queue.c): nodes linked both ways between a head and a tail that are     *)
(* part of the struct.                                                     *)
(***************************************************************************)
EXTENDS Integers, Sequences, SequencesExt

CONSTANTS
  Nodes,         \* the memory for nodes, a set of positive integers
  MaxOps         \* bound on the calls

NULL == 0
HEAD == -1
TAIL == -2
Cells == Nodes \cup {HEAD, TAIL}

VARIABLES
  kind,          \* "list" or "queue": the struct and its functions; "none" once destroyed
  next, prev,
  alloc, size,
  freed,         \* the nodes whose data was freed
  list,          \* history: the nodes in the order they should have
  ops

links == <<next, prev>>
vars == <<kind, links, alloc, size, freed, list, ops>>

\* muggle_linked_list_init, muggle_queue_init
Init ==
  /\ kind \in {"list", "queue"}
  /\ next = [n \in Cells |-> IF n = HEAD THEN TAIL ELSE NULL]
  /\ prev = [n \in Cells |-> IF n = TAIL THEN HEAD ELSE NULL]
  /\ alloc = {} /\ size = 0 /\ freed = {}
  /\ list = <<>> /\ ops = 0

Call == ops < MaxOps /\ ops' = ops + 1

\* muggle_linked_list_allocate_node gives a node that is free; without memory the
\* caller returns NULL and nothing has changed.
Allocate(n) ==
  /\ n \in Nodes \ alloc
  /\ \A m \in Nodes \ alloc : n <= m
  /\ alloc' = alloc \cup {n}
  /\ freed' = freed \ {n}
  /\ size' = size + 1

\* n comes between p and q.
Link(n, p, q) ==
  /\ next' = [next EXCEPT ![p] = n, ![n] = q]
  /\ prev' = [prev EXCEPT ![q] = n, ![n] = p]

\* muggle_linked_list_insert before a node, or as the first one.
Insert(node) ==
  /\ kind = "list" /\ Call
  /\ \E n \in Nodes :
       /\ Allocate(n)
       /\ LET q == IF node = NULL THEN next[HEAD] ELSE node IN Link(n, prev[q], q)
       /\ list' = InsertAt(list, IF node = NULL THEN 1 ELSE IndexFirstSubSeq(<<node>>, list), n)
  /\ UNCHANGED kind

\* muggle_linked_list_append after a node, or as the last one.
Append_(node) ==
  /\ kind = "list" /\ Call
  /\ \E n \in Nodes :
       /\ Allocate(n)
       /\ LET p == IF node = NULL THEN prev[TAIL] ELSE node IN Link(n, p, next[p])
       /\ list' = InsertAt(list, IF node = NULL THEN Len(list) + 1
                                 ELSE IndexFirstSubSeq(<<node>>, list) + 1, n)
  /\ UNCHANGED kind

\* muggle_queue_enqueue
Enqueue ==
  /\ kind = "queue" /\ Call
  /\ \E n \in Nodes :
       /\ Allocate(n)
       /\ Link(n, prev[TAIL], next[prev[TAIL]])
       /\ list' = Append(list, n)
  /\ UNCHANGED kind

\* Mutant: the tail keeps pointing to the node that is freed.
FreeNodeNoBack(n) ==
  /\ next' = [next EXCEPT ![prev[n]] = next[n], ![n] = NULL]
  /\ prev' = [prev EXCEPT ![n] = NULL]
  /\ alloc' = alloc \ {n} /\ freed' = freed \cup {n}
  /\ size' = size - 1

\* free_data and free_node of either struct.
FreeNode(n) ==
  /\ next' = [next EXCEPT ![prev[n]] = next[n], ![n] = NULL]
  /\ prev' = [prev EXCEPT ![next[n]] = prev[n], ![n] = NULL]
  /\ alloc' = alloc \ {n} /\ freed' = freed \cup {n}
  /\ size' = size - 1

\* muggle_linked_list_remove
Remove_(n) ==
  /\ kind = "list" /\ Call
  /\ n \in alloc
  /\ FreeNode(n)
  /\ list' = SelectSeq(list, LAMBDA m : m # n)
  /\ UNCHANGED kind

\* muggle_queue_dequeue removes the front.
Dequeue ==
  /\ kind = "queue" /\ Call
  /\ next[HEAD] # TAIL
  /\ FreeNode(next[HEAD])
  /\ list' = Tail(list)
  /\ UNCHANGED kind

\* The cells from n on, following 'to' until 'end'.
Walk(to, n, end) ==
  LET from[k \in 0 .. Cardinality(Nodes) + 1] ==
        IF k = 0 THEN n ELSE IF from[k - 1] \in {end, NULL} THEN NULL ELSE to[from[k - 1]]
  IN  SelectSeq([k \in 1 .. Cardinality(Nodes) + 1 |-> from[k]],
                LAMBDA m : m \in Nodes)

\* muggle_linked_list_clear, muggle_queue_clear free the nodes from the first to the last.
Clear ==
  LET nodes == Range(Walk(next, HEAD, TAIL)) IN
  /\ kind # "none" /\ Call
  /\ next' = [n \in Cells |-> IF n = HEAD THEN TAIL ELSE IF n \in nodes THEN NULL ELSE next[n]]
  /\ prev' = [n \in Cells |-> IF n = TAIL THEN HEAD ELSE IF n \in nodes THEN NULL ELSE prev[n]]
  /\ alloc' = alloc \ nodes /\ freed' = freed \cup nodes
  /\ size' = 0
  /\ list' = <<>>

\* muggle_linked_list_destroy and muggle_queue_destroy clear, and give the pool back.
Destroy == Clear /\ kind' = "none"

\* What cmp sees of the data of a node: some nodes have equal data.
Data(n) == n % 2

\* muggle_linked_list_find of data d, from a node on or from the first one.
Find(node, d) ==
  LET cells == IF node = NULL THEN Walk(next, HEAD, TAIL)
               ELSE <<node>> \o Walk(next, node, TAIL)
      hits == SelectSeq(cells, LAMBDA n : Data(n) = d)
  IN  IF hits = <<>> THEN NULL ELSE hits[1]

Next ==
  \/ \E n \in alloc \cup {NULL} : Insert(n) \/ Append_(n)
  \/ \E n \in alloc : Remove_(n)
  \/ Enqueue \/ Dequeue
  \/ Clear /\ UNCHANGED kind
  \/ Destroy

Spec == Init /\ [][Next]_vars

-----------------------------------------------------------------------------
TypeOK ==
  /\ kind \in {"list", "queue", "none"}
  /\ next \in [Cells -> Cells \cup {NULL}] /\ prev \in [Cells -> Cells \cup {NULL}]
  /\ alloc \subseteq Nodes /\ size \in Int /\ freed \subseteq Nodes
  /\ ops \in 0 .. MaxOps

\* Walking with next from the head or with prev from the tail meets the nodes in the
\* order the calls ask for, size counts them, and the data of exactly the removed
\* nodes has been freed.
ListMatches ==
  /\ Walk(next, HEAD, TAIL) = list
  /\ Walk(prev, TAIL, HEAD) = Reverse(list)
  /\ size = Len(list) /\ alloc = Range(list)
  /\ freed \cap alloc = {}

\* find returns the first node with the data asked for, at or behind the node it starts
\* from, in the order the calls ask for.
FindsFirst ==
  \A node \in alloc \cup {NULL}, d \in {0, 1} :
    LET start == IF node = NULL THEN 1 ELSE IndexFirstSubSeq(<<node>>, list)
        at == {i \in start .. Len(list) : Data(list[i]) = d}
    IN  Find(node, d) = IF at = {} THEN NULL ELSE list[Min(at)]
=============================================================================

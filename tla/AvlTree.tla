------------------------------ MODULE AvlTree ------------------------------
(***************************************************************************)
(* muggle_avl_tree_t (muggle/c/dsaa/avl_tree.c): nodes with parent         *)
(* pointers and balance factors.  A step is one round of a loop of insert  *)
(* or remove, with the whole rotation it makes.                            *)
(*                                                                         *)
(* The two sides are -1 and 1, so that a node on side s changes the        *)
(* balance of its parent by s, and the mirrored functions of the code are  *)
(* one operator.  The value given with a key is the key.                   *)
(***************************************************************************)
EXTENDS Integers, FiniteSets, FiniteSetsExt

CONSTANTS
  Keys,       \* the keys used, a set of integers; cmp is their order
  Nodes,      \* the memory for nodes, a set of positive integers
  Starts,     \* the trees to start with: records with the fields of 'tree'
              \* and the key of each node
  MaxOps      \* bound on the calls of insert and remove

LEFT == -1
RIGHT == 1
Sides == {LEFT, RIGHT}
NULL == 0

VARIABLES
  tree,        \* root and, of every node, child, parent and balance
  key, value,
  alloc,       \* the nodes allocated
  pc, node, side, arg,   \* the call in progress and its locals
  ops

data == <<key, value>>
vars == <<tree, data, alloc, pc, node, side, arg, ops>>

Child(n, s) == tree.child[n][s]

-----------------------------------------------------------------------------
\* c becomes the child of p on side s, where they are not NULL.
Attach(t, c, p, s) ==
  [t EXCEPT !.child = IF p = NULL THEN @ ELSE [@ EXCEPT ![p][s] = c],
            !.parent = IF c = NULL THEN @ ELSE [@ EXCEPT ![c] = p]]

SideOf(t, n) == IF t.child[t.parent[n]][LEFT] = n THEN LEFT ELSE RIGHT

\* z takes the place of x below the parent of x, or as the root.
Replace(t, z, x) ==
  LET p == t.parent[x] IN
  [Attach(t, z, p, IF p = NULL THEN LEFT ELSE SideOf(t, x))
     EXCEPT !.root = IF @ = x THEN z ELSE @]

\* muggle_avl_tree_rotate_left (s = RIGHT) and _rotate_right (s = LEFT): the
\* child z of x on the high side s goes up.
Rotate(t, x, s) ==
  LET z == t.child[x][s]
      u == Attach(Attach(Replace(t, z, x), t.child[z][-s], x, s), x, z, -s)
      level == t.balance[z] = 0
  IN  [u EXCEPT !.balance[x] = IF level THEN s ELSE 0,
                !.balance[z] = IF level THEN -s ELSE 0]

\* muggle_avl_tree_rotate_right_left (s = RIGHT) and _rotate_left_right (s = LEFT).
RotateTwice(t, x, s) ==
  LET z == t.child[x][s]
      y == t.child[z][-s]
      u == Attach(Attach(Replace(t, y, x), t.child[y][-s], x, s), t.child[y][s], z, -s)
      v == Attach(Attach(u, x, y, -s), z, y, s)
  IN  [v EXCEPT !.balance[x] = IF t.balance[y] = s THEN -s ELSE 0,
                !.balance[z] = IF t.balance[y] = -s THEN s ELSE 0,
                !.balance[y] = 0]

\* muggle_avl_tree_rebalance of a node whose balance is 2 * s.
Rebalance(t, x, s) ==
  IF t.balance[t.child[x][s]] = -s THEN RotateTwice(t, x, s) ELSE Rotate(t, x, s)

\* What it returns: has the subtree become less deep?
Shallower(t, x, s) == t.balance[t.child[x][s]] # 0

-----------------------------------------------------------------------------
\* muggle_avl_tree_init, and trees that calls of insert have built.
Init ==
  /\ \E s \in Starts :
       /\ tree = [root |-> s.root, child |-> s.child, parent |-> s.parent,
                  balance |-> s.balance]
       /\ key = s.key /\ value = s.key
       /\ alloc = {n \in Nodes : s.key[n] # 0}
  /\ pc = "idle" /\ node = NULL /\ side = LEFT /\ arg = 0
  /\ ops = 0

\* muggle_avl_tree_allocate_node gives some node that is free, cleared.
NewNode == CHOOSE n \in Nodes : n \notin alloc

\* The new node is filled in.
Fill(k) ==
  /\ alloc # Nodes
  /\ alloc' = alloc \cup {NewNode}
  /\ key' = [key EXCEPT ![NewNode] = k]
  /\ value' = [value EXCEPT ![NewNode] = k]

\* muggle_avl_tree_insert
InsertCall(k) ==
  /\ pc = "idle" /\ ops < MaxOps
  /\ ops' = ops + 1
  /\ \/ /\ tree.root = NULL
        /\ Fill(k)
        /\ tree' = [tree EXCEPT !.root = NewNode]
        /\ UNCHANGED <<pc, node, side, arg>>
     \/ /\ tree.root # NULL
        /\ pc' = "descend" /\ node' = tree.root /\ arg' = k
        /\ UNCHANGED <<tree, data, alloc, side>>

\* cmp(key, node->key), as a side.
Cmp(n) == IF arg < key[n] THEN LEFT ELSE RIGHT

\* One node on the way down.  The call returns NULL at a node with the key.
Descend ==
  /\ pc = "descend"
  /\ \/ /\ key[node] = arg
        /\ pc' = "idle"
        /\ UNCHANGED node
     \/ /\ key[node] # arg /\ Child(node, Cmp(node)) # NULL
        /\ node' = Child(node, Cmp(node))
        /\ UNCHANGED pc
  /\ UNCHANGED <<tree, data, alloc, side, arg, ops>>

\* The new leaf; without memory the call returns NULL.
AddLeaf ==
  /\ pc = "descend" /\ key[node] # arg /\ Child(node, Cmp(node)) = NULL
  /\ \/ /\ Fill(arg)
        /\ tree' = Attach(tree, NewNode, node, Cmp(node))
        /\ side' = Cmp(node)
        /\ pc' = "grown"
     \/ /\ pc' = "idle"
        /\ UNCHANGED <<tree, data, alloc, side>>
  /\ UNCHANGED <<node, arg, ops>>

\* The walk goes on with the parent of n, if it has one, at label l.
GoUp(n, l) ==
  IF tree.parent[n] = NULL THEN pc' = "idle" /\ UNCHANGED <<node, side>>
  ELSE node' = tree.parent[n] /\ side' = SideOf(tree, n) /\ pc' = l

\* Retracing after an insertion: the subtree of node on 'side' has become deeper.
Grown ==
  /\ pc = "grown"
  /\ LET t == [tree EXCEPT !.balance[node] = @ + side] IN
     \/ /\ t.balance[node] = 0
        /\ tree' = t /\ pc' = "idle"
        /\ UNCHANGED <<node, side>>
     \/ /\ t.balance[node] \in {-1, 1}
        /\ tree' = t
        /\ GoUp(node, "grown")
     \/ /\ t.balance[node] \in {-2, 2}
        /\ tree' = Rebalance(t, node, side) /\ pc' = "idle"
        /\ UNCHANGED <<node, side>>
  /\ UNCHANGED <<data, alloc, arg, ops>>

-----------------------------------------------------------------------------
\* muggle_avl_tree_remove of a node that find returned.
RemoveCall(n) ==
  /\ pc = "idle" /\ ops < MaxOps
  /\ n \in alloc
  /\ ops' = ops + 1
  /\ pc' = "sink" /\ node' = n /\ arg' = key[n]
  /\ UNCHANGED <<tree, data, alloc, side>>

\* The last node of the subtree of n towards side s.
Extreme(n, s) ==
  LET far[m \in Nodes] == IF Child(m, s) = NULL THEN m ELSE far[Child(m, s)]
  IN  far[n]

\* The neighbour in order that remove exchanges the data of n with.
Target(n) == IF Child(n, LEFT) # NULL THEN Extreme(Child(n, LEFT), RIGHT)
             ELSE Extreme(Child(n, RIGHT), LEFT)

IsLeaf(n) == \A s \in Sides : Child(n, s) = NULL

\* Mutant: the keys are exchanged, the values not.
SinkKey ==
  /\ pc = "sink" /\ ~IsLeaf(node)
  /\ LET m == Target(node) IN
     /\ key' = [key EXCEPT ![node] = key[m], ![m] = key[node]]
     /\ node' = m
  /\ UNCHANGED <<tree, value, alloc, pc, side, arg, ops>>

\* The data move towards a leaf.
Sink ==
  /\ pc = "sink" /\ ~IsLeaf(node)
  /\ LET m == Target(node) IN
     /\ key' = [key EXCEPT ![node] = key[m], ![m] = key[node]]
     /\ value' = [value EXCEPT ![node] = value[m], ![m] = value[node]]
     /\ node' = m
  /\ UNCHANGED <<tree, alloc, pc, side, arg, ops>>

\* muggle_avl_tree_erase_node frees the key, the value and the leaf.
EraseLeaf ==
  /\ pc = "sink" /\ IsLeaf(node)
  /\ key' = [key EXCEPT ![node] = 0]
  /\ value' = [value EXCEPT ![node] = 0]
  /\ alloc' = alloc \ {node}
  /\ tree' = [Replace(tree, NULL, node)
                EXCEPT !.parent[node] = NULL, !.balance[node] = 0]
  /\ GoUp(node, "shrunk")
  /\ UNCHANGED <<arg, ops>>

\* Mutant: after a rotation the walk up always ends.
ShrunkStops ==
  /\ pc = "shrunk"
  /\ LET t == [tree EXCEPT !.balance[node] = @ - side] IN
     \/ /\ t.balance[node] \in {-1, 1}
        /\ tree' = t /\ pc' = "idle"
        /\ UNCHANGED <<node, side>>
     \/ /\ t.balance[node] = 0
        /\ tree' = t
        /\ GoUp(node, "shrunk")
     \/ /\ t.balance[node] \in {-2, 2}
        /\ tree' = Rebalance(t, node, -side)
        /\ pc' = "idle" /\ UNCHANGED <<node, side>>
  /\ UNCHANGED <<data, alloc, arg, ops>>

\* Retracing after a removal: the subtree of node on 'side' has become less deep.
Shrunk ==
  /\ pc = "shrunk"
  /\ LET t == [tree EXCEPT !.balance[node] = @ - side] IN
     \/ /\ t.balance[node] \in {-1, 1}
        /\ tree' = t /\ pc' = "idle"
        /\ UNCHANGED <<node, side>>
     \/ /\ t.balance[node] = 0
        /\ tree' = t
        /\ GoUp(node, "shrunk")
     \/ /\ t.balance[node] \in {-2, 2}
        /\ tree' = Rebalance(t, node, -side)
        /\ IF Shallower(t, node, -side) THEN GoUp(node, "shrunk")
           ELSE pc' = "idle" /\ UNCHANGED <<node, side>>
  /\ UNCHANGED <<data, alloc, arg, ops>>

\* muggle_avl_tree_clear frees every node and leaves root where it was: nothing can be
\* done with the tree after it.  So it is with muggle_avl_tree_destroy, which clears and
\* frees the pool.
Clear ==
  /\ pc = "idle"
  /\ key' = [n \in Nodes |-> 0] /\ value' = [n \in Nodes |-> 0]
  /\ tree' = [tree EXCEPT !.child = [n \in Nodes |-> [s \in Sides |-> NULL]],
                          !.parent = [n \in Nodes |-> NULL],
                          !.balance = [n \in Nodes |-> 0]]
  /\ alloc' = {}
  /\ pc' = "cleared"
  /\ UNCHANGED <<node, side, arg, ops>>

Next ==
  \/ \E k \in Keys : InsertCall(k)
  \/ Descend \/ AddLeaf \/ Grown
  \/ \E n \in Nodes : RemoveCall(n)
  \/ Sink \/ EraseLeaf \/ Shrunk
  \/ Clear

Spec == Init /\ [][Next]_vars

-----------------------------------------------------------------------------
\* muggle_avl_tree_find
Find(k) ==
  LET at[n \in Nodes \cup {NULL}] ==
        IF n = NULL \/ key[n] = k THEN n
        ELSE at[Child(n, IF k < key[n] THEN LEFT ELSE RIGHT)]
  IN  at[tree.root]

Height(n) ==
  LET h[m \in Nodes \cup {NULL}] ==
        IF m = NULL THEN 0 ELSE 1 + Max({h[Child(m, s)] : s \in Sides})
  IN  h[n]

TypeOK ==
  /\ tree.root \in Nodes \cup {NULL}
  /\ tree.child \in [Nodes -> [Sides -> Nodes \cup {NULL}]]
  /\ tree.parent \in [Nodes -> Nodes \cup {NULL}]
  /\ tree.balance \in [Nodes -> -1 .. 1]
  /\ alloc \subseteq Nodes
  /\ pc \in {"idle", "descend", "grown", "sink", "shrunk", "cleared"}

\* Between the calls every allocated node hangs in the tree once, under the node
\* its parent pointer names, and the root has no parent: the rotations lose and
\* share no subtree.
LinksMatch ==
  pc = "idle" =>
    /\ tree.root = NULL <=> alloc = {}
    /\ tree.root # NULL => tree.root \in alloc /\ tree.parent[tree.root] = NULL
    /\ \A n \in alloc, s \in Sides :
         Child(n, s) # NULL => Child(n, s) \in alloc /\ tree.parent[Child(n, s)] = n
    /\ \A n \in alloc \ {tree.root} :
         Cardinality({s \in Sides : Child(tree.parent[n], s) = n}) = 1

\* "balance factor = height(right_sub_tree) - height(left_sub_tree)"
\* (avl_tree.h:26), and between the calls it is -1, 0 or 1.
Balanced ==
  pc = "idle" =>
    \A n \in alloc : /\ tree.balance[n] = Height(Child(n, RIGHT)) - Height(Child(n, LEFT))
                     /\ tree.balance[n] \in -1 .. 1

\* The order of the keys survives the rotations and the exchanges of data: find finds
\* every key that a node holds, and no other.
FindsAll ==
  pc = "idle" => \A k \in Keys : Find(k) = IF \E n \in alloc : key[n] = k
                                          THEN CHOOSE n \in alloc : key[n] = k ELSE NULL

\* MUGGLE_ASSERT in the rotations: the child that goes up exists and leans as the
\* case says.
AssertsHold ==
  LET t == [tree EXCEPT !.balance[node] = @ + (IF pc = "grown" THEN side ELSE -side)]
      s == IF t.balance[node] > 0 THEN RIGHT ELSE LEFT
      z == t.child[node][s]
  IN  pc \in {"grown", "shrunk"} /\ t.balance[node] \in {-2, 2} =>
        /\ z # NULL
        /\ t.balance[z] = -s => t.child[z][-s] # NULL

Contents ==
  [k \in {key[n] : n \in alloc} |-> value[CHOOSE n \in alloc : key[n] = k]]
Dict == INSTANCE Dictionary WITH Values <- Keys, Overwrites <- FALSE, map <- Contents

\* insert adds its key with its value, unless the key is there; remove frees the pair
\* of the node it was given, wherever the pair has been moved to; nothing else is
\* touched, also while data are exchanged.
ImplementsDictionary == Dict!Spec
=============================================================================

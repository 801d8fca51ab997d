-------------------------------- MODULE Trie --------------------------------
(***************************************************************************)
(* muggle_trie_t (muggle/c/dsaa/trie.c).  The root is a member of the      *)
(* struct; the empty key has the node children['\0'] of the root.          *)
(***************************************************************************)
EXTENDS Integers, Sequences

CONSTANTS
  Chars, NUL,    \* the characters of the keys, and '\0'
  Keys,          \* the keys used, sequences of Chars
  Values,        \* a set of positive integers
  Nodes,         \* the memory for nodes, 1 .. some number
  MaxOps         \* bound on the calls

Seqs == INSTANCE SequencesExt

NULL == 0
ROOT == 0

VARIABLES
  children,      \* of the root and the nodes
  data,
  cnt,           \* the number of nodes allocated, as 1 .. cnt
  freed,         \* history: the values given to func_free
  ops

vars == <<children, data, cnt, freed, ops>>

NoChildren == [c \in Chars \cup {NUL} |-> NULL]

\* muggle_trie_init
Init ==
  /\ children = [n \in Nodes \cup {ROOT} |-> NoChildren]
  /\ data = [n \in Nodes |-> NULL]
  /\ cnt = 0 /\ freed = {} /\ ops = 0

\* The characters that lead to the node of a key.
Steps(k) == IF k = <<>> THEN <<NUL>> ELSE k

\* muggle_trie_find: NULL, or the node at the end of the key, with or without data.
Find(k) ==
  LET at[i \in 0 .. Len(Steps(k))] ==
        IF i = 0 THEN ROOT
        ELSE IF i > 1 /\ at[i - 1] = NULL THEN NULL ELSE children[at[i - 1]][Steps(k)[i]]
  IN  at[Len(Steps(k))]

\* Mutant: a new node is hung under the root.
GrowAtRoot(s, c) ==
  IF s.fails THEN s
  ELSE IF s.children[s.node][c] # NULL THEN [s EXCEPT !.node = s.children[s.node][c]]
  ELSE IF s.memory = 0 THEN [s EXCEPT !.fails = TRUE]
  ELSE [children |-> [s.children EXCEPT ![ROOT][c] = s.cnt + 1], node |-> s.cnt + 1,
        cnt |-> s.cnt + 1, memory |-> s.memory - 1, fails |-> FALSE]

\* One round of the loop of insert: go to the child for c, which is allocated if it is
\* missing and there is memory.
Grow(s, c) ==
  IF s.fails THEN s
  ELSE IF s.children[s.node][c] # NULL THEN [s EXCEPT !.node = s.children[s.node][c]]
  ELSE IF s.memory = 0 THEN [s EXCEPT !.fails = TRUE]
  ELSE [children |-> [s.children EXCEPT ![s.node][c] = s.cnt + 1], node |-> s.cnt + 1,
        cnt |-> s.cnt + 1, memory |-> s.memory - 1, fails |-> FALSE]

\* muggle_trie_insert.  The value that was there is not freed; without memory for a
\* node the call returns NULL and the nodes before it stay.
Insert(k, v) ==
  /\ ops < MaxOps
  /\ \E memory \in 0 .. Len(Steps(k)) :
       LET s == Seqs!FoldLeft(Grow, [children |-> children, node |-> ROOT, cnt |-> cnt,
                                     memory |-> memory, fails |-> FALSE], Steps(k)) IN
       /\ children' = s.children /\ cnt' = s.cnt
       /\ data' = IF s.fails THEN data ELSE [data EXCEPT ![s.node] = v]
  /\ ops' = ops + 1
  /\ UNCHANGED freed

\* Mutant: the node goes with its data.
RemoveNode(k) ==
  /\ ops < MaxOps /\ Find(k) # NULL
  /\ freed' = freed \cup {data[Find(k)]}
  /\ data' = [data EXCEPT ![Find(k)] = NULL]
  /\ children' = [children EXCEPT ![Find(k)] = NoChildren]
  /\ ops' = ops + 1
  /\ UNCHANGED cnt

\* muggle_trie_remove frees the data and leaves the node; func_free is called with NULL
\* for a node that is only on the way to others.
Remove(k) ==
  /\ ops < MaxOps /\ Find(k) # NULL
  /\ freed' = freed \cup {data[Find(k)]}
  /\ data' = [data EXCEPT ![Find(k)] = NULL]
  /\ ops' = ops + 1
  /\ UNCHANGED <<children, cnt>>

\* muggle_trie_destroy erases the subtrees of the root, the last operation.
Destroy ==
  /\ ops < MaxOps
  /\ children' = [n \in Nodes \cup {ROOT} |-> NoChildren]
  /\ data' = [n \in Nodes |-> NULL]
  /\ cnt' = 0
  /\ freed' = freed \cup {data[n] : n \in {m \in Nodes : data[m] # NULL}}
  /\ ops' = MaxOps

Next ==
  \/ \E k \in Keys, v \in Values : Insert(k, v)
  \/ \E k \in Keys : Remove(k)
  \/ Destroy

Spec == Init /\ [][Next]_vars

-----------------------------------------------------------------------------
TypeOK ==
  /\ children \in [Nodes \cup {ROOT} -> [Chars \cup {NUL} -> Nodes \cup {NULL}]]
  /\ data \in [Nodes -> Values \cup {NULL}]
  /\ cnt \in Nodes \cup {0}
  /\ freed \subseteq Values \cup {NULL} /\ ops \in 0 .. MaxOps

\* Every node is the child of one node for one character: no two keys end at the same
\* node, and destroy, which walks down from the root, frees each node once.
NodesApart ==
  \A m \in 1 .. cnt :
    \E n \in 0 .. m - 1, c \in Chars \cup {NUL} :
      \A q \in Nodes \cup {ROOT}, d \in Chars \cup {NUL} :
        children[q][d] = m <=> q = n /\ d = c

Contents ==
  [k \in {j \in Keys : Find(j) # NULL /\ data[Find(j)] # NULL} |-> data[Find(k)]]
Dict == INSTANCE Dictionary WITH Overwrites <- TRUE, map <- Contents

\* The trie is a dictionary whose insert replaces: a key that is a prefix of others
\* comes and goes by itself, and an insert that fails halfway changes no key.
ImplementsDictionary == Dict!Spec
=============================================================================
